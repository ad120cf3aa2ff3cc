----------------------------- MODULE ReviewProofs -----------------------------
(***************************************************************************)
(* TLAPS proofs about the two reviews of recipes: for any recipes, batches *)
(* and limits, and any number of crashes, edits, resets and retries, a     *)
(* batch costs a bounded number of reviewer Runs; and a plan that a        *)
(* transaction is over with was carried out or undone as a whole, and no   *)
(* recipe of the user is lost on the way, whatever the operator edits that *)
(* is not part of it; and the ledgers of drafts follow them.               *)
(***************************************************************************)
EXTENDS ToolReview, DraftReview, FiniteSetTheorems, TLAPS

\* What the proofs need to know of the state file.
Admitted(a) == {"phase", "attempts"} \subseteq DOMAIN a /\ a.attempts \in Nat

\* A reviewer was launched that the state does not count yet.
Uncounted == IF worker = "launched" THEN 1 ELSE 0

\* LaunchesBounded is not inductive: each launch is an attempt, one that is about
\* to be counted, or one whose process died.  What a batch that was reset cost
\* stands until the next one is captured.
AdmissionIInv ==
    /\ Admitted(admission) /\ reviewers \in Nat /\ crashes \in Nat
    /\ admission.attempts <= AttemptLimit
    /\ worker # "idle" => admission.phase # "none"
    /\ worker \in {"launching", "launched"} => admission.attempts < AttemptLimit
    /\ admission.phase # "none" => reviewers <= admission.attempts + crashes + Uncounted
    /\ LaunchesBounded

LEMMA AdmissionInitially == AdmissionInit => AdmissionIInv
  BY AdmissionAssumption
     DEF AdmissionInit, AdmissionIInv, NoAdmission, Admitted, Uncounted, LaunchesBounded

-----------------------------------------------------------------------------
(* Steps.                                                                  *)

\* Steps that neither launch a reviewer nor count, forget or excuse an attempt.
Plain ==
    /\ Admitted(admission') /\ admission'.attempts = admission.attempts
    /\ admission'.phase = "none" <=> admission.phase = "none"
    /\ worker' # "idle" => admission.phase # "none"
    /\ worker' = worker \/ {worker, worker'} \cap {"launching", "launched"} = {}
    /\ UNCHANGED <<reviewers, crashes>>

LEMMA PlainKeeps == AdmissionIInv /\ Plain => AdmissionIInv'
  BY AdmissionAssumption
     DEF Plain, AdmissionIInv, Admitted, Uncounted, LaunchesBounded

LEMMA LaunchesKeep ==
    ASSUME AdmissionIInv,
           TickLaunch \/ LaunchReviewer \/ RecordLaunch \/ LaunchFails
    PROVE  AdmissionIInv'
  <1>1. CASE TickLaunch
    BY <1>1, AdmissionAssumption
       DEF TickLaunch, AdmissionIInv, Uncounted, LaunchesBounded, onlyWorker, Idle
  <1>2. CASE LaunchReviewer
    BY <1>2, AdmissionAssumption
       DEF LaunchReviewer, AdmissionIInv, Admitted, Uncounted, LaunchesBounded, onlyWorker
  <1>3. CASE RecordLaunch \/ LaunchFails
    <2>1. /\ Admitted(admission) /\ reviewers \in Nat /\ crashes \in Nat
          /\ UNCHANGED <<reviewers, crashes>>
      BY <1>3 DEF AdmissionIInv, RecordLaunch, LaunchFails, onlyWorker
    <2>2. DOMAIN admission' = DOMAIN admission
      BY <1>3 DEF RecordLaunch, LaunchFails
    <2>3. admission'.phase # "none" /\ admission'.attempts = admission.attempts + 1
      BY <1>3, <2>1, Zenon DEF RecordLaunch, LaunchFails, Admitted
    <2>4. /\ worker \in {"launching", "launched"} /\ worker' = "idle"
          /\ Uncounted \in {0, 1} /\ Uncounted' = 0
      BY <1>3 DEF RecordLaunch, LaunchFails, Uncounted
    <2>5. /\ admission.attempts < AttemptLimit
          /\ reviewers <= admission.attempts + crashes + Uncounted /\ LaunchesBounded
      BY <2>4 DEF AdmissionIInv
    <2> QED
      BY <2>1, <2>2, <2>3, <2>4, <2>5, AdmissionAssumption
         DEF AdmissionIInv, Admitted, LaunchesBounded
  <1> QED
    BY <1>1, <1>2, <1>3

LEMMA NewBatchKeeps ==
    ASSUME AdmissionIInv, NEW batch, NewBatch(batch), UNCHANGED crashes
    PROVE  AdmissionIInv'
  <1>1. Admitted(admission') /\ admission'.phase = "captured" /\ admission'.attempts = 0
    BY DEF NewBatch, NoAdmission, Admitted
  <1>2. reviewers' = 0 /\ worker' = "launching" /\ Uncounted' = 0
    BY DEF NewBatch, Uncounted
  <1> QED
    BY <1>1, <1>2, AdmissionAssumption DEF AdmissionIInv, LaunchesBounded

LEMMA RetryKeeps ==
    ASSUME AdmissionIInv, NEW phase, phase # "none", NEW run, RetryAs(phase, run)
    PROVE  AdmissionIInv'
  <1>1. Admitted(admission') /\ admission'.phase = phase /\ admission'.attempts = 0
    BY DEF RetryAs, AdmissionIInv, Admitted
  <1>2. /\ reviewers' = 0 /\ crashes \in Nat /\ UNCHANGED crashes
        /\ worker' = "idle" /\ Uncounted' = 0
    BY DEF RetryAs, AdmissionIInv, Uncounted, Idle
  <1> QED
    BY <1>1, <1>2, AdmissionAssumption DEF AdmissionIInv, LaunchesBounded

LEMMA CrashKeeps == AdmissionIInv /\ Crash => AdmissionIInv'
  BY AdmissionAssumption DEF Crash, AdmissionIInv, Admitted, Uncounted, LaunchesBounded, Idle

LEMMA ResetKeeps == AdmissionIInv /\ Reset => AdmissionIInv'
  BY AdmissionAssumption
     DEF Reset, NoAdmission, AdmissionIInv, Admitted, Uncounted, LaunchesBounded, Idle

LEMMA ReviewersArePlain ==
    ASSUME AdmissionIInv,
           \/ ReviewFails
           \/ \E how \in {"done", "failed"} : ReviewerEnds(how)
           \/ \E p \in Paths, recipe \in Recipes \cup {None} : EditRecipe(p, recipe)
    PROVE  Plain
  <1> USE DEF AdmissionIInv, Admitted, Plain, onlyWorker
  <1>1. CASE ReviewFails
    BY <1>1 DEF ReviewFails, Processable, Idle
  <1>2. CASE \E how \in {"done", "failed"} : ReviewerEnds(how)
    BY <1>2 DEF ReviewerEnds
  <1>3. CASE \E p \in Paths, recipe \in Recipes \cup {None} : EditRecipe(p, recipe)
    BY <1>3 DEF EditRecipe, reviewVars
  <1> QED
    BY <1>1, <1>2, <1>3

-----------------------------------------------------------------------------
(* The review of the tools.                                                *)

LEMMA BoundaryIsPlain ==
    ASSUME AdmissionIInv, BoundaryStart \/ (\E d \in [Captured -> Decisions] : Approve(d))
    PROVE  Plain
  <1> USE DEF AdmissionIInv, Admitted, Plain, historyVars
  <1>1. CASE BoundaryStart
    BY <1>1 DEF BoundaryStart, BoundaryStep, BoundaryFails, Idle
  <1>2. CASE \E d \in [Captured -> Decisions] : Approve(d)
    BY <1>2 DEF Approve, Processable
  <1> QED
    BY <1>1, <1>2

LEMMA TransactIsPlain ==
    ASSUME AdmissionIInv, Transact \/ (\E t \in Paths : WriteTarget(t, FALSE))
    PROVE  Plain
  <1> USE DEF AdmissionIInv, Admitted, Plain, txUnchanged, historyVars
  <1>1. CASE \E n \in Names : JournalSource(n) \/ QuarantineSource(n)
    BY <1>1 DEF JournalSource, QuarantineSource
  <1>2. CASE \E n \in Names : UndoSource(n)
    BY <1>2 DEF UndoSource, RollbackRequired, BoundaryFails
  <1>3. CASE \E t \in Paths : JournalTarget(t) \/ UndoTarget(t)
    BY <1>3 DEF JournalTarget, UndoTarget, RollbackRequired, BoundaryFails
  <1>4. CASE \E t \in Paths : WriteTarget(t, TRUE) \/ WriteTarget(t, FALSE)
    BY <1>4 DEF WriteTarget
  <1>5. CASE SourcesDone \/ TargetsDone \/ Commit \/ TargetsUndone
    BY <1>5 DEF SourcesDone, TargetsDone, Commit, TargetsUndone
  <1>6. CASE CommitFails \/ RolledBack
    BY <1>6 DEF CommitFails, RolledBack, BoundaryFails
  <1> QED
    BY <1>1, <1>2, <1>3, <1>4, <1>5, <1>6 DEF Transact

LEMMA FinalizeIsPlain ==
    ASSUME AdmissionIInv, Finalize
    PROVE  Plain
  <1> USE DEF AdmissionIInv, Admitted, Plain, txUnchanged, linUnchanged, historyVars
  <1>1. CASE PendLineage \/ Complete \/ SweepQuarantine
    BY <1>1 DEF PendLineage, Complete, SweepQuarantine
  <1>2. CASE DeriveLineage \/ ResumeLineage \/ LineageFails \/ CommitLineage
    BY <1>2 DEF DeriveLineage, ResumeLineage, LineageFails, CommitLineage
  <1>3. CASE WriteIndex \/ (\E n \in Names : WriteLedger(n) \/ DeleteLedger(n))
    BY <1>3 DEF WriteIndex, WriteLedger, DeleteLedger
  <1> QED
    BY <1>1, <1>2, <1>3 DEF Finalize

LEMMA ToolCaptureKeeps ==
    ASSUME AdmissionIInv, TickCapture
    PROVE  AdmissionIInv'
  <1>1. CASE Cardinality(Eligible(usage)) < Threshold
    <2>1. Plain
      BY <1>1 DEF TickCapture, Plain, AdmissionIInv, reviewVars
    <2> QED
      BY <2>1, PlainKeeps
  <1>2. CASE ~(Cardinality(Eligible(usage)) < Threshold)
    <2>1. UNCHANGED crashes /\ \E batch : NewBatch(batch)
      BY <1>2 DEF TickCapture
    <2> QED
      BY <2>1, NewBatchKeeps
  <1> QED
    BY <1>1, <1>2

LEMMA ToolStepKeeps ==
    ASSUME AdmissionIInv, [ToolWork \/ ToolEvent]_toolVars
    PROVE  AdmissionIInv'
  <1>1. CASE TickLaunch \/ LaunchReviewer \/ RecordLaunch \/ LaunchFails
    BY <1>1, LaunchesKeep
  <1>2. CASE TickCapture
    BY <1>2, ToolCaptureKeeps
  <1>3. CASE \/ ReviewFails \/ \E how \in {"done", "failed"} : ReviewerEnds(how)
             \/ \E p \in Paths, recipe \in Recipes \cup {None} : EditRecipe(p, recipe)
    BY <1>3, ReviewersArePlain, PlainKeeps
  <1>4. CASE BoundaryStart \/ (\E d \in [Captured -> Decisions] : Approve(d))
    BY <1>4, BoundaryIsPlain, PlainKeeps
  <1>5. CASE Transact \/ (\E t \in Paths : WriteTarget(t, FALSE))
    BY <1>5, TransactIsPlain, PlainKeeps
  <1>6. CASE Finalize
    BY <1>6, FinalizeIsPlain, PlainKeeps
  <1>7. CASE Crash \/ Reset
    BY <1>7, CrashKeeps, ResetKeeps
  <1>8. CASE Retry
    BY <1>8, RetryKeeps DEF Retry
  <1>9. CASE (\E p \in Paths : LaunchTool(p)) \/ UNCHANGED toolVars
    <2>1. Plain
      BY <1>9 DEF LaunchTool, toolVars, admissionVars, reviewVars, historyVars, Plain,
                  AdmissionIInv
    <2> QED
      BY <2>1, PlainKeeps
  <1> QED
    BY <1>1, <1>2, <1>3, <1>4, <1>5, <1>6, <1>7, <1>8, <1>9 DEF ToolWork, ToolEvent, Admit

\* For any tools, limits and crashes, a batch of tools costs no more reviewer
\* Runs than attempts are allowed, and one for every process that died between
\* a launch and the record of it (createToolReviewScheduler).
THEOREM ToolLaunchesBounded == ToolSpec => []LaunchesBounded
  <1>1. ToolInit => AdmissionIInv
    BY AdmissionInitially DEF ToolInit
  <1>2. AdmissionIInv /\ [ToolWork \/ ToolEvent]_toolVars => AdmissionIInv'
    BY ToolStepKeeps
  <1>3. AdmissionIInv => LaunchesBounded
    BY DEF AdmissionIInv
  <1> QED
    BY <1>1, <1>2, <1>3, PTL DEF ToolSpec

-----------------------------------------------------------------------------
(* The review of the drafts.                                               *)

LEMMA DraftFailsPlainly ==
    ASSUME AdmissionIInv, ProcessingFails, worker \notin {"launching", "launched"},
           admission.phase # "none", UNCHANGED <<reviewers, crashes>>
    PROVE  Plain
  BY DEF AdmissionIInv, Admitted, Plain, ProcessingFails

LEMMA DraftPlanIsPlain ==
    ASSUME AdmissionIInv,
           VerifyPreconditions \/ RecoverDrafts
             \/ \E d \in [Captured -> Decisions] : ApproveDrafts(d)
    PROVE  Plain
  <1> USE DEF draftSame, historyVars
  <1>1. CASE \E d \in [Captured -> Decisions] : ApproveDrafts(d)
    BY <1>1 DEF ApproveDrafts, Processable, Idle, AdmissionIInv, Plain
  <1>2. CASE VerifyPreconditions
    <2>1. CASE ProcessingFails
      BY <1>2, <2>1, DraftFailsPlainly DEF VerifyPreconditions, AdmissionIInv
    <2>2. CASE worker' = "writing" /\ UNCHANGED admission
      BY <1>2, <2>2 DEF VerifyPreconditions, AdmissionIInv, Plain
    <2> QED
      BY <1>2, <2>1, <2>2 DEF VerifyPreconditions
  <1>3. CASE RecoverDrafts
    <2>1. CASE ProcessingFails
      BY <1>3, <2>1, DraftFailsPlainly DEF RecoverDrafts, Processable, Idle, AdmissionIInv
    <2>2. CASE worker' \in {"committing", "restoring"} /\ UNCHANGED admission
      BY <1>3, <2>2 DEF RecoverDrafts, Processable, Idle, AdmissionIInv, Plain
    <2> QED
      BY <1>3, <2>1, <2>2 DEF RecoverDrafts
  <1> QED
    BY <1>1, <1>2, <1>3

LEMMA ConsolidationIsPlain ==
    ASSUME AdmissionIInv,
           \/ \E t \in Paths : \/ WriteDraftTarget(t, TRUE) \/ WriteDraftTarget(t, FALSE)
                               \/ RestoreTarget(t)
           \/ \E n \in Names : QuarantineDraft(n) \/ RestoreSource(n) \/ CarryLedger(n)
           \/ TargetsValidated \/ SourcesQuarantined \/ PendEvidence \/ CommitDrafts
           \/ DraftCommitFails \/ Restored \/ CarryFails
           \/ DraftsComplete \/ SweepDrafts
    PROVE  Plain
  <1> USE DEF draftSame, historyVars
  <1>1. CASE \E t \in Paths : \/ WriteDraftTarget(t, TRUE) \/ WriteDraftTarget(t, FALSE)
                              \/ RestoreTarget(t)
    BY <1>1 DEF WriteDraftTarget, RestoreTarget, AdmissionIInv, Plain
  <1>2. CASE \E n \in Names : QuarantineDraft(n) \/ RestoreSource(n) \/ CarryLedger(n)
    BY <1>2 DEF QuarantineDraft, RestoreSource, CarryLedger, AdmissionIInv, Plain
  <1>3. CASE TargetsValidated \/ SourcesQuarantined \/ PendEvidence \/ CommitDrafts
    BY <1>3 DEF TargetsValidated, SourcesQuarantined, PendEvidence, CommitDrafts,
                AdmissionIInv, Plain
  <1>4. CASE DraftCommitFails \/ Restored \/ CarryFails
    BY <1>4, DraftFailsPlainly DEF DraftCommitFails, Restored, CarryFails, AdmissionIInv
  <1>5. CASE DraftsComplete \/ SweepDrafts
    BY <1>5 DEF DraftsComplete, SweepDrafts, AdmissionIInv, Admitted, Plain
  <1> QED
    BY <1>1, <1>2, <1>3, <1>4, <1>5

LEMMA DraftCaptureKeeps ==
    ASSUME AdmissionIInv, CaptureDrafts
    PROVE  AdmissionIInv'
  <1>1. CASE Cardinality(Candidates(usage)) < Threshold
    <2>1. Plain
      BY <1>1 DEF CaptureDrafts, Plain, AdmissionIInv, reviewVars, Idle
    <2> QED
      BY <2>1, PlainKeeps
  <1>2. CASE ~(Cardinality(Candidates(usage)) < Threshold)
    <2>1. UNCHANGED crashes /\ \E batch : NewBatch(batch)
      BY <1>2 DEF CaptureDrafts
    <2> QED
      BY <2>1, NewBatchKeeps
  <1> QED
    BY <1>1, <1>2

LEMMA DraftStepKeeps ==
    ASSUME AdmissionIInv, [DraftWork \/ DraftEvent]_draftVars
    PROVE  AdmissionIInv'
  <1>1. CASE TickLaunch \/ LaunchReviewer \/ RecordLaunch \/ LaunchFails
    BY <1>1, LaunchesKeep
  <1>2. CASE CaptureDrafts
    BY <1>2, DraftCaptureKeeps
  <1>3. CASE \/ ReviewFails \/ \E how \in {"done", "failed"} : ReviewerEnds(how)
             \/ \E p \in Paths, recipe \in Recipes \cup {None} : EditRecipe(p, recipe)
    BY <1>3, ReviewersArePlain, PlainKeeps
  <1>4. CASE VerifyPreconditions \/ RecoverDrafts
               \/ \E d \in [Captured -> Decisions] : ApproveDrafts(d)
    BY <1>4, DraftPlanIsPlain, PlainKeeps
  <1>5. CASE \/ \E t \in Paths : \/ WriteDraftTarget(t, TRUE) \/ WriteDraftTarget(t, FALSE)
                                 \/ RestoreTarget(t)
             \/ \E n \in Names : QuarantineDraft(n) \/ RestoreSource(n) \/ CarryLedger(n)
             \/ TargetsValidated \/ SourcesQuarantined \/ PendEvidence \/ CommitDrafts
             \/ DraftCommitFails \/ Restored \/ CarryFails
             \/ DraftsComplete \/ SweepDrafts
    BY <1>5, ConsolidationIsPlain, PlainKeeps
  <1>6. CASE Crash \/ Reset
    BY <1>6, CrashKeeps, ResetKeeps
  <1>7. CASE RetryDrafts
    BY <1>7, RetryKeeps DEF RetryDrafts
  <1>8. CASE \/ \E p \in Paths : LaunchRecipe(p)
             \/ \E n \in Names, recipe \in Templates : LeaveDraft(n, recipe)
             \/ UNCHANGED draftVars
    <2>1. Plain
      BY <1>8 DEF LaunchRecipe, LeaveDraft, draftVars, admissionVars, reviewVars, historyVars,
                  Plain, AdmissionIInv
    <2> QED
      BY <2>1, PlainKeeps
  <1> QED
    BY <1>1, <1>2, <1>3, <1>4, <1>5, <1>6, <1>7, <1>8 DEF DraftWork, DraftEvent

\* The same of a batch of drafts (createDraftSleepScheduler).
THEOREM DraftLaunchesBounded == DraftSpec => []LaunchesBounded
  <1>1. DraftInit => AdmissionIInv
    BY AdmissionInitially DEF DraftInit
  <1>2. AdmissionIInv /\ [DraftWork \/ DraftEvent]_draftVars => AdmissionIInv'
    BY DraftStepKeeps
  <1>3. AdmissionIInv => LaunchesBounded
    BY DEF AdmissionIInv
  <1> QED
    BY <1>1, <1>2, <1>3, PTL DEF DraftSpec

-----------------------------------------------------------------------------
(* A review of the tools is carried out or undone as a whole.              *)

\* While a transaction is unfinished the operator writes nothing that it writes.
ForeignEdits ==
    edits' # edits /\ tx.phase \notin {"none", "rolled_back", "committed"} =>
        \A p \in Paths : file'[p] \in {file[p], None} \/ file'[p] \notin {captured[n] : n \in Captured}

Files == [Paths -> Recipes \cup {None}]
Originals == [Names -> Recipes \cup {None}]

PortfolioTypes ==
    /\ file \in Files /\ portfolio \in Files
    /\ captured \in Originals /\ quarantine \in Originals
    /\ edits \in Nat

\* p holds what it should, or what the operator removed came back.
Settled(p) == file[p] = portfolio[p] \/ (edits > 0 /\ portfolio[p] = None)

\* NothingLost, before anything is abandoned.
Unlost == \A p \in Paths : portfolio[p] \in {None, file[p], quarantine[Name(p)]}

ReviewStates ==
    {"none", "captured", "launched", "failed", "processing_failed", "approved",
     "lineage_pending", "completed"}

ReviewState ==
    [phase : ReviewStates, attempts : Nat, processing : Nat,
     run : BOOLEAN, approved : BOOLEAN, evidence : BOOLEAN]

ToolJournal ==
    [phase : {"none", "prepared", "sources_quarantined", "targets_written",
              "committed", "rolled_back", "rollback_required"},
     taken : SUBSET Names, written : SUBSET Paths, stale : BOOLEAN]

Carrying == {"committed", "finalizing", "rolling", "finalized", "completed"}
Undoing == {"undo_targets", "undo_sources"}

PlanValid == plan \in [Captured -> Decisions] /\ ValidResult(plan)

\* What the state file and the journal say of each other and of the process
\* that has the lock.
ToolControl ==
    /\ admission \in ReviewState
    /\ tx \in ToolJournal
    /\ worker \in {"idle", "launching", "launched", "applying", "committing"}
                     \cup Undoing \cup Carrying
    /\ admission.approved => PlanValid
    /\ admission.phase \in {"approved", "lineage_pending"} => admission.approved
    /\ admission.phase = "none" => ~admission.approved
    /\ tx.phase # "none" => admission.approved
    /\ admission.phase = "completed" \/ worker \in Carrying => tx.phase = "committed"
    /\ worker \in {"applying", "committing"} \cup Undoing => ~tx.stale
    /\ worker = "applying" => tx.phase \in {"prepared", "sources_quarantined"}
    /\ worker = "committing" => tx.phase \in {"targets_written", "committed"}
    /\ worker \in Undoing => tx.phase \in {"prepared", "sources_quarantined", "rolled_back"}

\* A source is where it was, or in the quarantine.
SourceOK(n) ==
    LET p == Active(n) IN
    IF quarantine[n] = None THEN Settled(p)
    ELSE /\ n \in tx.taken /\ quarantine[n] = captured[n]
         /\ portfolio[p] = None => edits > 0
         /\ Settled(p) \/ (file[p] = None /\ portfolio[p] = captured[n])

\* A target holds what the review wrote where the user has nothing, or is the user's.
TargetOK(t) ==
    /\ portfolio[t] # Content(plan, t)
    /\ \/ file[t] = portfolio[t]
       \/ t \in tx.written /\ file[t] = Content(plan, t) /\ portfolio[t] = None

ToolSources == {Active(n) : n \in Changed(plan)}

OpenOK ==
    /\ tx.taken \subseteq Changed(plan) /\ tx.written \subseteq Targets(plan)
    /\ \A n \in Changed(plan) : SourceOK(n)
    /\ \A t \in Targets(plan) : TargetOK(t)
    /\ \A p \in Paths \ (ToolSources \cup Targets(plan)) : Settled(p)
    /\ worker = "applying" =>
          \A n \in Changed(plan) : quarantine[n] = None => file[Active(n)] = captured[n]
    /\ worker = "undo_sources" => \A t \in tx.written : file[t] = None

OverOK ==
    /\ \A p \in Paths : Settled(p)
    /\ tx.phase = "none" => \A n \in Names : quarantine[n] = None
    /\ tx.phase = "rolled_back" => /\ tx.written = {}
                                   /\ ~tx.stale => /\ tx.taken \subseteq Changed(plan)
                                                   /\ \A n \in tx.taken : quarantine[n] = None

FilesOK ==
    \/ tx.phase \in {"none", "rolled_back", "committed"} /\ OverOK
    \/ tx.phase \notin {"none", "rolled_back", "committed"} /\ Unlost
         /\ (tx.stale \/ tx.phase = "rollback_required" \/ OpenOK)

ToolInv == PortfolioTypes /\ ToolControl /\ FilesOK

-----------------------------------------------------------------------------
(* The plan.                                                               *)

txFiles == <<file, portfolio, captured, quarantine, plan, edits>>

LEMMA PathFacts ==
    /\ \A n \in Names : Active(n) \in Paths /\ Name(Active(n)) = n
    /\ \A n \in Names : Draft(n) \in Paths /\ Name(Draft(n)) = n
    /\ \A n, m : Active(n) # Draft(m)
    /\ \A n, m : (Active(n) = Active(m) <=> n = m) /\ (Draft(n) = Draft(m) <=> n = m)
BY DEF Active, Draft, Paths, Name

LEMMA PlanStays == ASSUME UNCHANGED <<plan, captured>> PROVE PlanValid' <=> PlanValid
BY DEF PlanValid, ValidResult, Captured, Group, Evolved

LEMMA PlanFacts ==
    ASSUME PortfolioTypes, PlanValid, ~InPlace
    PROVE  /\ Changed(plan) \subseteq Captured /\ Captured \subseteq Names
           /\ \A n \in Changed(plan) : captured[n] \in Recipes /\ captured[n] # None
           /\ \A n \in Changed(plan) : TargetOf(plan, n) \in Paths
           /\ Targets(plan) \subseteq Paths
           /\ \A t \in Targets(plan) : /\ Content(plan, t) \in {captured[n] : n \in Captured}
                                      /\ Content(plan, t) \in Recipes /\ Content(plan, t) # None
           /\ \A t \in Targets(plan), n \in Captured : t # Active(n)
<1>1. Changed(plan) \subseteq Captured /\ Captured \subseteq Names
  BY DEF Changed, Captured
<1>2. \A n \in Captured : captured[n] \in Recipes /\ captured[n] # None
  BY PortfolioAssumption DEF Captured, PortfolioTypes, Originals
<1>3. ASSUME NEW n \in Changed(plan)
      PROVE  TargetOf(plan, n) \in Paths /\ \A m \in Captured : TargetOf(plan, n) # Active(m)
  <2>1. CASE plan[n].action = "demote"
    BY <2>1, <1>1, PathFacts DEF TargetOf
  <2>2. CASE plan[n].action # "demote"
    <3>1. plan[n] \in Decisions /\ n \in Captured /\ plan[n].action # "keep"
      BY <1>1 DEF PlanValid, Changed
    <3>2. plan[n].target # None /\ plan[n].target \notin Captured
      BY <3>1, <2>2 DEF PlanValid, ValidResult
    <3>3. plan[n].target \in Names
      BY <3>1, <3>2 DEF Decisions
    <3> QED
      BY <2>2, <3>2, <3>3, PathFacts DEF TargetOf
  <2> QED
    BY <2>1, <2>2
<1>4. ASSUME NEW t \in Targets(plan)
      PROVE  Content(plan, t) \in {captured[n] : n \in Captured}
  <2>1. Sources(plan, t) # {} /\ Sources(plan, t) \subseteq Captured
    BY <1>1 DEF Targets, Sources
  <2>2. (CHOOSE n \in Sources(plan, t) : TRUE) \in Captured
    BY <2>1
  <2> QED
    BY <2>2 DEF Content
<1> QED
  BY <1>1, <1>2, <1>3, <1>4 DEF Targets

LEMMA UnlostWhere ==
    ASSUME \A p \in Paths : Settled(p)
    PROVE  Unlost
BY DEF Settled, Unlost

LEMMA OpenUnlost ==
    ASSUME OpenOK, Changed(plan) \subseteq Names
    PROVE  Unlost
<1> SUFFICES ASSUME NEW p \in Paths PROVE portfolio[p] \in {None, file[p], quarantine[Name(p)]}
  BY DEF Unlost
<1>1. CASE p \in ToolSources
  <2>1. PICK n \in Changed(plan) : p = Active(n)
    BY <1>1 DEF ToolSources
  <2> QED
    BY <2>1, PathFacts DEF OpenOK, SourceOK, Settled
<1>2. CASE p \in Targets(plan)
  BY <1>2 DEF OpenOK, TargetOK
<1>3. CASE p \notin ToolSources \cup Targets(plan)
  BY <1>3 DEF OpenOK, Settled
<1> QED
  BY <1>1, <1>2, <1>3

LEMMA PlanTermsStay ==
    ASSUME UNCHANGED <<plan, captured>>
    PROVE  /\ Changed(plan)' = Changed(plan) /\ Targets(plan)' = Targets(plan)
           /\ ToolSources' = ToolSources
           /\ \A t : Content(plan, t)' = Content(plan, t)
<1>1. Captured' = Captured /\ plan' = plan /\ captured' = captured
  BY DEF Captured
<1>2. Changed(plan)' = Changed(plan)
  BY <1>1 DEF Changed
<1>3. \A n : TargetOf(plan, n)' = TargetOf(plan, n)
  BY <1>1 DEF TargetOf
<1>4. Targets(plan)' = Targets(plan) /\ ToolSources' = ToolSources
  BY <1>2, <1>3 DEF Targets, ToolSources
<1>5. ASSUME NEW t PROVE Content(plan, t)' = Content(plan, t)
  <2>1. Sources(plan, t)' = Sources(plan, t)
    BY <1>2, <1>3 DEF Sources
  <2> QED
    BY <1>1, <2>1 DEF Content
<1> QED
  BY <1>2, <1>4, <1>5

LEMMA OpenStays ==
    ASSUME OpenOK, UNCHANGED <<txFiles, tx>>,
           worker' = worker \/ worker' \notin {"applying", "undo_sources"}
    PROVE  OpenOK'
<1>1. /\ Changed(plan)' = Changed(plan) /\ Targets(plan)' = Targets(plan)
      /\ ToolSources' = ToolSources
      /\ \A t : Content(plan, t)' = Content(plan, t)
  BY PlanTermsStay DEF txFiles
<1>2. \A p : Settled(p)' <=> Settled(p)
  BY DEF Settled, txFiles
<1>3. \A n \in Changed(plan) : SourceOK(n)'
  BY <1>2 DEF OpenOK, SourceOK, txFiles
<1>4. \A t \in Targets(plan) : TargetOK(t)'
  BY <1>1 DEF OpenOK, TargetOK, txFiles
<1> QED
  BY <1>1, <1>2, <1>3, <1>4 DEF OpenOK, txFiles

\* Steps that touch neither the files nor the journal.
LEMMA StillKeeps ==
    ASSUME PortfolioTypes, FilesOK, UNCHANGED <<txFiles, tx>>,
           worker' = worker \/ worker' \notin {"applying", "undo_sources"}
    PROVE  PortfolioTypes' /\ FilesOK'
<1>1. PortfolioTypes'
  BY DEF PortfolioTypes, txFiles
<1>2. OpenOK => OpenOK'
  BY OpenStays
<1>3. (Unlost => Unlost') /\ (OverOK => OverOK')
  BY DEF Unlost, OverOK, Settled, Changed, Captured, txFiles
<1> QED
  BY <1>1, <1>2, <1>3 DEF FilesOK

LEMMA ControlStays ==
    ASSUME ToolControl, UNCHANGED <<plan, captured, tx, admission>>,
           worker' = worker \/ worker' = "idle"
    PROVE  ToolControl'
BY PlanStays DEF ToolControl, Undoing, Carrying

\* Steps that say something else of the same review.
LEMMA AdmissionMoves ==
    ASSUME ToolControl, UNCHANGED <<plan, captured, tx>>, admission' \in ReviewState,
           admission'.approved = admission.approved, worker \notin Carrying,
           worker' = worker \/ worker' = "idle",
           \/ admission'.phase \in {"captured", "launched", "failed", "processing_failed"}
           \/ admission'.phase \in {"approved", "lineage_pending"} /\ admission.approved
    PROVE  ToolControl'
BY PlanStays DEF ToolControl, Undoing, Carrying

LEMMA TicksKeep ==
    ASSUME ToolInv,
           \/ TickLaunch \/ LaunchReviewer \/ RecordLaunch \/ LaunchFails \/ ReviewFails
           \/ \E how \in {"done", "failed"} : ReviewerEnds(how)
           \/ Crash \/ Reset \/ Retry
           \/ (\E p \in Paths : LaunchTool(p)) \/ UNCHANGED toolVars
    PROVE  ToolInv'
<1> USE DEF ToolInv
<1>1. /\ UNCHANGED <<txFiles, tx>>
      /\ worker' = worker \/ worker' \notin {"applying", "undo_sources"}
  BY DEF TickLaunch, LaunchReviewer, RecordLaunch, LaunchFails, ReviewFails, ReviewerEnds,
         Crash, Reset, Retry, RetryAs, LaunchTool, Launch, onlyWorker, portfolioVars, reviewVars,
         historyVars, admissionVars, toolVars, txFiles
<1>2. PlanValid' <=> PlanValid
  BY <1>1, PlanStays DEF txFiles
<1>3. CASE TickLaunch \/ LaunchReviewer
  <2>1. UNCHANGED admission /\ worker' \in {"launching", "launched"}
    BY <1>3 DEF TickLaunch, LaunchReviewer
  <2>2. ToolControl'
    BY <1>1, <1>2, <2>1 DEF ToolControl, Undoing, Carrying
  <2> QED
    BY <1>1, <2>2, StillKeeps
<1>4. CASE RecordLaunch \/ LaunchFails
  <2>1. /\ admission' \in ReviewState /\ admission'.approved = admission.approved
        /\ admission'.phase \in {"launched", "failed"}
    <3>1. admission \in ReviewState /\ admission.attempts + 1 \in Nat
      BY DEF ToolControl, ReviewState
    <3>2. CASE RecordLaunch
      BY <3>1, <3>2 DEF RecordLaunch, ReviewState, ReviewStates
    <3>3. CASE LaunchFails
      BY <3>1, <3>3 DEF LaunchFails, ReviewState, ReviewStates
    <3> QED
      BY <1>4, <3>2, <3>3
  <2>2. worker' = "idle" /\ worker \in {"launching", "launched"}
    BY <1>4 DEF RecordLaunch, LaunchFails
  <2>3. worker \notin Carrying
    BY <2>2 DEF Carrying
  <2> QED
    BY <1>1, <2>1, <2>2, <2>3, AdmissionMoves, StillKeeps DEF txFiles
<1>5. CASE ReviewFails
  <2>1. /\ admission' \in ReviewState /\ admission'.approved = admission.approved
        /\ admission'.phase = "failed"
    BY <1>5 DEF ReviewFails, ToolControl, ReviewState, ReviewStates
  <2>2. worker' = worker /\ worker \notin Carrying
    BY <1>5 DEF ReviewFails, Processable, Idle, Carrying
  <2> QED
    BY <1>1, <2>1, <2>2, AdmissionMoves, StillKeeps DEF txFiles
<1>6. CASE Reset
  <2>1. worker' = worker /\ ~admission.approved /\ admission' = NoAdmission
    BY <1>6 DEF Reset
  <2>2. worker = "idle" /\ tx.phase = "none"
    BY <1>6, <2>1 DEF Reset, Idle, ToolControl
  <2>3. ToolControl'
    BY <1>1, <1>2, <2>1, <2>2 DEF ToolControl, NoAdmission, ReviewState, ReviewStates, Undoing, Carrying
  <2> QED
    BY <1>1, <2>3, StillKeeps
<1>7. CASE Retry
  <2>1. /\ worker' = worker /\ worker = "idle"
        /\ admission' = [admission EXCEPT
              !.phase = IF ~admission.approved THEN "captured"
                        ELSE IF admission.evidence THEN "lineage_pending" ELSE "approved",
              !.attempts = 0, !.processing = 0, !.run = FALSE]
    BY <1>7 DEF Retry, RetryAs, Idle
  <2>2. /\ admission' \in ReviewState /\ admission'.approved = admission.approved
        /\ \/ admission'.phase = "captured"
           \/ admission'.phase \in {"approved", "lineage_pending"} /\ admission.approved
    BY <2>1 DEF ToolControl, ReviewState, ReviewStates
  <2>3. worker \notin Carrying
    BY <2>1 DEF Carrying
  <2> QED
    BY <1>1, <2>1, <2>2, <2>3, AdmissionMoves, StillKeeps DEF txFiles
<1>8. CASE \/ \E how \in {"done", "failed"} : ReviewerEnds(how)
           \/ Crash \/ (\E p \in Paths : LaunchTool(p)) \/ UNCHANGED toolVars
  <2>1. UNCHANGED admission /\ (worker' = worker \/ worker' = "idle")
    BY <1>8 DEF ReviewerEnds, Crash, LaunchTool, reviewVars, admissionVars, toolVars
  <2> QED
    BY <1>1, <2>1, StillKeeps, ControlStays DEF txFiles
<1> QED
  BY <1>3, <1>4, <1>5, <1>6, <1>7, <1>8

LEMMA LineageKeeps ==
    ASSUME ToolInv, Finalize
    PROVE  ToolInv'
<1> USE DEF ToolInv
<1>1. CASE SweepQuarantine
  <2>1. /\ tx.phase = "committed" /\ OverOK /\ worker' = "idle"
        /\ UNCHANGED <<file, portfolio, captured, plan, edits, tx, admission>>
        /\ quarantine' = [n \in Names |-> None]
    BY <1>1 DEF SweepQuarantine, ToolControl, FilesOK, portfolioVars, historyVars
  <2>2. PortfolioTypes'
    BY <2>1 DEF PortfolioTypes, Originals
  <2>3. ToolControl'
    BY <2>1, ControlStays
  <2>4. OverOK'
    BY <2>1 DEF OverOK, Settled
  <2> QED
    BY <2>1, <2>2, <2>3, <2>4 DEF FilesOK
<1>2. CASE ~SweepQuarantine
  <2>1. /\ UNCHANGED <<txFiles, tx>> /\ worker \in Carrying
        /\ worker' \in Carrying \cup {"idle"}
        /\ \/ UNCHANGED admission
           \/ admission' = [admission EXCEPT !.phase = "lineage_pending", !.evidence = TRUE]
           \/ admission' = [admission EXCEPT !.phase = "completed"]
    BY <1>2 DEF Finalize, PendLineage, DeriveLineage, ResumeLineage, LineageFails, WriteLedger,
                DeleteLedger, WriteIndex, CommitLineage, Complete, linUnchanged, txUnchanged,
                historyVars, txFiles, Carrying
  <2>2. (PlanValid' <=> PlanValid) /\ worker' \notin {"applying", "undo_sources"}
    BY <2>1, PlanStays DEF txFiles, Carrying
  <2>3. ToolControl'
    BY <2>1, <2>2 DEF ToolControl, ReviewState, Carrying, Undoing, ReviewStates
  <2> QED
    BY <2>1, <2>2, <2>3, StillKeeps
<1> QED
  BY <1>1, <1>2

LEMMA CaptureKeeps ==
    ASSUME ToolInv, TickCapture
    PROVE  ToolInv'
<1> USE DEF ToolInv
<1>1. worker = "idle" /\ UNCHANGED <<file, portfolio, edits>>
  BY DEF TickCapture, Idle
<1>2. CASE UNCHANGED <<reviewVars, reviewers, abandoned, lin>>
  <2>1. UNCHANGED <<txFiles, tx, worker, admission>>
    BY <1>1, <1>2 DEF reviewVars, txFiles
  <2> QED
    BY <2>1, StillKeeps, ControlStays DEF txFiles
<1>3. CASE \E batch \in SUBSET Names :
              NewBatch([n \in Names |-> IF n \in batch THEN file[Active(n)] ELSE None])
  <2>1. PICK batch \in SUBSET Names :
              NewBatch([n \in Names |-> IF n \in batch THEN file[Active(n)] ELSE None])
    BY <1>3
  <2>2. /\ captured' = [n \in Names |-> IF n \in batch THEN file[Active(n)] ELSE None]
        /\ admission' = [NoAdmission EXCEPT !.phase = "captured"]
        /\ tx' = NoTx /\ quarantine' = [n \in Names |-> None] /\ worker' = "launching"
    BY <2>1 DEF NewBatch
  <2>3. tx.phase \in {"none", "committed"}
    BY DEF TickCapture, ToolControl
  <2>4. PortfolioTypes'
    BY <1>1, <2>2, PathFacts DEF PortfolioTypes, Originals, Files
  <2>5. ToolControl'
    BY <2>2 DEF ToolControl, ReviewState, ToolJournal, NoAdmission, NoTx, ReviewStates, Carrying, Undoing
  <2>6. OverOK'
    BY <1>1, <2>2, <2>3 DEF FilesOK, OverOK, Settled, NoTx
  <2> QED
    BY <2>2, <2>4, <2>5, <2>6 DEF FilesOK, NoTx
<1> QED
  BY <1>2, <1>3 DEF TickCapture, Eligible

-----------------------------------------------------------------------------
(* A plan is approved, and a session takes it up.                          *)

LEMMA ApprovedIsValid ==
    ASSUME NEW d \in [Captured -> Decisions], ValidResult(d), plan' = d, UNCHANGED captured
    PROVE  PlanValid'
<1>1. Captured' = Captured /\ captured' = captured
  BY DEF Captured
<1>2. Evolved(plan)' = Evolved(d) /\ \A t : Group(plan, t)' = Group(d, t)
  BY <1>1 DEF Evolved, Group
<1> QED
  BY <1>1, <1>2 DEF PlanValid, ValidResult

LEMMA ApproveKeeps ==
    ASSUME ToolInv, NEW d \in [Captured -> Decisions], Approve(d)
    PROVE  ToolInv'
<1> USE DEF ToolInv
<1>1. /\ worker = "idle" /\ worker' = worker /\ ValidResult(d)
      /\ UNCHANGED <<file, portfolio, captured, quarantine, edits>>
      /\ admission \in ReviewState /\ admission.processing + 1 \in Nat
  BY DEF Approve, Processable, Idle, portfolioVars, historyVars, ToolControl, ReviewState
<1>2. CASE Unchanged(d)
  <2>1. /\ plan' = d /\ tx' = [tx EXCEPT !.stale = tx.phase # "none"]
        /\ admission' = [admission EXCEPT !.phase = "approved", !.approved = TRUE]
    BY <1>2 DEF Approve
  <2>2. PlanValid'
    BY <1>1, <2>1, ApprovedIsValid
  <2>3. PortfolioTypes'
    BY <1>1 DEF PortfolioTypes
  <2>4. /\ admission' \in ReviewState
        /\ admission'.phase = "approved" /\ admission'.approved
    BY <1>1, <2>1 DEF ReviewState, ReviewStates
  <2>5. /\ tx'.phase = tx.phase /\ tx'.taken = tx.taken /\ tx'.written = tx.written
        /\ tx'.stale = (tx.phase # "none") /\ tx' \in ToolJournal
    BY <2>1 DEF ToolControl, ToolJournal
  <2>6. ToolControl'
    BY <1>1, <2>1, <2>2, <2>4, <2>5 DEF ToolControl, Carrying, Undoing
  <2>7. (OverOK => OverOK') /\ (Unlost => Unlost')
    BY <1>1, <2>5 DEF OverOK, Unlost, Settled
  <2> QED
    BY <2>3, <2>5, <2>6, <2>7 DEF FilesOK
<1>3. CASE ~Unchanged(d)
  <2>1. /\ UNCHANGED <<plan, tx>> /\ admission' \in ReviewState
        /\ admission'.approved = admission.approved /\ admission'.phase = "processing_failed"
    BY <1>1, <1>3 DEF Approve, ReviewState, ReviewStates
  <2>2. worker \notin Carrying
    BY <1>1 DEF Carrying
  <2> QED
    BY <1>1, <2>1, <2>2, AdmissionMoves, StillKeeps DEF txFiles
<1> QED
  BY <1>2, <1>3

LEMMA FailsKeeps ==
    ASSUME ToolInv, BoundaryFails, UNCHANGED <<txFiles, tx>>, worker \notin Carrying
    PROVE  ToolInv'
<1>1. /\ admission' \in ReviewState /\ admission'.approved = admission.approved
      /\ admission'.phase = "processing_failed" /\ worker' = "idle"
  BY DEF ToolInv, BoundaryFails, ToolControl, ReviewState, ReviewStates
<1> QED
  BY <1>1, AdmissionMoves, StillKeeps DEF ToolInv, txFiles

LEMMA OpenUnlostNext == (OpenOK /\ Changed(plan) \subseteq Names => Unlost)'
<1>1. OpenOK /\ Changed(plan) \subseteq Names => Unlost
  BY OpenUnlost
<1> QED
  BY <1>1, PTL

LEMMA ToolInvOpen ==
    ASSUME PortfolioTypes', ToolControl', OpenOK', ~tx'.stale,
           tx'.phase \notin {"none", "rolled_back", "committed"}
    PROVE  ToolInv'
<1>1. (Changed(plan) \subseteq Names)'
  BY DEF Changed, Captured
<1> QED
  BY <1>1, OpenUnlostNext DEF ToolInv, FilesOK

LEMMA BoundaryKeeps ==
    ASSUME ToolInv, ~InPlace, BoundaryStart
    PROVE  ToolInv'
<1> USE DEF ToolInv
<1>1. /\ UNCHANGED txFiles /\ worker = "idle" /\ PlanValid /\ worker \notin Carrying
      /\ admission.phase \in {"approved", "lineage_pending"} /\ BoundaryStep
  BY DEF BoundaryStart, Idle, portfolioVars, historyVars, txFiles, ToolControl, Carrying
<1>2. CASE BoundaryFails /\ UNCHANGED tx
  BY <1>1, <1>2, FailsKeeps
<1>3. CASE /\ tx.phase \notin {"none", "rollback_required"} /\ ~tx.stale /\ UNCHANGED <<tx, admission>>
           /\ worker' = IF tx.phase \in {"targets_written", "committed"}
                        THEN "committing" ELSE "undo_targets"
  <2>1. ToolControl'
    BY <1>1, <1>3, PlanStays DEF ToolControl, ToolJournal, Undoing, Carrying, txFiles
  <2> QED
    BY <1>1, <1>3, <2>1, StillKeeps
<1>4. CASE /\ tx.phase = "none" /\ Unchanged(plan) /\ UNCHANGED admission
           /\ tx' = [NoTx EXCEPT !.phase = "prepared"] /\ worker' = "applying"
  <2>1. /\ tx'.phase = "prepared" /\ tx'.taken = {} /\ tx'.written = {} /\ ~tx'.stale
    BY <1>4 DEF NoTx
  <2>2. PortfolioTypes'
    BY <1>1 DEF PortfolioTypes, txFiles
  <2>3. ToolControl'
    BY <1>1, <1>4, <2>1, PlanStays DEF ToolControl, ToolJournal, Undoing, Carrying, NoTx, txFiles
  <2>4. /\ Changed(plan)' = Changed(plan) /\ Targets(plan)' = Targets(plan)
        /\ ToolSources' = ToolSources /\ \A t : Content(plan, t)' = Content(plan, t)
    BY <1>1, PlanTermsStay DEF txFiles
  <2>5. OverOK /\ \A n \in Names : quarantine[n] = None
    BY <1>4 DEF FilesOK, OverOK
  <2>6. ASSUME NEW n \in Changed(plan) PROVE SourceOK(n)' /\ file[Active(n)] = captured[n]
    <3>1. n \in Captured /\ n \in Names /\ Active(n) \in Paths
      BY PathFacts DEF Changed, Captured
    <3>2. quarantine[n] = None /\ Settled(Active(n)) /\ UNCHANGED <<quarantine, file, portfolio, edits>>
      BY <1>1, <2>5, <3>1 DEF OverOK, txFiles
    <3> QED
      BY <1>4, <3>1, <3>2 DEF SourceOK, Settled, Unchanged
  <2>7. ASSUME NEW t \in Targets(plan) PROVE TargetOK(t)'
    <3>1. t \in Paths /\ Content(plan, t) # None /\ \A n \in Captured : t # Active(n)
      BY <1>1, PlanFacts
    <3>2. Expected(t) = None
      BY <3>1 DEF Expected
    <3>3. file[t] = None /\ portfolio[t] = None
      BY <1>4, <2>5, <3>1, <3>2 DEF Unchanged, OverOK, Settled
    <3> QED
      BY <1>1, <2>4, <3>1, <3>3 DEF TargetOK, txFiles
  <2>8. \A p \in Paths : Settled(p)'
    BY <1>1, <2>5 DEF OverOK, Settled, txFiles
  <2>9. UNCHANGED <<file, captured, quarantine>> /\ worker' # "undo_sources"
    BY <1>1, <1>4 DEF txFiles
  <2>10. OpenOK'
    BY <2>1, <2>4, <2>6, <2>7, <2>8, <2>9 DEF OpenOK
  <2> QED
    BY <2>1, <2>2, <2>3, <2>10, ToolInvOpen
<1> QED
  BY <1>1, <1>2, <1>3, <1>4 DEF BoundaryStep

-----------------------------------------------------------------------------
(* The transaction.                                                        *)

LEMMA WorkFacts ==
    ASSUME ToolInv, ~InPlace, worker \in {"applying", "committing"} \cup Undoing
    PROVE  /\ PlanValid /\ ~tx.stale /\ worker \notin Carrying
           /\ Changed(plan) \subseteq Captured /\ Captured \subseteq Names
           /\ \A n \in Changed(plan) : /\ captured[n] \in Recipes /\ captured[n] # None
                                      /\ Active(n) \in Paths /\ Active(n) \notin Targets(plan)
                                      /\ Active(n) \in ToolSources
           /\ \A t \in Targets(plan) : /\ t \in Paths /\ t \notin ToolSources
                                      /\ Content(plan, t) \in Recipes
                                      /\ Content(plan, t) # None
           /\ tx.phase \in {"prepared", "sources_quarantined", "targets_written"} => OpenOK
           /\ tx.phase \in {"rolled_back", "committed"} => OverOK
           /\ tx.taken \subseteq Names /\ tx.written \subseteq Paths
<1>1. PlanValid /\ ~tx.stale /\ worker \notin Carrying
  BY DEF ToolInv, ToolControl, Carrying, Undoing
<1>2. PortfolioTypes
  BY DEF ToolInv
<1>3. /\ Changed(plan) \subseteq Captured /\ Captured \subseteq Names
      /\ \A n \in Changed(plan) : captured[n] \in Recipes /\ captured[n] # None
      /\ Targets(plan) \subseteq Paths
      /\ \A t \in Targets(plan) : Content(plan, t) \in Recipes /\ Content(plan, t) # None
      /\ \A t \in Targets(plan), n \in Captured : t # Active(n)
  BY <1>1, <1>2, PlanFacts
<1>4. /\ tx.phase \in {"prepared", "sources_quarantined", "targets_written"} => OpenOK
      /\ tx.phase \in {"rolled_back", "committed"} => OverOK
      /\ tx.taken \subseteq Names /\ tx.written \subseteq Paths
  BY <1>1 DEF ToolInv, FilesOK, ToolControl, ToolJournal
<1> QED
  BY <1>1, <1>3, <1>4, PathFacts DEF ToolSources

\* Of a step of the transaction only the files and what the journal lists change.
LEMMA TxControl ==
    ASSUME ToolInv, UNCHANGED <<plan, captured, admission>>,
           worker \in {"applying", "committing"} \cup Undoing, tx.phase # "committed",
           tx' \in ToolJournal, tx'.stale = tx.stale,
           tx'.phase \in {"prepared", "sources_quarantined", "targets_written"},
           worker' = "applying" => tx'.phase \in {"prepared", "sources_quarantined"},
           worker' = "committing" => tx'.phase = "targets_written",
           worker' \in Undoing => tx'.phase \in {"prepared", "sources_quarantined"},
           worker' \in {"applying", "committing"} \cup Undoing
    PROVE  ToolControl' /\ ~tx'.stale
<1>1. /\ ToolControl /\ ~tx.stale /\ worker \notin Carrying /\ worker' \notin Carrying
      /\ tx.phase # "none" /\ admission.approved /\ admission.phase # "completed"
      /\ worker' # "idle"
  BY DEF ToolInv, ToolControl, Carrying, Undoing
<1> QED
  BY <1>1, PlanStays DEF ToolControl

LEMMA JournalKeeps ==
    ASSUME ToolInv, ~InPlace,
           \/ \E n \in Names : JournalSource(n)
           \/ \E t \in Paths : JournalTarget(t)
           \/ SourcesDone \/ TargetsDone
    PROVE  ToolInv'
<1>1. /\ UNCHANGED <<txFiles, admission>> /\ worker = "applying"
      /\ worker' = worker \/ worker' = "committing"
      /\ tx.phase \in {"prepared", "sources_quarantined"}
      /\ tx \in ToolJournal
  BY DEF JournalSource, JournalTarget, SourcesDone, TargetsDone, txUnchanged, historyVars, txFiles,
         ToolInv, ToolControl
<1>2. OpenOK /\ Changed(plan) \subseteq Names
  BY <1>1, WorkFacts
<1>3. /\ Changed(plan)' = Changed(plan) /\ Targets(plan)' = Targets(plan)
      /\ ToolSources' = ToolSources /\ \A t : Content(plan, t)' = Content(plan, t)
      /\ \A p : Settled(p)' <=> Settled(p)
  BY <1>1, PlanTermsStay DEF txFiles, Settled
<1>4. tx.taken \subseteq Changed(plan) /\ tx.written \subseteq Targets(plan)
  BY <1>2 DEF OpenOK
<1>5. /\ tx' \in ToolJournal /\ tx'.stale = tx.stale
      /\ tx'.phase \in {"prepared", "sources_quarantined", "targets_written"}
      /\ tx.taken \subseteq tx'.taken /\ tx'.taken \subseteq Changed(plan)
      /\ tx.written \subseteq tx'.written /\ tx'.written \subseteq Targets(plan)
      /\ worker' = "applying" => tx'.phase # "targets_written"
      /\ worker' = "committing" => tx'.phase = "targets_written"
  <2>1. CASE \E n \in Names : JournalSource(n)
    BY <1>1, <1>4, <2>1 DEF JournalSource, ToolJournal
  <2>2. CASE \E t \in Paths : JournalTarget(t)
    BY <1>1, <1>4, <2>2 DEF JournalTarget, ToolJournal
  <2>3. CASE SourcesDone \/ TargetsDone
    BY <1>1, <1>4, <2>3 DEF SourcesDone, TargetsDone, ToolJournal
  <2> QED
    BY <2>1, <2>2, <2>3
<1>6. ToolControl' /\ ~tx'.stale
  <2>1. worker' \notin Undoing /\ UNCHANGED <<plan, captured, admission>>
    BY <1>1 DEF Undoing, txFiles
  <2> QED
    BY <1>1, <1>5, <2>1, TxControl
<1>7. PortfolioTypes'
  BY <1>1 DEF ToolInv, PortfolioTypes, txFiles
<1>8. OpenOK'
  <2>1. \A n \in Changed(plan) : SourceOK(n)'
    BY <1>1, <1>2, <1>3, <1>5 DEF OpenOK, SourceOK, txFiles
  <2>2. \A t \in Targets(plan) : TargetOK(t)'
    BY <1>1, <1>2, <1>3, <1>5 DEF OpenOK, TargetOK, txFiles
  <2>3. worker' = "applying" =>
          \A n \in Changed(plan) : quarantine'[n] = None => file'[Active(n)] = captured'[n]
    BY <1>1, <1>2 DEF OpenOK, txFiles
  <2> QED
    BY <1>1, <1>2, <1>3, <1>5, <2>1, <2>2, <2>3 DEF OpenOK
<1> QED
  BY <1>5, <1>6, <1>7, <1>8, ToolInvOpen

LEMMA QuarantineKeeps ==
    ASSUME ToolInv, ~InPlace, NEW n \in Names, QuarantineSource(n)
    PROVE  ToolInv'
<1>1. /\ UNCHANGED <<portfolio, captured, plan, edits, tx, worker, admission>>
      /\ worker = "applying" /\ tx.phase = "prepared" /\ n \in tx.taken /\ quarantine[n] = None
      /\ quarantine' = [quarantine EXCEPT ![n] = file[Active(n)]]
      /\ file' = [file EXCEPT ![Active(n)] = None]
  BY DEF QuarantineSource, txUnchanged, historyVars
<1>2. /\ OpenOK /\ n \in Changed(plan) /\ captured[n] # None /\ captured[n] \in Recipes
      /\ ~tx.stale /\ Active(n) \in Paths /\ Active(n) \notin Targets(plan)
      /\ Changed(plan) \subseteq Names /\ Active(n) \in ToolSources /\ Targets(plan) \subseteq Paths
  BY <1>1, WorkFacts DEF OpenOK
<1>3. file[Active(n)] = captured[n]
  BY <1>1, <1>2 DEF OpenOK
<1>4. PortfolioTypes'
  BY <1>1, <1>2, <1>3 DEF ToolInv, PortfolioTypes, Files, Originals
<1>5. ToolControl'
  BY <1>1, ControlStays DEF ToolInv
<1>6. /\ Changed(plan)' = Changed(plan) /\ Targets(plan)' = Targets(plan)
      /\ ToolSources' = ToolSources /\ \A t : Content(plan, t)' = Content(plan, t)
  BY <1>1, PlanTermsStay
<1>7. /\ \A p \in Paths \ {Active(n)} : file'[p] = file[p] /\ (Settled(p)' <=> Settled(p))
      /\ file'[Active(n)] = None /\ quarantine'[n] = captured[n]
      /\ \A m \in Names \ {n} : quarantine'[m] = quarantine[m]
  BY <1>1, <1>2, <1>3 DEF ToolInv, PortfolioTypes, Files, Originals, Settled
<1>8. OpenOK'
  <2>1. ASSUME NEW m \in Changed(plan) PROVE SourceOK(m)'
    <3>1. CASE m = n
      <4>1. Settled(Active(n))
        BY <1>1, <1>2 DEF OpenOK, SourceOK
      <4> QED
        BY <1>1, <1>2, <1>3, <1>7, <3>1, <4>1 DEF SourceOK, Settled
    <3>2. CASE m # n
      <4>1. Active(m) \in Paths \ {Active(n)} /\ m \in Names \ {n}
        BY <1>2, <3>2, PathFacts
      <4>2. SourceOK(m)
        BY <1>2 DEF OpenOK
      <4> QED
        BY <1>1, <1>7, <4>1, <4>2 DEF SourceOK
    <3> QED
      BY <3>1, <3>2
  <2>2. \A t \in Targets(plan) : TargetOK(t)'
    BY <1>1, <1>2, <1>6, <1>7 DEF OpenOK, TargetOK
  <2>3. \A m \in Changed(plan) : quarantine'[m] = None => file'[Active(m)] = captured'[m]
    BY <1>1, <1>2, <1>7, PathFacts DEF OpenOK
  <2> QED
    BY <1>1, <1>2, <1>6, <1>7, <2>1, <2>2, <2>3 DEF OpenOK
<1> QED
  BY <1>1, <1>2, <1>4, <1>5, <1>8, ToolInvOpen

LEMMA WriteKeeps ==
    ASSUME ToolInv, ~InPlace, NEW t \in Paths, NEW readable \in BOOLEAN, WriteTarget(t, readable)
    PROVE  ToolInv'
<1>1. /\ UNCHANGED <<portfolio, captured, quarantine, plan, edits, tx, admission>>
      /\ worker = "applying" /\ tx.phase = "sources_quarantined" /\ t \in tx.written
      /\ file[t] = None /\ file' = [file EXCEPT ![t] = Content(plan, t)]
      /\ worker' \in {"applying", "undo_targets"}
  BY DEF WriteTarget, txUnchanged, historyVars
<1>2. /\ OpenOK /\ t \in Targets(plan) /\ Content(plan, t) # None /\ Content(plan, t) \in Recipes
      /\ ~tx.stale /\ t \notin ToolSources /\ Changed(plan) \subseteq Names
      /\ \A n \in Changed(plan) : Active(n) \in Paths \ {t}
      /\ Targets(plan) \subseteq Paths
  BY <1>1, WorkFacts DEF OpenOK
<1>3. PortfolioTypes'
  BY <1>1, <1>2 DEF ToolInv, PortfolioTypes, Files
<1>4. ToolControl'
  BY <1>1, PlanStays DEF ToolInv, ToolControl, Undoing, Carrying
<1>5. /\ Changed(plan)' = Changed(plan) /\ Targets(plan)' = Targets(plan)
      /\ ToolSources' = ToolSources /\ \A u : Content(plan, u)' = Content(plan, u)
  BY <1>1, PlanTermsStay
<1>6. /\ \A p \in Paths \ {t} : file'[p] = file[p] /\ (Settled(p)' <=> Settled(p))
      /\ file'[t] = Content(plan, t)
  BY <1>1 DEF ToolInv, PortfolioTypes, Files, Settled
<1>7. OpenOK'
  <2>1. \A n \in Changed(plan) : SourceOK(n)'
    BY <1>1, <1>2, <1>6 DEF OpenOK, SourceOK
  <2>2. ASSUME NEW u \in Targets(plan) PROVE TargetOK(u)'
    <3>1. TargetOK(u) /\ u \in Paths
      BY <1>2 DEF OpenOK
    <3>2. CASE u = t
      BY <1>1, <1>2, <1>5, <1>6, <3>1, <3>2 DEF TargetOK
    <3>3. CASE u # t
      BY <1>1, <1>5, <1>6, <3>1, <3>3 DEF TargetOK
    <3> QED
      BY <3>2, <3>3
  <2>3. \A m \in Changed(plan) : quarantine'[m] = None => file'[Active(m)] = captured'[m]
    BY <1>1, <1>2, <1>6 DEF OpenOK
  <2> QED
    BY <1>1, <1>2, <1>5, <1>6, <2>1, <2>2, <2>3 DEF OpenOK
<1> QED
  BY <1>1, <1>2, <1>3, <1>4, <1>7, ToolInvOpen

-----------------------------------------------------------------------------
(* It is finished, or undone.                                              *)

LEMMA CommitKeeps ==
    ASSUME ToolInv, ~InPlace, Commit
    PROVE  ToolInv'
<1>1. /\ UNCHANGED <<file, captured, quarantine, plan, edits, admission>>
      /\ worker = "committing" /\ worker' = "committed" /\ Whole
      /\ tx' = [tx EXCEPT !.phase = "committed"]
      /\ portfolio' = IF tx.phase = "committed" THEN portfolio ELSE Planned
  BY DEF Commit, historyVars
<1>2. /\ PlanValid /\ ~tx.stale /\ tx.phase \in {"targets_written", "committed"}
      /\ tx.phase = "targets_written" => OpenOK
      /\ tx.phase = "committed" => OverOK
      /\ \A n \in Changed(plan) : Active(n) \in Paths /\ Active(n) \notin Targets(plan)
      /\ \A t \in Targets(plan) : t \in Paths /\ Content(plan, t) \in Recipes
  BY <1>1, WorkFacts DEF ToolInv, ToolControl
<1>3. /\ tx' \in ToolJournal /\ tx'.phase = "committed"
  BY <1>1 DEF ToolInv, ToolControl, ToolJournal
<1>4. ToolControl'
  BY <1>1, <1>2, <1>3, PlanStays DEF ToolInv, ToolControl, Undoing, Carrying
<1>5. portfolio' \in Files
  <2>1. portfolio \in Files
    BY DEF ToolInv, PortfolioTypes
  <2>2. Planned \in Files
    BY <1>2, <2>1 DEF Planned, Files
  <2> QED
    BY <1>1, <2>1, <2>2
<1>6. PortfolioTypes'
  BY <1>1, <1>5 DEF ToolInv, PortfolioTypes
<1>7. ASSUME NEW p \in Paths PROVE Settled(p)'
  <2>1. CASE tx.phase = "committed"
    BY <1>1, <1>2, <2>1 DEF OverOK, Settled
  <2>2. CASE tx.phase = "targets_written"
    <3>1. portfolio'[p] = IF p \in Targets(plan) THEN Content(plan, p)
                          ELSE IF p \in ToolSources THEN None ELSE portfolio[p]
      BY <1>1, <2>2 DEF Planned, ToolSources
    <3>2. CASE p \in Targets(plan)
      BY <1>1, <3>1, <3>2 DEF Whole, Settled
    <3>3. CASE p \in ToolSources
      BY <1>1, <1>2, <3>1, <3>3 DEF Whole, Settled, ToolSources
    <3>4. CASE p \notin ToolSources \cup Targets(plan)
      BY <1>1, <1>2, <2>2, <3>1, <3>4 DEF OpenOK, Settled
    <3> QED
      BY <3>2, <3>3, <3>4
  <2> QED
    BY <1>2, <2>1, <2>2
<1> QED
  BY <1>3, <1>4, <1>6, <1>7 DEF ToolInv, FilesOK, OverOK

LEMMA RequiredKeeps ==
    ASSUME ToolInv, ~InPlace, worker \in Undoing, RollbackRequired, UNCHANGED txFiles
    PROVE  ToolInv'
<1>1. /\ tx' \in ToolJournal /\ tx'.phase = "rollback_required" /\ worker' = "idle"
      /\ admission' \in ReviewState /\ admission'.approved = admission.approved
      /\ admission'.phase = "processing_failed"
  BY DEF RollbackRequired, BoundaryFails, ToolInv, ToolControl, ToolJournal, ReviewState,
         ReviewStates
<1>2. admission.approved
  BY DEF ToolInv, ToolControl, Undoing
<1>3. ToolControl'
  BY <1>1, <1>2, PlanStays DEF ToolInv, ToolControl, Undoing, Carrying, txFiles
<1>4. PortfolioTypes'
  BY DEF ToolInv, PortfolioTypes, txFiles
<1>5. Unlost
  BY UnlostWhere DEF ToolInv, FilesOK, OverOK
<1>6. Unlost'
  BY <1>5 DEF Unlost, txFiles
<1> QED
  BY <1>1, <1>3, <1>4, <1>6 DEF ToolInv, FilesOK

LEMMA UndoTargetKeeps ==
    ASSUME ToolInv, ~InPlace, NEW t \in Paths, UndoTarget(t)
    PROVE  ToolInv'
<1>1. /\ UNCHANGED <<portfolio, captured, quarantine, plan, edits>>
      /\ worker = "undo_targets" /\ t \in tx.written /\ file[t] # None
  BY DEF UndoTarget, txUnchanged, historyVars
<1>2. /\ tx.phase \in {"prepared", "sources_quarantined", "rolled_back"} /\ worker \in Undoing
      /\ tx.phase = "rolled_back" => tx.written = {}
  BY <1>1, WorkFacts DEF ToolInv, ToolControl, Undoing, OverOK
<1>3. /\ OpenOK /\ t \in Targets(plan) /\ Content(plan, t) # None
      /\ ~tx.stale /\ t \notin ToolSources /\ Changed(plan) \subseteq Names
      /\ \A n \in Changed(plan) : Active(n) \in Paths \ {t}
      /\ Targets(plan) \subseteq Paths
  BY <1>1, <1>2, WorkFacts DEF OpenOK
<1>4. CASE file[t] # Content(plan, t)
  <2>1. RollbackRequired /\ UNCHANGED txFiles
    BY <1>1, <1>4 DEF UndoTarget, txFiles
  <2> QED
    BY <1>2, <2>1, RequiredKeeps
<1>5. CASE file[t] = Content(plan, t)
  <2>1. file' = [file EXCEPT ![t] = None] /\ UNCHANGED <<tx, admission, worker>>
    BY <1>5 DEF UndoTarget
  <2>2. portfolio[t] = None
    BY <1>3, <1>5 DEF OpenOK, TargetOK
  <2>3. PortfolioTypes' /\ ToolControl'
    BY <1>1, <2>1, ControlStays DEF ToolInv, PortfolioTypes, Files
  <2>4. /\ Changed(plan)' = Changed(plan) /\ Targets(plan)' = Targets(plan)
        /\ ToolSources' = ToolSources /\ \A u : Content(plan, u)' = Content(plan, u)
    BY <1>1, PlanTermsStay
  <2>5. /\ \A p \in Paths \ {t} : file'[p] = file[p] /\ (Settled(p)' <=> Settled(p))
        /\ file'[t] = None
    BY <1>1, <2>1 DEF ToolInv, PortfolioTypes, Files, Settled
  <2>6. \A n \in Changed(plan) : SourceOK(n)'
    BY <1>1, <1>3, <2>1, <2>5 DEF OpenOK, SourceOK
  <2>7. ASSUME NEW u \in Targets(plan) PROVE TargetOK(u)'
    <3>1. TargetOK(u) /\ u \in Paths
      BY <1>3 DEF OpenOK
    <3>2. CASE u = t
      BY <1>1, <1>3, <2>2, <2>4, <2>5, <3>2 DEF TargetOK
    <3>3. CASE u # t
      BY <1>1, <2>1, <2>4, <2>5, <3>1, <3>3 DEF TargetOK
    <3> QED
      BY <3>2, <3>3
  <2>8. OpenOK'
    BY <1>1, <1>3, <2>1, <2>4, <2>5, <2>6, <2>7 DEF OpenOK
  <2> QED
    BY <1>2, <1>3, <2>1, <2>3, <2>8, <1>1, ToolInvOpen DEF OverOK
<1> QED
  BY <1>4, <1>5

LEMMA TargetsUndoneKeeps ==
    ASSUME ToolInv, ~InPlace, TargetsUndone
    PROVE  ToolInv'
<1>1. /\ UNCHANGED <<txFiles, tx, admission>> /\ worker = "undo_targets" /\ worker' = "undo_sources"
      /\ \A t \in tx.written : file[t] = None
  BY DEF TargetsUndone, txUnchanged, historyVars, txFiles
<1>2. PortfolioTypes' /\ ToolControl'
  BY <1>1, PlanStays DEF ToolInv, PortfolioTypes, ToolControl, Undoing, Carrying, txFiles
<1>3. /\ Changed(plan)' = Changed(plan) /\ Targets(plan)' = Targets(plan)
      /\ ToolSources' = ToolSources /\ \A u : Content(plan, u)' = Content(plan, u)
      /\ \A p : Settled(p)' <=> Settled(p)
  BY <1>1, PlanTermsStay DEF txFiles, Settled
<1>4. OverOK => OverOK'
  BY <1>1, <1>3 DEF OverOK, txFiles
<1>5. ASSUME OpenOK PROVE OpenOK'
  <2>1. \A n \in Changed(plan) : SourceOK(n)'
    BY <1>1, <1>3, <1>5 DEF OpenOK, SourceOK, txFiles
  <2>2. \A t \in Targets(plan) : TargetOK(t)'
    BY <1>1, <1>3, <1>5 DEF OpenOK, TargetOK, txFiles
  <2> QED
    BY <1>1, <1>3, <1>5, <2>1, <2>2 DEF OpenOK, txFiles
<1>6. Unlost => Unlost'
  BY <1>1 DEF Unlost, txFiles
<1> QED
  BY <1>1, <1>2, <1>4, <1>5, <1>6 DEF ToolInv, FilesOK

LEMMA UndoSourceKeeps ==
    ASSUME ToolInv, ~InPlace, NEW n \in Names, UndoSource(n)
    PROVE  ToolInv'
<1>1. /\ UNCHANGED <<portfolio, captured, plan, edits>>
      /\ worker = "undo_sources" /\ n \in tx.taken
  BY DEF UndoSource, txUnchanged, historyVars
<1>2. /\ tx.phase \in {"prepared", "sources_quarantined", "rolled_back"} /\ worker \in Undoing
      /\ ~tx.stale
  BY <1>1, WorkFacts DEF ToolInv, ToolControl, Undoing
<1>3. CASE RollbackRequired /\ UNCHANGED <<file, quarantine>>
  BY <1>1, <1>2, <1>3, RequiredKeeps DEF txFiles
<1>4. CASE /\ file[Active(n)] = None /\ quarantine[n] = captured[n]
           /\ file' = [file EXCEPT ![Active(n)] = quarantine[n]]
           /\ quarantine' = [quarantine EXCEPT ![n] = None]
           /\ UNCHANGED <<tx, admission, worker>>
  <2>1. tx.phase # "rolled_back"
    <3>1. ASSUME tx.phase = "rolled_back" PROVE FALSE
      <4>1. tx.taken \subseteq Changed(plan) /\ quarantine[n] = None
        BY <1>1, <1>2, <3>1, WorkFacts DEF OverOK
      <4> QED
        BY <1>1, <1>2, <1>4, <4>1, WorkFacts
    <3> QED
      BY <3>1
  <2>2. /\ OpenOK /\ n \in Changed(plan) /\ captured[n] # None /\ captured[n] \in Recipes
        /\ Active(n) \in Paths /\ Active(n) \notin Targets(plan) /\ Active(n) \in ToolSources
        /\ Changed(plan) \subseteq Names /\ Targets(plan) \subseteq Paths
    BY <1>1, <1>2, <2>1, WorkFacts DEF OpenOK
  <2>3. SourceOK(n) /\ quarantine[n] # None
    BY <1>4, <2>2 DEF OpenOK
  <2>4. PortfolioTypes'
    BY <1>1, <1>4, <2>2 DEF ToolInv, PortfolioTypes, Files, Originals
  <2>5. ToolControl'
    BY <1>1, <1>4, ControlStays DEF ToolInv
  <2>6. /\ Changed(plan)' = Changed(plan) /\ Targets(plan)' = Targets(plan)
        /\ ToolSources' = ToolSources /\ \A t : Content(plan, t)' = Content(plan, t)
    BY <1>1, PlanTermsStay
  <2>7. /\ \A p \in Paths \ {Active(n)} : file'[p] = file[p] /\ (Settled(p)' <=> Settled(p))
        /\ file'[Active(n)] = captured[n] /\ quarantine'[n] = None
        /\ \A m \in Names \ {n} : quarantine'[m] = quarantine[m]
    BY <1>1, <1>4, <2>2 DEF ToolInv, PortfolioTypes, Files, Originals, Settled
  <2>8. ASSUME NEW m \in Changed(plan) PROVE SourceOK(m)'
    <3>1. CASE m = n
      BY <1>1, <1>4, <2>2, <2>3, <2>7, <3>1 DEF SourceOK, Settled
    <3>2. CASE m # n
      <4>1. Active(m) \in Paths \ {Active(n)} /\ m \in Names \ {n}
        BY <2>2, <3>2, PathFacts
      <4>2. SourceOK(m)
        BY <2>2 DEF OpenOK
      <4> QED
        BY <1>1, <1>4, <2>7, <4>1, <4>2 DEF SourceOK
    <3> QED
      BY <3>1, <3>2
  <2>9. \A t \in Targets(plan) : TargetOK(t)'
    BY <1>1, <1>4, <2>2, <2>6, <2>7 DEF OpenOK, TargetOK
  <2>10. \A t \in tx.written : file'[t] = None
    BY <1>1, <2>2, <2>7 DEF OpenOK
  <2>11. OpenOK'
    BY <1>1, <1>4, <2>2, <2>6, <2>7, <2>8, <2>9, <2>10 DEF OpenOK
  <2> QED
    BY <1>2, <1>4, <2>1, <2>4, <2>5, <2>11, ToolInvOpen
<1> QED
  BY <1>3, <1>4 DEF UndoSource

LEMMA RolledBackKeeps ==
    ASSUME ToolInv, ~InPlace, RolledBack
    PROVE  ToolInv'
<1>1. /\ UNCHANGED txFiles /\ worker = "undo_sources" /\ BoundaryFails
      /\ \A n \in tx.taken : quarantine[n] = None
      /\ tx' = [tx EXCEPT !.phase = "rolled_back", !.written = {}]
  BY DEF RolledBack, txUnchanged, historyVars, txFiles, Home
<1>2. /\ tx' \in ToolJournal /\ tx'.phase = "rolled_back" /\ tx'.written = {}
      /\ tx'.taken = tx.taken /\ tx'.stale = tx.stale
  BY <1>1 DEF ToolInv, ToolControl, ToolJournal
<1>3. /\ tx.phase \in {"prepared", "sources_quarantined", "rolled_back"} /\ worker \in Undoing
      /\ ~tx.stale /\ admission.approved
  BY <1>1 DEF ToolInv, ToolControl, Undoing
<1>4. ToolControl'
  BY <1>1, <1>2, <1>3, PlanStays
     DEF ToolInv, ToolControl, BoundaryFails, ReviewState, ReviewStates, Undoing, Carrying, txFiles
<1>5. PortfolioTypes'
  BY <1>1 DEF ToolInv, PortfolioTypes, txFiles
<1>6. tx.taken \subseteq Changed(plan) /\ \A p \in Paths : Settled(p)
  <2>1. CASE tx.phase = "rolled_back"
    BY <1>3, <2>1, WorkFacts DEF OverOK
  <2>2. CASE tx.phase # "rolled_back"
    <3>1. OpenOK
      BY <1>3, <2>2, WorkFacts
    <3>2. ASSUME NEW p \in Paths PROVE Settled(p)
      <4>1. CASE p \in ToolSources
        BY <1>1, <3>1, <4>1 DEF ToolSources, OpenOK, SourceOK
      <4>2. CASE p \in Targets(plan)
        <5>1. Content(plan, p) # None
          BY <1>3, <4>2, WorkFacts
        <5> QED
          BY <1>1, <3>1, <4>2, <5>1 DEF OpenOK, TargetOK, Settled
      <4>3. CASE p \notin ToolSources \cup Targets(plan)
        BY <3>1, <4>3 DEF OpenOK
      <4> QED
        BY <4>1, <4>2, <4>3
    <3> QED
      BY <3>1, <3>2 DEF OpenOK
  <2> QED
    BY <2>1, <2>2
<1>7. Changed(plan)' = Changed(plan) /\ \A p : Settled(p)' <=> Settled(p)
  BY <1>1, PlanTermsStay DEF txFiles, Settled
<1>8. OverOK'
  BY <1>1, <1>2, <1>6, <1>7 DEF OverOK, txFiles
<1> QED
  BY <1>2, <1>4, <1>5, <1>8 DEF ToolInv, FilesOK

LEMMA CommitFailsKeeps ==
    ASSUME ToolInv, CommitFails
    PROVE  ToolInv'
<1>1. BoundaryFails /\ UNCHANGED <<txFiles, tx>> /\ worker \notin Carrying
  BY DEF CommitFails, txUnchanged, historyVars, txFiles, Carrying
<1> QED
  BY <1>1, FailsKeeps

LEMMA EditKeeps ==
    ASSUME ToolInv, ~InPlace, NEW p \in Paths, NEW recipe \in Recipes \cup {None},
           EditRecipe(p, recipe), ForeignEdits
    PROVE  ToolInv'
<1>1. /\ UNCHANGED <<captured, plan, quarantine, tx, worker, admission>> /\ worker = "idle"
      /\ file[p] # recipe /\ edits' = edits + 1
      /\ file' = [file EXCEPT ![p] = recipe] /\ portfolio' = [portfolio EXCEPT ![p] = recipe]
  BY DEF EditRecipe, Edit, Idle, reviewVars
<1>2. file \in Files /\ portfolio \in Files /\ edits \in Nat
  BY DEF ToolInv, PortfolioTypes
<1>3. /\ file'[p] = recipe /\ portfolio'[p] = recipe /\ edits' # edits /\ edits' > 0
      /\ \A q \in Paths \ {p} : file'[q] = file[q] /\ portfolio'[q] = portfolio[q]
  BY <1>1, <1>2 DEF Files
<1>4. PortfolioTypes'
  BY <1>1, <1>2 DEF ToolInv, PortfolioTypes, Files
<1>5. ToolControl'
  BY <1>1, ControlStays DEF ToolInv
<1>6. ASSUME NEW q \in Paths PROVE (q = p => Settled(q)') /\ (Settled(q) => Settled(q)')
  BY <1>2, <1>3 DEF Settled
<1>7. Unlost => Unlost'
  BY <1>1, <1>3 DEF Unlost
<1>8. Changed(plan)' = Changed(plan) /\ Targets(plan)' = Targets(plan)
      /\ ToolSources' = ToolSources /\ \A t : Content(plan, t)' = Content(plan, t)
  BY <1>1, PlanTermsStay
<1>9. OverOK => OverOK'
  BY <1>1, <1>6, <1>8 DEF OverOK
<1>10. ASSUME tx.phase \notin {"none", "rolled_back", "committed"}, OpenOK
       PROVE  OpenOK'
  <2>1. /\ Changed(plan) \subseteq Names
        /\ \A t \in Targets(plan) : /\ t \in Paths /\ Content(plan, t) # None
                                    /\ Content(plan, t) \in {captured[n] : n \in Captured}
    <3>1. PlanValid /\ PortfolioTypes
      BY <1>10 DEF ToolInv, ToolControl
    <3> QED
      BY <3>1, PlanFacts
  <2>2. recipe = None \/ recipe \notin {captured[n] : n \in Captured}
    BY <1>1, <1>3, <1>10 DEF ForeignEdits
  <2>3. ASSUME NEW n \in Changed(plan) PROVE SourceOK(n)'
    <3>1. SourceOK(n) /\ Active(n) \in Paths
      BY <1>10, <2>1, PathFacts DEF OpenOK
    <3>2. CASE Active(n) = p
      BY <1>1, <1>3, <1>6, <3>1, <3>2 DEF SourceOK
    <3>3. CASE Active(n) # p
      BY <1>1, <1>3, <1>6, <3>1, <3>3 DEF SourceOK
    <3> QED
      BY <3>2, <3>3
  <2>4. ASSUME NEW t \in Targets(plan) PROVE TargetOK(t)'
    <3>1. TargetOK(t)
      BY <1>10 DEF OpenOK
    <3>2. CASE t = p
      BY <1>1, <1>3, <1>8, <2>1, <2>2, <3>2 DEF TargetOK
    <3>3. CASE t # p
      BY <1>1, <1>3, <1>8, <2>1, <3>1, <3>3 DEF TargetOK
    <3> QED
      BY <3>2, <3>3
  <2>5. \A q \in Paths \ (ToolSources \cup Targets(plan)) : Settled(q)'
    BY <1>6, <1>10 DEF OpenOK
  <2> QED
    BY <1>1, <1>8, <1>10, <2>3, <2>4, <2>5 DEF OpenOK
<1> QED
  BY <1>1, <1>4, <1>5, <1>7, <1>9, <1>10 DEF ToolInv, FilesOK

-----------------------------------------------------------------------------
LEMMA ToolInvInitially == PortfolioInit /\ ToolInit => ToolInv
<1> SUFFICES ASSUME PortfolioInit, ToolInit PROVE ToolInv
  OBVIOUS
<1>1. /\ file \in Files /\ portfolio = file /\ edits = 0
      /\ captured = [n \in Names |-> None] /\ quarantine = [n \in Names |-> None]
      /\ tx = NoTx /\ worker = "idle" /\ admission = NoAdmission
  BY DEF PortfolioInit, ToolInit, AdmissionInit, Files
<1>2. PortfolioTypes
  BY <1>1 DEF PortfolioTypes, Originals
<1>3. ToolControl
  BY <1>1 DEF ToolControl, ReviewState, ToolJournal, NoAdmission, NoTx, ReviewStates, Carrying,
              Undoing
<1>4. OverOK
  BY <1>1 DEF OverOK, Settled, NoTx
<1> QED
  BY <1>1, <1>2, <1>3, <1>4 DEF ToolInv, FilesOK, NoTx

LEMMA ToolInvStep ==
    ASSUME ToolInv, ~InPlace, [ToolWork \/ ToolEvent]_toolVars, ForeignEdits
    PROVE  ToolInv'
<1>1. CASE \/ TickLaunch \/ LaunchReviewer \/ RecordLaunch \/ LaunchFails \/ ReviewFails
           \/ \E how \in {"done", "failed"} : ReviewerEnds(how)
           \/ Crash \/ Reset \/ Retry
           \/ (\E p \in Paths : LaunchTool(p)) \/ UNCHANGED toolVars
  BY <1>1, TicksKeep
<1>2. CASE TickCapture \/ (\E d \in [Captured -> Decisions] : Approve(d)) \/ BoundaryStart
  BY <1>2, CaptureKeeps, ApproveKeeps, BoundaryKeeps
<1>3. CASE \/ \E n \in Names : JournalSource(n)
           \/ \E t \in Paths : JournalTarget(t)
           \/ SourcesDone \/ TargetsDone
  BY <1>3, JournalKeeps
<1>4. CASE \/ \E n \in Names : QuarantineSource(n) \/ UndoSource(n)
           \/ \E t \in Paths : UndoTarget(t) \/ WriteTarget(t, TRUE) \/ WriteTarget(t, FALSE)
  BY <1>4, QuarantineKeeps, UndoSourceKeeps, UndoTargetKeeps, WriteKeeps
<1>5. CASE Commit \/ CommitFails \/ TargetsUndone \/ RolledBack
  BY <1>5, CommitKeeps, CommitFailsKeeps, TargetsUndoneKeeps, RolledBackKeeps
<1>6. CASE Finalize
  BY <1>6, LineageKeeps
<1>7. CASE \E p \in Paths, recipe \in Recipes \cup {None} : EditRecipe(p, recipe)
  BY <1>7, EditKeeps
<1> QED
  BY <1>1, <1>2, <1>3, <1>4, <1>5, <1>6, <1>7 DEF ToolWork, ToolEvent, Admit, Transact

LEMMA ToolInvSafe == ToolInv => OverIsWhole /\ NothingLost
<1> SUFFICES ASSUME ToolInv PROVE OverIsWhole /\ NothingLost
  OBVIOUS
<1>1. Unlost
  BY UnlostWhere DEF ToolInv, FilesOK, OverOK
<1> QED
  BY <1>1 DEF ToolInv, FilesOK, OverOK, OverIsWhole, NothingLost, Unlost, Settled

\* Whatever tools there are, whatever their review decides as long as it gives no
\* tool the name of one of the batch, wherever its processes die and whatever the
\* operator edits, retries or resets meanwhile, short of writing just what an
\* unfinished plan writes: a plan whose journal says committed was carried out,
\* one whose journal says rolled_back left every recipe as it was
\* (commitEvidence, rollback, recoverToolReviewTransaction).
THEOREM ToolTransactionsWhole ==
    ASSUME ~InPlace
    PROVE  ToolSpec /\ [][ForeignEdits]_toolVars => []OverIsWhole
<1>1. PortfolioInit /\ ToolInit => ToolInv
  BY ToolInvInitially
<1>2. ToolInv /\ [ToolWork \/ ToolEvent]_toolVars /\ [ForeignEdits]_toolVars => ToolInv'
  BY ToolInvStep, TicksKeep
<1>3. ToolInv => OverIsWhole
  BY ToolInvSafe
<1> QED
  BY <1>1, <1>2, <1>3, PTL DEF ToolSpec

\* In the same circumstances a tool that the user has is always where it
\* belongs or in the quarantine of its review (applyToolReviewPlan, rollback).
THEOREM ToolsNeverLost ==
    ASSUME ~InPlace
    PROVE  ToolSpec /\ [][ForeignEdits]_toolVars => []NothingLost
<1>1. PortfolioInit /\ ToolInit => ToolInv
  BY ToolInvInitially
<1>2. ToolInv /\ [ToolWork \/ ToolEvent]_toolVars /\ [ForeignEdits]_toolVars => ToolInv'
  BY ToolInvStep, TicksKeep
<1>3. ToolInv => NothingLost
  BY ToolInvSafe
<1> QED
  BY <1>1, <1>2, <1>3, PTL DEF ToolSpec

-----------------------------------------------------------------------------
(* A review of the drafts is carried out or undone as a whole.             *)

\* While a batch is outstanding the operator writes nothing that is in it.
EditsOutsideBatch ==
    edits' # edits /\ admission.phase # "none" /\ tx.phase \notin {"rolled_back", "committed"} =>
        \A p \in Paths : file'[p] \in {file[p], None} \/ file'[p] \notin {captured[n] : n \in Captured}

\* p holds what it should, as long as nothing was abandoned; then at least what
\* it should hold is not lost.
Right(p) ==
    IF abandoned = {} THEN Settled(p) ELSE portfolio[p] \in {None, file[p]} \cup abandoned

DraftJournal ==
    [phase : {"none", "prepared", "targets_validated", "sources_quarantined",
              "committed_evidence_pending", "committed", "rolled_back", "rollback_required"},
     taken : {{}}, written : {{}}, stale : {FALSE}]

Consolidating == {"verifying", "writing", "quarantining", "restoring", "committing"}

DraftPlanValid == plan \in [Captured -> Decisions] /\ ValidDraftResult(plan)

\* What the state file and the journal say of each other and of the process
\* that has the lock.
DraftControl ==
    /\ admission \in ReviewState
    /\ tx \in DraftJournal
    /\ worker \in {"idle", "launching", "launched", "carrying", "completed"} \cup Consolidating
    /\ tx.phase # "none" => DraftPlanValid
    /\ tx.phase # "none" \/ admission.phase # "none" => Captured # {}
    /\ admission.phase \in {"captured", "failed"} => tx.phase = "none"
    /\ admission.phase = "processing_failed" => tx.phase # "none"
    /\ admission.phase \in {"launched", "processing_failed"} => admission.run
    /\ admission.phase = "completed" \/ worker \in {"carrying", "completed"} => tx.phase = "committed"
    /\ worker \in {"launching", "launched"} => admission.phase \in {"captured", "failed"}
    /\ worker \in Consolidating \cup {"carrying"} =>
          admission.phase \in {"launched", "processing_failed"}
    /\ tx.phase \in {"prepared", "targets_validated"} => admission.phase = "launched"
    /\ worker \in {"verifying", "writing"} => tx.phase = "prepared"
    /\ worker = "quarantining" => tx.phase = "targets_validated"
    /\ worker = "restoring" => tx.phase \in {"prepared", "targets_validated", "rollback_required"}
    /\ worker = "committing" =>
          tx.phase \in {"sources_quarantined", "committed_evidence_pending", "committed"}
    /\ worker = "completed" => admission.phase = "completed"

\* No review takes an active tool away.
ActiveKept == \A n \in Names : portfolio[Active(n)] \in {None, file[Active(n)]}

\* A name that a draft can get is free, or has what the operator wrote.
FreshNames ==
    \A x \in Names \ known :
        /\ file[Active(x)] = portfolio[Active(x)]
        /\ portfolio[Active(x)] \notin {captured[n] : n \in Captured}

\* A draft is where it was, or in the quarantine.
DraftSourceOK(n) ==
    LET p == Draft(n) IN
    IF quarantine[n] = None THEN Right(p)
    ELSE /\ quarantine[n] = captured[n]
         /\ portfolio[p] = None /\ abandoned = {} => edits > 0
         /\ Right(p) \/ (file[p] = None /\ portfolio[p] = captured[n])

DraftTargetOK(t) ==
    /\ portfolio[t] # DraftContent(plan, t)
    /\ file[t] = portfolio[t] \/ (file[t] = DraftContent(plan, t) /\ portfolio[t] = None)

DraftSources == {Draft(n) : n \in Captured}

DraftsOpen ==
    /\ \A n \in Captured : DraftSourceOK(n)
    /\ admission.phase # "none" => \A t \in DraftTargets(plan) : DraftTargetOK(t)
    /\ \A p \in Paths \ (DraftSources \cup DraftTargets(plan)) : Right(p)
    /\ worker = "verifying" \/ tx.phase = "rollback_required" => \A p \in Paths : Right(p)
    /\ tx.phase \in {"sources_quarantined", "committed_evidence_pending"} =>
          \A n \in Captured : quarantine[n] = captured[n]

DraftFilesOK ==
    /\ ActiveKept
    /\ tx.phase = "none" /\ admission.phase # "none" => FreshNames
    /\ tx.phase \in {"none", "rolled_back", "committed"} => \A p \in Paths : Right(p)
    /\ tx.phase \notin {"none", "rolled_back", "committed"} => DraftsOpen
    /\ tx.phase = "none" => \A n \in Names : quarantine[n] = None

DraftInv == PortfolioTypes /\ DraftControl /\ DraftFilesOK

-----------------------------------------------------------------------------
(* The plan.                                                               *)

\* A target is a name that no tool had, and gets a recipe of the batch.
PlanFits ==
    /\ Captured \subseteq Names
    /\ \A n \in Captured : captured[n] \in Recipes /\ captured[n] # None
    /\ \A t \in DraftTargets(plan) : /\ t \in Paths /\ t \notin DraftSources
                                     /\ \E x \in Names \ known : t = Active(x)
                                     /\ DraftContent(plan, t) \in {captured[n] : n \in Captured}
                                     /\ DraftContent(plan, t) \in Recipes
                                     /\ DraftContent(plan, t) # None

LEMMA DraftPlanFacts == PortfolioTypes /\ DraftPlanValid => PlanFits
<1> SUFFICES ASSUME PortfolioTypes, DraftPlanValid PROVE PlanFits
  OBVIOUS
<1>1. /\ Captured \subseteq Names
      /\ \A n \in Captured : captured[n] \in Recipes /\ captured[n] # None
  BY PortfolioAssumption DEF Captured, PortfolioTypes, Originals
<1>2. ASSUME NEW t \in DraftTargets(plan)
      PROVE  /\ \E x \in Names \ known : t = Active(x)
             /\ DraftContent(plan, t) \in {captured[n] : n \in Captured}
  <2>1. PICK n \in Promoted(plan) : t = Active(plan[n].target)
    BY DEF DraftTargets
  <2>2. n \in Captured /\ plan[n].action = "promote" /\ plan[n] \in Decisions
    BY <2>1 DEF Promoted, DraftPlanValid
  <2>3. plan[n].target # None /\ plan[n].target \notin known
    BY <2>1, <2>2 DEF DraftPlanValid, ValidDraftResult
  <2>4. plan[n].target \in Names
    BY <2>2, <2>3 DEF Decisions
  <2>5. (CHOOSE m \in Promoted(plan) : Active(plan[m].target) = t) \in Promoted(plan)
    BY <2>1
  <2> QED
    BY <2>1, <2>3, <2>4, <2>5 DEF DraftContent, Promoted
<1> QED
  BY <1>1, <1>2, PathFacts DEF PlanFits, DraftSources

LEMMA DraftPlanNext == (PortfolioTypes /\ DraftPlanValid => PlanFits)'
<1>1. PortfolioTypes /\ DraftPlanValid => PlanFits
  BY DraftPlanFacts
<1> QED
  BY <1>1, PTL

LEMMA DraftTermsStay ==
    ASSUME UNCHANGED <<plan, captured>>
    PROVE  /\ Captured' = Captured
           /\ DraftTargets(plan)' = DraftTargets(plan) /\ DraftSources' = DraftSources
           /\ \A t : DraftContent(plan, t)' = DraftContent(plan, t)
<1>1. Captured' = Captured /\ plan' = plan /\ captured' = captured
  BY DEF Captured
<1>2. Promoted(plan)' = Promoted(plan)
  BY <1>1 DEF Promoted
<1> QED
  BY <1>1, <1>2 DEF DraftTargets, DraftSources, DraftContent

LEMMA DraftPlanStays ==
    ASSUME UNCHANGED <<plan, captured, known>>
    PROVE  DraftPlanValid' <=> DraftPlanValid
BY DEF DraftPlanValid, ValidDraftResult, Captured, Promoted

draftFiles == <<txFiles, abandoned, known>>

\* Steps that touch neither the files nor the journal.
LEMMA DraftsStill ==
    ASSUME PortfolioTypes, DraftFilesOK, UNCHANGED <<draftFiles, tx>>,
           admission.phase # "none" \/ admission'.phase = "none",
           worker' = "verifying" => worker = "verifying"
    PROVE  PortfolioTypes' /\ DraftFilesOK'
<1>1. PortfolioTypes'
  BY DEF PortfolioTypes, draftFiles, txFiles
<1>2. /\ Captured' = Captured
      /\ DraftTargets(plan)' = DraftTargets(plan) /\ DraftSources' = DraftSources
      /\ \A t : DraftContent(plan, t)' = DraftContent(plan, t)
  BY DraftTermsStay DEF draftFiles, txFiles
<1>3. \A p : Right(p)' <=> Right(p)
  BY DEF Right, Settled, draftFiles, txFiles
<1>4. (ActiveKept => ActiveKept') /\ (FreshNames => FreshNames')
  BY <1>2 DEF ActiveKept, FreshNames, draftFiles, txFiles
<1>5. ASSUME DraftsOpen PROVE DraftsOpen'
  <2>1. \A n \in Captured : DraftSourceOK(n)'
    BY <1>3, <1>5 DEF DraftsOpen, DraftSourceOK, draftFiles, txFiles
  <2>2. admission'.phase # "none" => \A t \in DraftTargets(plan) : DraftTargetOK(t)'
    BY <1>2, <1>5 DEF DraftsOpen, DraftTargetOK, draftFiles, txFiles
  <2> QED
    BY <1>2, <1>3, <1>5, <2>1, <2>2 DEF DraftsOpen, draftFiles, txFiles
<1> QED
  BY <1>1, <1>3, <1>4, <1>5 DEF DraftFilesOK, draftFiles, txFiles

LEMMA DraftFailsState ==
    ASSUME DraftControl, ProcessingFails
    PROVE  /\ admission' \in ReviewState /\ worker' = "idle"
           /\ admission'.phase = "processing_failed" /\ admission'.run = admission.run
<1>1. admission \in ReviewState /\ admission.processing + 1 \in Nat
  BY DEF DraftControl, ReviewState
<1> QED
  BY <1>1 DEF ProcessingFails, ReviewState, ReviewStates

-----------------------------------------------------------------------------
(* Steps that only say how far the review got.                             *)

LEMMA DraftTicksKeep ==
    ASSUME DraftInv,
           \/ TickLaunch \/ LaunchReviewer \/ RecordLaunch \/ LaunchFails
           \/ ReviewFails /\ tx.phase = "none"
           \/ \E how \in {"done", "failed"} : ReviewerEnds(how)
           \/ Crash \/ Reset,
           UNCHANGED known
    PROVE  DraftInv'
<1> USE DEF DraftInv
<1>1. UNCHANGED <<draftFiles, tx>> /\ (worker' = "verifying" => worker = "verifying")
      /\ (admission.phase # "none" \/ admission'.phase = "none")
  BY DEF TickLaunch, LaunchReviewer, RecordLaunch, LaunchFails, ReviewFails, ReviewerEnds, Crash,
         Reset, Idle, Processable, onlyWorker, portfolioVars, NoAdmission, DraftControl,
         draftFiles, txFiles
<1>2. PortfolioTypes' /\ DraftFilesOK'
  BY <1>1, DraftsStill
<1>3. (DraftPlanValid' <=> DraftPlanValid) /\ (Captured # {} => Captured' # {})
  BY <1>1, DraftPlanStays DEF draftFiles, txFiles, Captured
<1>4. UNCHANGED tx
  BY <1>1
<1>5. CASE TickLaunch \/ LaunchReviewer
  BY <1>2, <1>3, <1>4, <1>5 DEF TickLaunch, LaunchReviewer, Idle, DraftControl, Consolidating
<1>6. CASE RecordLaunch \/ LaunchFails
  <2>1. /\ admission' \in ReviewState /\ worker \in {"launching", "launched"} /\ worker' = "idle"
        /\ \/ admission'.phase = "launched" /\ admission'.run
           \/ admission'.phase = "failed"
    <3>1. admission \in ReviewState /\ admission.attempts + 1 \in Nat
      BY DEF DraftControl, ReviewState
    <3>2. CASE RecordLaunch
      BY <3>1, <3>2 DEF RecordLaunch, ReviewState, ReviewStates
    <3>3. CASE LaunchFails
      BY <3>1, <3>3 DEF LaunchFails, ReviewState, ReviewStates
    <3> QED
      BY <1>6, <3>2, <3>3
  <2> QED
    BY <1>2, <1>3, <1>4, <2>1 DEF DraftControl, Consolidating
<1>7. CASE ReviewFails /\ tx.phase = "none"
  <2>1. /\ admission' \in ReviewState /\ admission'.phase = "failed"
        /\ worker = "idle" /\ worker' = worker /\ admission.phase # "none"
    BY <1>7 DEF ReviewFails, Processable, Idle, DraftControl, ReviewState, ReviewStates
  <2> QED
    BY <1>2, <1>3, <1>4, <1>7, <2>1 DEF DraftControl, Consolidating
<1>8. CASE \E how \in {"done", "failed"} : ReviewerEnds(how)
  BY <1>2, <1>3, <1>4, <1>8 DEF ReviewerEnds, DraftControl
<1>9. CASE Crash
  BY <1>2, <1>3, <1>4, <1>9 DEF Crash, DraftControl, Consolidating
<1>10. CASE Reset
  <2>1. /\ admission' = NoAdmission /\ worker = "idle" /\ worker' = worker
        /\ admission.phase \in {"completed", "failed", "processing_failed"}
    BY <1>10 DEF Reset, Idle
  <2> QED
    BY <1>2, <1>3, <1>4, <2>1 DEF DraftControl, NoAdmission, ReviewState, ReviewStates, Consolidating
<1> QED
  BY <1>2, <1>5, <1>6, <1>7, <1>8, <1>9, <1>10

LEMMA DraftLineageKeeps ==
    ASSUME DraftInv,
           \/ RecoverDrafts \/ DraftCommitFails \/ (\E n \in Names : CarryLedger(n))
           \/ CarryFails \/ DraftsComplete \/ RetryDrafts
           \/ (\E p \in Paths : LaunchRecipe(p)) \/ UNCHANGED draftVars
    PROVE  DraftInv'
<1> USE DEF DraftInv
<1>1. UNCHANGED <<draftFiles, tx>> /\ (worker' = "verifying" => worker = "verifying")
  BY DEF RecoverDrafts, DraftCommitFails, CarryLedger, CarryFails, DraftsComplete, RetryDrafts,
         RetryAs, LaunchRecipe, Launch, ProcessingFails, draftSame, draftVars, admissionVars,
         portfolioVars, reviewVars, historyVars, draftFiles, txFiles
<1>2. admission.phase # "none" \/ admission'.phase = "none"
  BY DEF RecoverDrafts, DraftCommitFails, CarryLedger, CarryFails, DraftsComplete, RetryDrafts,
         RetryAs, LaunchRecipe, Processable, draftVars, admissionVars, reviewVars,
         DraftControl, Consolidating
<1>3. PortfolioTypes' /\ DraftFilesOK'
  BY <1>1, <1>2, DraftsStill
<1>4. (DraftPlanValid' <=> DraftPlanValid) /\ (Captured # {} => Captured' # {}) /\ UNCHANGED tx
  BY <1>1, DraftPlanStays DEF draftFiles, txFiles, Captured
<1>5. CASE /\ ProcessingFails
           /\ \/ RecoverDrafts /\ tx.phase = "rolled_back"
              \/ DraftCommitFails \/ CarryFails
  <2>1. admission' \in ReviewState /\ worker' = "idle" /\ admission'.phase = "processing_failed"
        /\ admission'.run = admission.run
    BY <1>5, DraftFailsState
  <2>2. /\ admission.phase \in {"launched", "processing_failed"}
        /\ tx.phase \notin {"none", "prepared", "targets_validated"}
    BY <1>5 DEF RecoverDrafts, Processable, DraftCommitFails, CarryFails, DraftControl,
                Consolidating
  <2> QED
    BY <1>3, <1>4, <2>1, <2>2 DEF DraftControl, Consolidating
<1>6. CASE RecoverDrafts /\ tx.phase # "rolled_back"
  <2>1. /\ worker' = IF tx.phase \in {"sources_quarantined", "committed_evidence_pending",
                                      "committed"}
                     THEN "committing" ELSE "restoring"
        /\ UNCHANGED admission /\ tx.phase \notin {"none", "rolled_back"}
        /\ admission.phase \in {"launched", "processing_failed"}
    BY <1>6 DEF RecoverDrafts, Processable
  <2> QED
    BY <1>3, <1>4, <2>1 DEF DraftControl, DraftJournal, Consolidating
<1>7. CASE (\E n \in Names : CarryLedger(n)) \/ (\E p \in Paths : LaunchRecipe(p)) \/ UNCHANGED draftVars
  <2>1. UNCHANGED <<admission, worker>>
    BY <1>7 DEF CarryLedger, LaunchRecipe, draftVars, admissionVars, reviewVars
  <2> QED
    BY <1>3, <1>4, <2>1 DEF DraftControl
<1>8. CASE DraftsComplete
  <2>1. /\ worker = "carrying" /\ worker' = "completed"
        /\ admission' \in ReviewState /\ admission'.phase = "completed"
    BY <1>8 DEF DraftsComplete, DraftControl, ReviewState, ReviewStates
  <2> QED
    BY <1>3, <1>4, <2>1 DEF DraftControl, Consolidating
<1>9. CASE RetryDrafts
  <2> DEFINE resume == admission.phase = "processing_failed" /\ admission.run /\ tx.phase # "none"
  <2>1. /\ worker = "idle" /\ worker' = worker /\ admission.phase \in {"failed", "processing_failed"}
        /\ admission' = [admission EXCEPT !.phase = IF resume THEN "launched" ELSE "captured",
                                          !.attempts = 0, !.processing = 0, !.run = resume]
    BY <1>9 DEF RetryDrafts, RetryAs, Idle
  <2>2. resume \in BOOLEAN /\ (resume <=> admission.phase = "processing_failed")
    BY <2>1 DEF DraftControl
  <2>3. /\ admission' \in ReviewState
        /\ admission'.phase = IF resume THEN "launched" ELSE "captured"
        /\ admission'.run = resume
    BY <2>1, <2>2 DEF DraftControl, ReviewState, ReviewStates
  <2>4. CASE resume
    <3>1. admission'.phase = "launched" /\ admission'.run /\ tx.phase # "none"
      BY <2>3, <2>4
    <3> QED
      BY <1>3, <1>4, <2>1, <2>2, <2>3, <2>4, <3>1 DEF DraftControl, Consolidating
  <2>5. CASE ~resume
    <3>1. admission'.phase = "captured" /\ admission.phase = "failed"
      BY <2>1, <2>2, <2>3, <2>5
    <3> QED
      BY <1>3, <1>4, <2>1, <2>3, <3>1 DEF DraftControl, Consolidating
  <2> QED
    BY <2>4, <2>5
<1> QED
  BY <1>5, <1>6, <1>7, <1>8, <1>9 DEF RecoverDrafts, DraftCommitFails, CarryFails

LEMMA SweepDraftsKeeps ==
    ASSUME DraftInv, SweepDrafts
    PROVE  DraftInv'
<1> USE DEF DraftInv
<1>1. /\ UNCHANGED <<file, portfolio, captured, plan, edits, abandoned, known, tx, admission>>
      /\ quarantine' = [n \in Names |-> None] /\ worker' = "idle" /\ tx.phase = "committed"
  BY DEF SweepDrafts, draftSame, historyVars, portfolioVars, DraftControl
<1>2. PortfolioTypes'
  BY <1>1 DEF PortfolioTypes, Originals
<1>3. (DraftPlanValid' <=> DraftPlanValid) /\ Captured' = Captured
  BY <1>1, DraftPlanStays DEF Captured
<1>4. DraftControl'
  BY <1>1, <1>3 DEF DraftControl, Consolidating
<1>5. \A p : Right(p)' <=> Right(p)
  BY <1>1 DEF Right, Settled
<1>6. ActiveKept'
  BY <1>1 DEF DraftFilesOK, ActiveKept
<1> QED
  BY <1>1, <1>2, <1>4, <1>5, <1>6 DEF DraftFilesOK

-----------------------------------------------------------------------------
(* What a batch is, and what others write meanwhile.                       *)

LEMMA CaptureDraftsKeeps ==
    ASSUME DraftInv, CaptureDrafts
    PROVE  DraftInv'
<1> USE DEF DraftInv
<1>1. worker = "idle" /\ admission.phase = "none" /\ UNCHANGED <<file, portfolio, edits>>
  BY DEF CaptureDrafts, Idle
<1>2. CASE UNCHANGED <<reviewVars, reviewers, abandoned, known>>
  <2>1. UNCHANGED <<draftFiles, tx, worker, admission>>
    BY <1>1, <1>2 DEF reviewVars, draftFiles, txFiles
  <2>2. PortfolioTypes' /\ DraftFilesOK'
    BY <1>1, <2>1, DraftsStill
  <2>3. (DraftPlanValid' <=> DraftPlanValid) /\ Captured' = Captured
    BY <2>1, DraftPlanStays DEF draftFiles, txFiles, Captured
  <2> QED
    BY <2>1, <2>2, <2>3 DEF DraftControl
<1>3. CASE /\ \E batch \in {b \in SUBSET Candidates(usage) : Cardinality(b) = Threshold} :
                 NewBatch([n \in Names |-> IF n \in batch THEN file[Draft(n)] ELSE None])
           /\ known' = {n \in Names : file[Active(n)] # None}
  <2>1. PICK batch \in {b \in SUBSET Candidates(usage) : Cardinality(b) = Threshold} :
                 NewBatch([n \in Names |-> IF n \in batch THEN file[Draft(n)] ELSE None])
    BY <1>3
  <2>2. /\ captured' = [n \in Names |-> IF n \in batch THEN file[Draft(n)] ELSE None]
        /\ admission' = [NoAdmission EXCEPT !.phase = "captured"]
        /\ tx' = NoTx /\ quarantine' = [n \in Names |-> None] /\ worker' = "launching"
        /\ abandoned' = abandoned \cup ({quarantine[n] : n \in Names} \ {None})
    BY <2>1 DEF NewBatch
  <2>3. Captured' # {}
    <3>1. Cardinality(batch) # 0
      BY AdmissionAssumption
    <3>2. batch # {}
      BY <3>1, FS_EmptySet
    <3>3. PICK n \in batch : TRUE
      BY <3>2
    <3>4. n \in Names /\ file[Draft(n)] # None
      BY DEF Candidates
    <3>5. captured'[n] # None
      BY <2>2, <3>4
    <3> QED
      BY <3>4, <3>5 DEF Captured
  <2>4. PortfolioTypes'
    BY <1>1, <2>2, PathFacts DEF PortfolioTypes, Originals, Files
  <2>5. DraftControl'
    BY <2>2, <2>3 DEF DraftControl, ReviewState, ReviewStates, DraftJournal, NoAdmission, NoTx,
                      Consolidating
  <2>6. ASSUME NEW p \in Paths PROVE Right(p)'
    <3>1. CASE Right(p)
      BY <1>1, <2>2, <3>1 DEF Right, Settled
    <3>2. CASE ~Right(p)
      <4>1. /\ DraftsOpen /\ DraftPlanValid
            /\ tx.phase \in {"sources_quarantined", "committed_evidence_pending"}
        BY <1>1, <3>2 DEF DraftFilesOK, DraftsOpen, DraftControl, DraftJournal
      <4>2. PlanFits
        BY <4>1, DraftPlanFacts
      <4>3. PICK m \in Captured : TRUE
        BY <4>1 DEF DraftControl
      <4>4. quarantine[m] # None /\ m \in Names
        BY <4>1, <4>2 DEF DraftsOpen, PlanFits
      <4>5. abandoned' # {}
        BY <2>2, <4>4
      <4>6. portfolio[p] \in {None, file[p]} \cup abandoned'
        <5>1. CASE p \in DraftSources
          <6>1. PICK n \in Captured : p = Draft(n)
            BY <5>1 DEF DraftSources
          <6>2. /\ DraftSourceOK(n) /\ quarantine[n] = captured[n] /\ n \in Names
                /\ captured[n] # None
            BY <4>1, <4>2 DEF DraftsOpen, PlanFits
          <6>3. portfolio[p] = quarantine[n]
            BY <3>2, <6>1, <6>2 DEF DraftSourceOK
          <6> QED
            BY <2>2, <6>2, <6>3
        <5>2. CASE p \in DraftTargets(plan)
          BY <4>2, <5>2 DEF DraftFilesOK, ActiveKept, PlanFits
        <5>3. CASE p \notin DraftSources \cup DraftTargets(plan)
          BY <3>2, <4>1, <5>3 DEF DraftsOpen
        <5> QED
          BY <5>1, <5>2, <5>3
      <4> QED
        BY <1>1, <4>5, <4>6 DEF Right
    <3> QED
      BY <3>1, <3>2
  <2>7. ActiveKept'
    BY <1>1 DEF DraftFilesOK, ActiveKept
  <2>8. FreshNames'
    <3>1. ASSUME NEW x \in Names \ known'
          PROVE  file[Active(x)] = None /\ portfolio[Active(x)] = None
      BY <1>3 DEF DraftFilesOK, ActiveKept
    <3>2. None \notin {captured'[n] : n \in Captured'}
      BY DEF Captured
    <3> QED
      BY <1>1, <3>1, <3>2 DEF FreshNames
  <2> QED
    BY <2>2, <2>4, <2>5, <2>6, <2>7, <2>8 DEF DraftFilesOK, NoTx
<1> QED
  BY <1>2, <1>3 DEF CaptureDrafts

\* The operator or a spawn puts recipe at p, or nothing.
LEMMA PutKeeps ==
    ASSUME DraftInv, NEW p \in Paths, NEW recipe \in Recipes \cup {None},
           file' = [file EXCEPT ![p] = recipe], portfolio' = [portfolio EXCEPT ![p] = recipe],
           UNCHANGED <<captured, plan, quarantine, tx, worker, admission, abandoned, known>>,
           edits' \in Nat, edits' >= edits, recipe = None => edits' > 0,
           worker \notin Consolidating,
           \/ p \notin {Active(n) : n \in Names} \/ recipe = None
           \/ recipe \notin {captured[n] : n \in Captured}
           \/ admission.phase = "none" \/ tx.phase \in {"rolled_back", "committed"}
    PROVE  DraftInv'
<1> USE DEF DraftInv
<1>1. file \in Files /\ portfolio \in Files /\ edits \in Nat
  BY DEF PortfolioTypes
<1>2. /\ file'[p] = recipe /\ portfolio'[p] = recipe
      /\ \A q \in Paths \ {p} : file'[q] = file[q] /\ portfolio'[q] = portfolio[q]
  BY <1>1 DEF Files
<1>3. PortfolioTypes'
  BY <1>1 DEF PortfolioTypes, Files
<1>4. /\ Captured' = Captured
      /\ DraftTargets(plan)' = DraftTargets(plan) /\ DraftSources' = DraftSources
      /\ \A t : DraftContent(plan, t)' = DraftContent(plan, t)
      /\ (DraftPlanValid' <=> DraftPlanValid)
  BY DraftTermsStay, DraftPlanStays
<1>5. DraftControl'
  BY <1>4 DEF DraftControl
<1>6. ASSUME NEW q \in Paths PROVE (q = p => Right(q)') /\ (Right(q) => Right(q)')
  BY <1>1, <1>2 DEF Right, Settled
<1>7. ActiveKept'
  BY <1>2, PathFacts DEF DraftFilesOK, ActiveKept
<1>8. ASSUME tx.phase = "none", admission.phase # "none"
      PROVE  FreshNames'
  <2>1. FreshNames /\ None \notin {captured[n] : n \in Captured}
    BY <1>8 DEF DraftFilesOK, Captured
  <2>2. ASSUME NEW x \in Names \ known
        PROVE  /\ file'[Active(x)] = portfolio'[Active(x)]
               /\ portfolio'[Active(x)] \notin {captured[n] : n \in Captured}
    <3>1. Active(x) \in Paths
      BY PathFacts
    <3>2. CASE Active(x) = p
      BY <1>2, <1>8, <2>1, <3>2
    <3>3. CASE Active(x) # p
      BY <1>2, <2>1, <3>1, <3>3 DEF FreshNames
    <3> QED
      BY <3>2, <3>3
  <2> QED
    BY <1>4, <2>2 DEF FreshNames
<1>9. ASSUME tx.phase \notin {"none", "rolled_back", "committed"}
      PROVE  DraftsOpen'
  <2>1. DraftsOpen /\ PlanFits
    BY <1>9, DraftPlanFacts DEF DraftFilesOK, DraftControl
  <2>2. ASSUME NEW n \in Captured PROVE DraftSourceOK(n)'
    <3>1. DraftSourceOK(n) /\ Draft(n) \in Paths
      BY <2>1, PathFacts DEF DraftsOpen, PlanFits
    <3>2. CASE Draft(n) = p
      BY <1>2, <1>6, <3>1, <3>2 DEF DraftSourceOK
    <3>3. CASE Draft(n) # p
      BY <1>1, <1>2, <1>6, <3>1, <3>3 DEF DraftSourceOK
    <3> QED
      BY <3>2, <3>3
  <2>3. ASSUME admission.phase # "none", NEW t \in DraftTargets(plan) PROVE DraftTargetOK(t)'
    <3>1. /\ DraftTargetOK(t) /\ t \in Paths /\ t \in {Active(n) : n \in Names}
          /\ DraftContent(plan, t) # None
          /\ DraftContent(plan, t) \in {captured[n] : n \in Captured}
      BY <2>1, <2>3 DEF DraftsOpen, PlanFits
    <3>2. CASE t = p
      BY <1>2, <1>4, <1>9, <2>3, <3>1, <3>2 DEF DraftTargetOK
    <3>3. CASE t # p
      BY <1>2, <1>4, <3>1, <3>3 DEF DraftTargetOK
    <3> QED
      BY <3>2, <3>3
  <2> QED
    BY <1>4, <1>6, <2>1, <2>2, <2>3 DEF DraftsOpen
<1> QED
  BY <1>3, <1>5, <1>6, <1>7, <1>8, <1>9 DEF DraftFilesOK

LEMMA LeaveDraftKeeps ==
    ASSUME DraftInv, NEW n \in Names, NEW recipe \in Templates, LeaveDraft(n, recipe)
    PROVE  DraftInv'
<1>1. /\ file' = [file EXCEPT ![Draft(n)] = recipe]
      /\ portfolio' = [portfolio EXCEPT ![Draft(n)] = recipe]
      /\ UNCHANGED <<captured, plan, quarantine, tx, worker, admission, abandoned, known, edits>>
      /\ worker \notin Consolidating
  BY DEF LeaveDraft, SpawnDraft, reviewVars, historyVars, Consolidating
<1>2. Draft(n) \in Paths /\ Draft(n) \notin {Active(m) : m \in Names}
  BY PathFacts
<1>3. recipe \in Recipes \cup {None} /\ recipe # None
  BY TemplatesAssumption, PortfolioAssumption
<1>4. edits' \in Nat /\ edits' >= edits
  BY <1>1 DEF DraftInv, PortfolioTypes
<1> QED
  BY <1>1, <1>2, <1>3, <1>4, PutKeeps

LEMMA DraftEditKeeps ==
    ASSUME DraftInv, NEW p \in Paths, NEW recipe \in Recipes \cup {None},
           EditRecipe(p, recipe), UNCHANGED known, EditsOutsideBatch
    PROVE  DraftInv'
<1>1. /\ file' = [file EXCEPT ![p] = recipe] /\ portfolio' = [portfolio EXCEPT ![p] = recipe]
      /\ UNCHANGED <<captured, plan, quarantine, tx, worker, admission, abandoned, known>>
      /\ worker \notin Consolidating /\ edits' = edits + 1 /\ file[p] # recipe
  BY DEF EditRecipe, Edit, reviewVars, Idle, Consolidating
<1>2. edits \in Nat /\ file \in Files
  BY DEF DraftInv, PortfolioTypes
<1>3. file'[p] = recipe /\ edits' # edits /\ edits' > 0 /\ edits' >= edits /\ edits' \in Nat
  BY <1>1, <1>2 DEF Files
<1>4. \/ recipe = None \/ recipe \notin {captured[n] : n \in Captured}
      \/ admission.phase = "none" \/ tx.phase \in {"rolled_back", "committed"}
  BY <1>1, <1>3 DEF EditsOutsideBatch
<1> QED
  BY <1>1, <1>3, <1>4, PutKeeps

-----------------------------------------------------------------------------
(* The transaction.                                                        *)

LEMMA ApprovedDraftsAreValid ==
    ASSUME NEW d \in [Captured -> Decisions], ValidDraftResult(d), plan' = d,
           UNCHANGED <<captured, known>>
    PROVE  DraftPlanValid'
<1>1. Captured' = Captured /\ known' = known
  BY DEF Captured
<1>2. Promoted(plan)' = Promoted(d)
  BY <1>1 DEF Promoted
<1> QED
  BY <1>1, <1>2 DEF DraftPlanValid, ValidDraftResult

LEMMA ApproveDraftsKeeps ==
    ASSUME DraftInv, NEW d \in [Captured -> Decisions], ApproveDrafts(d)
    PROVE  DraftInv'
<1> USE DEF DraftInv
<1>1. /\ UNCHANGED <<file, portfolio, captured, quarantine, edits, abandoned, known, admission>>
      /\ worker = "idle" /\ worker' = "verifying" /\ plan' = d /\ ValidDraftResult(d)
      /\ tx.phase = "none" /\ tx' = [NoTx EXCEPT !.phase = "prepared"]
      /\ admission.phase \in {"launched", "processing_failed"}
  BY DEF ApproveDrafts, Processable, Idle, portfolioVars, draftSame, historyVars
<1>2. /\ tx'.phase = "prepared" /\ tx' \in DraftJournal /\ admission.phase = "launched"
  BY <1>1 DEF NoTx, DraftJournal, DraftControl
<1>3. DraftPlanValid' /\ Captured' = Captured
  BY <1>1, ApprovedDraftsAreValid DEF Captured
<1>4. PortfolioTypes'
  BY <1>1 DEF PortfolioTypes
<1>5. DraftControl'
  BY <1>1, <1>2, <1>3 DEF DraftControl, Consolidating
<1>6. PlanFits'
  BY <1>3, <1>4, DraftPlanNext
<1>7. \A p \in Paths : Right(p)'
  BY <1>1 DEF DraftFilesOK, Right, Settled
<1>8. ActiveKept' /\ FreshNames /\ \A n \in Names : quarantine[n] = None
  BY <1>1, <1>2 DEF DraftFilesOK, ActiveKept
<1>9. ASSUME NEW n \in Captured PROVE DraftSourceOK(n)'
  <2>1. n \in Names /\ Draft(n) \in Paths
    BY PathFacts DEF Captured
  <2> QED
    BY <1>1, <1>7, <1>8, <2>1 DEF DraftSourceOK
<1>10. ASSUME NEW t \in DraftTargets(plan)' PROVE DraftTargetOK(t)'
  <2>1. PICK x \in Names \ known : t = Active(x)
    BY <1>1, <1>6 DEF PlanFits
  <2>2. DraftContent(plan, t)' \in {captured[n] : n \in Captured}
    BY <1>1, <1>3, <1>6 DEF PlanFits
  <2>3. file[t] = portfolio[t] /\ portfolio[t] # DraftContent(plan, t)'
    BY <1>8, <2>1, <2>2 DEF FreshNames
  <2> QED
    BY <1>1, <2>3 DEF DraftTargetOK
<1>11. DraftsOpen'
  BY <1>2, <1>3, <1>7, <1>9, <1>10 DEF DraftsOpen
<1> QED
  BY <1>2, <1>4, <1>5, <1>8, <1>11 DEF DraftFilesOK

\* A session at work on a plan.
LEMMA ConsolidatingFacts ==
    ASSUME DraftInv, worker \in Consolidating
    PROVE  /\ DraftPlanValid /\ PlanFits /\ ActiveKept
           /\ tx.phase \notin {"none", "rolled_back"}
           /\ tx.phase # "committed" => DraftsOpen
           /\ tx.phase = "committed" => \A p \in Paths : Right(p)
           /\ admission.phase \in {"launched", "processing_failed"} /\ admission.run
<1>1. /\ tx.phase \notin {"none", "rolled_back"}
      /\ admission.phase \in {"launched", "processing_failed"} /\ admission.run
      /\ DraftPlanValid
  BY DEF DraftInv, DraftControl, Consolidating
<1> QED
  BY <1>1, DraftPlanFacts DEF DraftInv, DraftFilesOK

\* The journal says that the attempt got further.
LEMMA DraftsAdvance ==
    ASSUME DraftInv, UNCHANGED <<draftFiles, admission>>, worker \in Consolidating,
           NEW phase \in {"targets_validated", "sources_quarantined", "committed_evidence_pending"},
           tx' = [tx EXCEPT !.phase = phase], tx.phase # "committed",
           phase = "targets_validated" => worker' = "quarantining" /\ admission.phase = "launched",
           phase # "targets_validated" =>
              worker' = "committing" /\ \A n \in Captured : quarantine[n] = captured[n]
    PROVE  DraftInv'
<1>1. /\ DraftPlanValid /\ ActiveKept /\ DraftsOpen
      /\ admission.phase \in {"launched", "processing_failed"} /\ admission.run
  BY ConsolidatingFacts
<1>2. tx' \in DraftJournal /\ tx'.phase = phase
  BY DEF DraftInv, DraftControl, DraftJournal
<1>3. /\ DraftPlanValid' /\ Captured' = Captured
      /\ DraftTargets(plan)' = DraftTargets(plan) /\ DraftSources' = DraftSources
      /\ \A t : DraftContent(plan, t)' = DraftContent(plan, t)
  BY <1>1, DraftPlanStays, DraftTermsStay DEF draftFiles, txFiles
<1>4. DraftControl'
  BY <1>1, <1>2, <1>3 DEF DraftInv, DraftControl, Consolidating
<1>5. PortfolioTypes' /\ ActiveKept'
  BY <1>1 DEF DraftInv, PortfolioTypes, ActiveKept, draftFiles, txFiles
<1>6. \A p : Right(p)' <=> Right(p)
  BY DEF Right, Settled, draftFiles, txFiles
<1>7. \A n \in Captured : DraftSourceOK(n)'
  BY <1>1, <1>6 DEF DraftsOpen, DraftSourceOK, draftFiles, txFiles
<1>8. \A t \in DraftTargets(plan) : DraftTargetOK(t)'
  BY <1>1, <1>3 DEF DraftsOpen, DraftTargetOK, draftFiles, txFiles
<1>9. DraftsOpen'
  BY <1>1, <1>2, <1>3, <1>6, <1>7, <1>8 DEF DraftsOpen, draftFiles, txFiles
<1> QED
  BY <1>2, <1>4, <1>5, <1>9 DEF DraftInv, DraftFilesOK

LEMMA DraftJournalKeeps ==
    ASSUME DraftInv, TargetsValidated \/ SourcesQuarantined \/ PendEvidence
    PROVE  DraftInv'
<1>1. UNCHANGED <<draftFiles, admission>>
  BY DEF TargetsValidated, SourcesQuarantined, PendEvidence, draftSame, historyVars, portfolioVars,
         draftFiles, txFiles
<1>2. CASE TargetsValidated
  <2>1. worker \in Consolidating /\ tx.phase = "prepared" /\ admission.phase = "launched"
        /\ worker' = "quarantining" /\ tx' = [tx EXCEPT !.phase = "targets_validated"]
    BY <1>2 DEF TargetsValidated, DraftInv, DraftControl, Consolidating
  <2> QED
    BY <1>1, <2>1, DraftsAdvance
<1>3. CASE SourcesQuarantined
  <2>1. worker \in Consolidating /\ tx.phase = "targets_validated"
        /\ worker' = "committing" /\ tx' = [tx EXCEPT !.phase = "sources_quarantined"]
        /\ \A n \in Captured : quarantine[n] # None
    BY <1>3 DEF SourcesQuarantined, DraftInv, DraftControl, Consolidating
  <2>2. DraftsOpen
    BY <2>1, ConsolidatingFacts
  <2>3. \A n \in Captured : quarantine[n] = captured[n]
    BY <2>1, <2>2 DEF DraftsOpen, DraftSourceOK
  <2> QED
    BY <1>1, <2>1, <2>3, DraftsAdvance
<1>4. CASE PendEvidence
  <2>1. worker \in Consolidating /\ tx.phase = "sources_quarantined"
        /\ worker' = "committing" /\ tx' = [tx EXCEPT !.phase = "committed_evidence_pending"]
        /\ \A n \in Captured : quarantine[n] = captured[n]
    BY <1>4 DEF PendEvidence, DraftsWhole, Consolidating
  <2> QED
    BY <1>1, <2>1, DraftsAdvance
<1> QED
  BY <1>2, <1>3, <1>4

\* The journal says that the attempt came to nothing.
LEMMA DraftsGivenUp ==
    ASSUME DraftInv, UNCHANGED draftFiles, worker \in Consolidating, ProcessingFails,
           NEW phase \in {"rolled_back", "rollback_required"},
           tx' = [tx EXCEPT !.phase = phase], \A p \in Paths : Right(p), DraftsOpen
    PROVE  DraftInv'
<1>1. DraftPlanValid /\ ActiveKept /\ admission.run
  BY ConsolidatingFacts
<1>2. tx' \in DraftJournal /\ tx'.phase = phase
  BY DEF DraftInv, DraftControl, DraftJournal
<1>3. /\ DraftPlanValid' /\ Captured' = Captured
      /\ DraftTargets(plan)' = DraftTargets(plan) /\ DraftSources' = DraftSources
      /\ \A t : DraftContent(plan, t)' = DraftContent(plan, t)
  BY <1>1, DraftPlanStays, DraftTermsStay DEF draftFiles, txFiles
<1>4. /\ admission' \in ReviewState /\ worker' = "idle" /\ admission'.phase = "processing_failed"
      /\ admission'.run = admission.run /\ admission.phase # "none"
  BY DraftFailsState, ConsolidatingFacts DEF DraftInv
<1>5. DraftControl'
  BY <1>1, <1>2, <1>3, <1>4 DEF DraftInv, DraftControl, Consolidating
<1>6. PortfolioTypes' /\ ActiveKept'
  BY <1>1 DEF DraftInv, PortfolioTypes, ActiveKept, draftFiles, txFiles
<1>7. \A p : Right(p)' <=> Right(p)
  BY DEF Right, Settled, draftFiles, txFiles
<1>8. \A n \in Captured : DraftSourceOK(n)'
  BY <1>7 DEF DraftsOpen, DraftSourceOK, draftFiles, txFiles
<1>9. \A t \in DraftTargets(plan) : DraftTargetOK(t)'
  BY <1>3, <1>4 DEF DraftsOpen, DraftTargetOK, draftFiles, txFiles
<1>10. DraftsOpen'
  BY <1>2, <1>3, <1>4, <1>7, <1>8, <1>9 DEF DraftsOpen
<1> QED
  BY <1>2, <1>5, <1>6, <1>7, <1>10 DEF DraftInv, DraftFilesOK

LEMMA VerifyKeeps ==
    ASSUME DraftInv, VerifyPreconditions
    PROVE  DraftInv'
<1>1. /\ UNCHANGED draftFiles /\ worker = "verifying" /\ worker \in Consolidating
      /\ tx.phase = "prepared"
  BY DEF VerifyPreconditions, portfolioVars, draftSame, historyVars, draftFiles, txFiles,
         Consolidating, DraftInv, DraftControl
<1>2. DraftsOpen /\ \A p \in Paths : Right(p)
  BY <1>1, ConsolidatingFacts DEF DraftsOpen
<1>3. CASE tx' = [tx EXCEPT !.phase = "rolled_back"] /\ ProcessingFails
  BY <1>1, <1>2, <1>3, DraftsGivenUp
<1>4. CASE worker' = "writing" /\ UNCHANGED <<tx, admission>>
  <2>1. admission.phase # "none"
    BY <1>1, ConsolidatingFacts
  <2>2. PortfolioTypes' /\ DraftFilesOK'
    BY <1>1, <1>4, <2>1, DraftsStill DEF DraftInv
  <2>3. (DraftPlanValid' <=> DraftPlanValid) /\ Captured' = Captured
    BY <1>1, DraftPlanStays DEF draftFiles, txFiles, Captured
  <2>4. DraftControl'
    BY <1>1, <1>4, <2>3 DEF DraftInv, DraftControl, Consolidating
  <2> QED
    BY <2>2, <2>4 DEF DraftInv
<1> QED
  BY <1>3, <1>4 DEF VerifyPreconditions

LEMMA RestoredKeeps ==
    ASSUME DraftInv, Restored
    PROVE  DraftInv'
<1>1. /\ UNCHANGED draftFiles /\ worker \in Consolidating /\ ProcessingFails
      /\ tx.phase # "committed"
      /\ \A n \in Captured : ~Restorable(n)
      /\ \A t \in DraftTargets(plan) : file[t] # DraftContent(plan, t)
  BY DEF Restored, portfolioVars, draftSame, historyVars, draftFiles, txFiles, Consolidating,
         DraftInv, DraftControl
<1>2. DraftsOpen /\ PlanFits /\ admission.phase # "none"
  BY <1>1, ConsolidatingFacts
<1>3. ASSUME NEW p \in Paths PROVE Right(p)
  <2>1. CASE p \in DraftSources
    <3>1. PICK n \in Captured : p = Draft(n)
      BY <2>1 DEF DraftSources
    <3> QED
      BY <1>1, <1>2, <3>1 DEF DraftsOpen, DraftSourceOK, Restorable
  <2>2. CASE p \in DraftTargets(plan)
    <3>1. file[p] = portfolio[p]
      BY <1>1, <1>2, <2>2 DEF DraftsOpen, DraftTargetOK
    <3> QED
      BY <3>1 DEF Right, Settled
  <2>3. CASE p \notin DraftSources \cup DraftTargets(plan)
    BY <1>2, <2>3 DEF DraftsOpen
  <2> QED
    BY <2>1, <2>2, <2>3
<1>4. \E phase \in {"rolled_back", "rollback_required"} : tx' = [tx EXCEPT !.phase = phase]
  BY DEF Restored
<1> QED
  BY <1>1, <1>2, <1>3, <1>4, DraftsGivenUp

LEMMA CommitDraftsKeeps ==
    ASSUME DraftInv, CommitDrafts
    PROVE  DraftInv'
<1>1. /\ UNCHANGED <<file, captured, quarantine, plan, edits, abandoned, known, admission>>
      /\ worker = "committing" /\ worker' = "carrying" /\ worker \in Consolidating /\ DraftsWhole
      /\ tx.phase \in {"committed_evidence_pending", "committed"}
      /\ tx' = [tx EXCEPT !.phase = "committed"]
      /\ portfolio' = IF tx.phase = "committed" THEN portfolio ELSE DraftsPlanned
  BY DEF CommitDrafts, draftSame, historyVars, Consolidating
<1>2. /\ DraftPlanValid /\ PlanFits /\ ActiveKept
      /\ tx.phase # "committed" => DraftsOpen
      /\ tx.phase = "committed" => \A p \in Paths : Right(p)
      /\ admission.phase \in {"launched", "processing_failed"} /\ admission.run
  BY <1>1, ConsolidatingFacts
<1>3. tx' \in DraftJournal /\ tx'.phase = "committed"
  BY <1>1 DEF DraftInv, DraftControl, DraftJournal
<1>4. DraftPlanValid' /\ Captured' = Captured
  BY <1>1, <1>2, DraftPlanStays DEF Captured
<1>5. DraftControl'
  BY <1>1, <1>2, <1>3, <1>4 DEF DraftInv, DraftControl, Consolidating
<1>6. portfolio' \in Files
  <2>1. portfolio \in Files
    BY DEF DraftInv, PortfolioTypes
  <2>2. DraftsPlanned \in Files
    BY <1>2, <2>1 DEF DraftsPlanned, PlanFits, Files
  <2> QED
    BY <1>1, <2>1, <2>2
<1>7. PortfolioTypes'
  BY <1>1, <1>6 DEF DraftInv, PortfolioTypes
<1>8. ASSUME tx.phase # "committed", NEW p \in Paths
      PROVE  portfolio'[p] = IF p \in DraftTargets(plan) THEN DraftContent(plan, p)
                             ELSE IF p \in DraftSources THEN None ELSE portfolio[p]
  BY <1>1, <1>8 DEF DraftsPlanned, DraftSources
<1>9. ASSUME NEW p \in Paths PROVE Right(p)'
  <2>1. CASE tx.phase = "committed"
    BY <1>1, <1>2, <2>1 DEF Right, Settled
  <2>2. CASE tx.phase # "committed"
    <3>1. CASE p \in DraftTargets(plan) \cup DraftSources
      <4>1. file[p] = portfolio'[p]
        BY <1>1, <1>2, <1>8, <2>2, <3>1 DEF DraftsWhole, DraftSources, PlanFits
      <4> QED
        BY <1>1, <4>1 DEF Right, Settled
    <3>2. CASE p \notin DraftTargets(plan) \cup DraftSources
      BY <1>1, <1>2, <1>8, <2>2, <3>2 DEF DraftsOpen, Right, Settled
    <3> QED
      BY <3>1, <3>2
  <2> QED
    BY <2>1, <2>2
<1>10. ASSUME NEW n \in Names PROVE portfolio'[Active(n)] \in {None, file'[Active(n)]}
  <2>1. Active(n) \in Paths /\ portfolio[Active(n)] \in {None, file[Active(n)]}
        /\ Active(n) \notin DraftSources
    BY <1>2, PathFacts DEF ActiveKept, DraftSources
  <2>2. CASE tx.phase = "committed"
    BY <1>1, <2>1, <2>2
  <2>3. CASE tx.phase # "committed"
    BY <1>1, <1>8, <2>1, <2>3 DEF DraftsWhole
  <2> QED
    BY <2>2, <2>3
<1> QED
  BY <1>3, <1>5, <1>7, <1>9, <1>10 DEF DraftInv, DraftFilesOK, ActiveKept

LEMMA ConsolidatesOn ==
    ASSUME DraftInv, UNCHANGED <<plan, captured, known, tx, admission>>,
           worker' = worker \/ (worker = "writing" /\ worker' = "restoring")
    PROVE  DraftControl'
<1>1. (DraftPlanValid' <=> DraftPlanValid) /\ Captured' = Captured
  BY DraftPlanStays DEF Captured
<1> QED
  BY <1>1 DEF DraftInv, DraftControl, Consolidating

LEMMA DraftInvOpen ==
    ASSUME PortfolioTypes', DraftControl', ActiveKept', DraftsOpen',
           tx'.phase \notin {"none", "rolled_back", "committed"}
    PROVE  DraftInv'
BY DEF DraftInv, DraftFilesOK

LEMMA WriteDraftKeeps ==
    ASSUME DraftInv, NEW t \in Paths, NEW readable \in BOOLEAN, WriteDraftTarget(t, readable)
    PROVE  DraftInv'
<1>1. /\ UNCHANGED <<portfolio, captured, quarantine, plan, edits, abandoned, known, tx, admission>>
      /\ worker = "writing" /\ worker \in Consolidating /\ t \in DraftTargets(plan)
      /\ file[t] = None /\ file' = [file EXCEPT ![t] = DraftContent(plan, t)]
      /\ worker' \in {"writing", "restoring"}
  BY DEF WriteDraftTarget, draftSame, historyVars, Consolidating
<1>2. tx.phase = "prepared"
  BY <1>1 DEF DraftInv, DraftControl
<1>3. DraftsOpen /\ PlanFits /\ ActiveKept /\ admission.phase # "none"
  BY <1>1, <1>2, ConsolidatingFacts
<1>4. DraftControl'
  BY <1>1, ConsolidatesOn
<1>5. /\ Captured' = Captured
      /\ DraftTargets(plan)' = DraftTargets(plan) /\ DraftSources' = DraftSources
      /\ \A u : DraftContent(plan, u)' = DraftContent(plan, u)
  BY <1>1, DraftTermsStay
<1>6. file \in Files /\ DraftContent(plan, t) \in Recipes
  BY <1>1, <1>3 DEF DraftInv, PortfolioTypes, PlanFits
<1>7. PortfolioTypes'
  BY <1>1, <1>6 DEF DraftInv, PortfolioTypes, Files
<1>8. /\ file'[t] = DraftContent(plan, t)
      /\ \A q \in Paths \ {t} : file'[q] = file[q] /\ (Right(q)' <=> Right(q))
  BY <1>1, <1>6 DEF Files, Right, Settled
<1>9. portfolio[t] = None
  <2>1. PICK x \in Names : t = Active(x)
    BY <1>1, <1>3 DEF PlanFits
  <2> QED
    BY <1>1, <1>3, <2>1 DEF ActiveKept
<1>10. ActiveKept'
  BY <1>1, <1>3, <1>8, <1>9, PathFacts DEF ActiveKept
<1>11. ASSUME NEW n \in Captured PROVE DraftSourceOK(n)'
  <2>1. Draft(n) \in Paths \ {t} /\ DraftSourceOK(n)
    BY <1>1, <1>3, PathFacts DEF DraftsOpen, PlanFits, DraftSources
  <2> QED
    BY <1>1, <1>8, <2>1 DEF DraftSourceOK
<1>12. ASSUME NEW u \in DraftTargets(plan) PROVE DraftTargetOK(u)'
  <2>1. u \in Paths /\ DraftTargetOK(u)
    BY <1>3 DEF DraftsOpen, PlanFits
  <2>2. CASE u = t
    BY <1>1, <1>5, <1>8, <1>9, <2>1, <2>2 DEF DraftTargetOK
  <2>3. CASE u # t
    BY <1>1, <1>5, <1>8, <2>1, <2>3 DEF DraftTargetOK
  <2> QED
    BY <2>2, <2>3
<1>13. DraftsOpen'
  BY <1>1, <1>2, <1>3, <1>5, <1>8, <1>11, <1>12 DEF DraftsOpen
<1> QED
  BY <1>1, <1>2, <1>4, <1>7, <1>10, <1>13, DraftInvOpen

\* A draft is moved, one way or the other.
LEMMA DraftMoves ==
    ASSUME DraftInv, NEW n \in Captured,
           UNCHANGED <<portfolio, captured, plan, edits, abandoned, known, tx, admission, worker>>,
           worker \in {"quarantining", "restoring"},
           \/ /\ file[Draft(n)] = captured[n] /\ worker = "quarantining"
              /\ file' = [file EXCEPT ![Draft(n)] = None]
              /\ quarantine' = [quarantine EXCEPT ![n] = file[Draft(n)]]
           \/ /\ file[Draft(n)] = None /\ quarantine[n] = captured[n] /\ worker = "restoring"
              /\ file' = [file EXCEPT ![Draft(n)] = quarantine[n]]
              /\ quarantine' = [quarantine EXCEPT ![n] = None]
    PROVE  DraftInv'
<1>1. tx.phase \in {"prepared", "targets_validated", "rollback_required"}
      /\ worker \in Consolidating /\ (worker = "quarantining" => tx.phase = "targets_validated")
  BY DEF DraftInv, DraftControl, Consolidating
<1>2. DraftsOpen /\ PlanFits /\ ActiveKept /\ admission.phase # "none"
  BY <1>1, ConsolidatingFacts
<1>3. DraftControl'
  BY ConsolidatesOn
<1>4. /\ Captured' = Captured
      /\ DraftTargets(plan)' = DraftTargets(plan) /\ DraftSources' = DraftSources
      /\ \A u : DraftContent(plan, u)' = DraftContent(plan, u)
  BY DraftTermsStay
<1>5. /\ n \in Names /\ Draft(n) \in Paths /\ captured[n] \in Recipes /\ captured[n] # None
      /\ file \in Files /\ quarantine \in Originals /\ Draft(n) \in DraftSources
  BY <1>2, PathFacts DEF DraftInv, PortfolioTypes, PlanFits, DraftSources
<1>6. PortfolioTypes'
  BY <1>5 DEF DraftInv, PortfolioTypes, Files, Originals
<1>7. /\ \A q \in Paths \ {Draft(n)} : file'[q] = file[q] /\ (Right(q)' <=> Right(q))
      /\ \A m \in Names \ {n} : quarantine'[m] = quarantine[m]
  BY <1>5 DEF Files, Originals, Right, Settled
<1>8. ActiveKept'
  BY <1>2, <1>7, PathFacts DEF ActiveKept
<1>9. DraftSourceOK(n)
  BY <1>2 DEF DraftsOpen
<1>10. DraftSourceOK(n)' /\ (worker = "restoring" => Right(Draft(n))')
  <2>1. CASE worker = "quarantining"
    <3>1. file'[Draft(n)] = None /\ quarantine'[n] = captured[n] /\ file[Draft(n)] = captured[n]
      BY <1>5, <2>1 DEF Files, Originals
    <3>2. Right(Draft(n))
      BY <1>5, <1>9, <3>1 DEF DraftSourceOK
    <3> QED
      BY <1>5, <2>1, <3>1, <3>2 DEF DraftSourceOK, Right, Settled
  <2>2. CASE worker = "restoring"
    <3>1. /\ file'[Draft(n)] = captured[n] /\ quarantine'[n] = None
          /\ file[Draft(n)] = None /\ quarantine[n] = captured[n]
      BY <1>5, <2>2 DEF Files, Originals
    <3>2. Right(Draft(n))'
      BY <1>5, <1>9, <3>1 DEF DraftSourceOK, Right, Settled
    <3> QED
      BY <3>1, <3>2 DEF DraftSourceOK
  <2> QED
    BY <2>1, <2>2
<1>11. ASSUME NEW m \in Captured PROVE DraftSourceOK(m)'
  <2>1. CASE m = n
    BY <1>10, <2>1
  <2>2. CASE m # n
    <3>1. Draft(m) \in Paths \ {Draft(n)} /\ m \in Names \ {n} /\ DraftSourceOK(m)
      BY <1>2, <2>2, PathFacts DEF DraftsOpen, PlanFits
    <3> QED
      BY <1>7, <3>1 DEF DraftSourceOK
  <2> QED
    BY <2>1, <2>2
<1>12. ASSUME NEW u \in DraftTargets(plan) PROVE DraftTargetOK(u)'
  <2>1. u \in Paths \ {Draft(n)} /\ DraftTargetOK(u)
    BY <1>2, <1>5 DEF DraftsOpen, PlanFits
  <2> QED
    BY <1>4, <1>7, <2>1 DEF DraftTargetOK
<1>13. tx.phase = "rollback_required" => \A p \in Paths : Right(p)'
  BY <1>1, <1>2, <1>7, <1>10 DEF DraftsOpen
<1>14. DraftsOpen'
  BY <1>1, <1>2, <1>4, <1>5, <1>7, <1>11, <1>12, <1>13 DEF DraftsOpen
<1> QED
  BY <1>1, <1>3, <1>6, <1>8, <1>14, DraftInvOpen

LEMMA QuarantineDraftKeeps ==
    ASSUME DraftInv, NEW n \in Names, QuarantineDraft(n) \/ RestoreSource(n)
    PROVE  DraftInv'
<1>1. /\ n \in Captured /\ worker \in {"quarantining", "restoring"}
      /\ UNCHANGED <<portfolio, captured, plan, edits, abandoned, known, tx, admission, worker>>
  BY DEF QuarantineDraft, RestoreSource, draftSame, historyVars
<1> QED
  BY <1>1, DraftMoves DEF QuarantineDraft, RestoreSource, Restorable

LEMMA RestoreTargetKeeps ==
    ASSUME DraftInv, NEW t \in Paths, RestoreTarget(t)
    PROVE  DraftInv'
<1>1. /\ UNCHANGED <<portfolio, captured, quarantine, plan, edits, abandoned, known, tx, admission,
                     worker>>
      /\ worker = "restoring" /\ worker \in Consolidating /\ t \in DraftTargets(plan)
      /\ file[t] = DraftContent(plan, t) /\ file' = [file EXCEPT ![t] = None]
  BY DEF RestoreTarget, draftSame, historyVars, Consolidating
<1>2. tx.phase \in {"prepared", "targets_validated", "rollback_required"}
  BY <1>1 DEF DraftInv, DraftControl
<1>3. DraftsOpen /\ PlanFits /\ ActiveKept /\ admission.phase # "none"
  BY <1>1, <1>2, ConsolidatingFacts
<1>4. DraftControl'
  BY <1>1, ConsolidatesOn
<1>5. /\ Captured' = Captured
      /\ DraftTargets(plan)' = DraftTargets(plan) /\ DraftSources' = DraftSources
      /\ \A u : DraftContent(plan, u)' = DraftContent(plan, u)
  BY <1>1, DraftTermsStay
<1>6. file \in Files /\ DraftContent(plan, t) # None
  BY <1>1, <1>3 DEF DraftInv, PortfolioTypes, PlanFits
<1>7. PortfolioTypes'
  BY <1>1, <1>6 DEF DraftInv, PortfolioTypes, Files
<1>8. /\ file'[t] = None
      /\ \A q \in Paths \ {t} : file'[q] = file[q] /\ (Right(q)' <=> Right(q))
  BY <1>1, <1>6 DEF Files, Right, Settled
<1>9. portfolio[t] = None
  BY <1>1, <1>3 DEF DraftsOpen, DraftTargetOK
<1>10. ActiveKept' /\ Right(t)'
  <2>1. ActiveKept'
    BY <1>1, <1>3, <1>8, <1>9, PathFacts DEF ActiveKept
  <2>2. Right(t)'
    BY <1>1, <1>8, <1>9 DEF Right, Settled
  <2> QED
    BY <2>1, <2>2
<1>11. ASSUME NEW n \in Captured PROVE DraftSourceOK(n)'
  <2>1. Draft(n) \in Paths \ {t} /\ DraftSourceOK(n)
    BY <1>1, <1>3, PathFacts DEF DraftsOpen, PlanFits, DraftSources
  <2> QED
    BY <1>1, <1>8, <2>1 DEF DraftSourceOK
<1>12. ASSUME NEW u \in DraftTargets(plan) PROVE DraftTargetOK(u)'
  <2>1. u \in Paths /\ DraftTargetOK(u)
    BY <1>3 DEF DraftsOpen, PlanFits
  <2>2. CASE u = t
    BY <1>1, <1>5, <1>6, <1>8, <1>9, <2>2 DEF DraftTargetOK
  <2>3. CASE u # t
    BY <1>1, <1>5, <1>8, <2>1, <2>3 DEF DraftTargetOK
  <2> QED
    BY <2>2, <2>3
<1>13. DraftsOpen'
  BY <1>1, <1>2, <1>3, <1>5, <1>8, <1>10, <1>11, <1>12 DEF DraftsOpen
<1> QED
  BY <1>1, <1>2, <1>4, <1>7, <1>10, <1>13, DraftInvOpen

-----------------------------------------------------------------------------
LEMMA DraftInvInitially == PortfolioInit /\ DraftInit => DraftInv
<1> SUFFICES ASSUME PortfolioInit, DraftInit PROVE DraftInv
  OBVIOUS
<1>1. /\ file \in Files /\ portfolio = file /\ edits = 0 /\ abandoned = {}
      /\ captured = [n \in Names |-> None] /\ quarantine = [n \in Names |-> None]
      /\ tx = NoTx /\ worker = "idle" /\ admission = NoAdmission
  BY DEF PortfolioInit, DraftInit, AdmissionInit, Files
<1>2. PortfolioTypes
  BY <1>1 DEF PortfolioTypes, Originals
<1>3. DraftControl
  BY <1>1 DEF DraftControl, ReviewState, DraftJournal, NoAdmission, NoTx, ReviewStates,
              Consolidating
<1>4. DraftFilesOK
  BY <1>1 DEF DraftFilesOK, ActiveKept, Right, Settled, NoTx, NoAdmission
<1> QED
  BY <1>2, <1>3, <1>4 DEF DraftInv

LEMMA DraftInvStep ==
    ASSUME DraftInv, [DraftWork \/ DraftEvent]_draftVars, [EditsOutsideBatch]_draftVars
    PROVE  DraftInv'
<1>1. CASE UNCHANGED draftVars
  BY <1>1, DraftLineageKeeps
<1>2. CASE /\ UNCHANGED known
           /\ \/ TickLaunch \/ LaunchReviewer \/ RecordLaunch \/ LaunchFails
              \/ ReviewFails /\ tx.phase = "none"
              \/ \E how \in {"done", "failed"} : ReviewerEnds(how)
              \/ Crash \/ Reset
  BY <1>2, DraftTicksKeep
<1>3. CASE \/ RecoverDrafts \/ DraftCommitFails \/ (\E n \in Names : CarryLedger(n))
           \/ CarryFails \/ DraftsComplete \/ RetryDrafts
           \/ (\E p \in Paths : LaunchRecipe(p))
  BY <1>3, DraftLineageKeeps
<1>4. CASE CaptureDrafts \/ SweepDrafts \/ VerifyPreconditions
             \/ \E d \in [Captured -> Decisions] : ApproveDrafts(d)
  BY <1>4, CaptureDraftsKeeps, SweepDraftsKeeps, VerifyKeeps, ApproveDraftsKeeps
<1>5. CASE \/ TargetsValidated \/ SourcesQuarantined \/ PendEvidence \/ CommitDrafts \/ Restored
           \/ \E n \in Names : QuarantineDraft(n) \/ RestoreSource(n)
           \/ \E t \in Paths : \/ WriteDraftTarget(t, TRUE) \/ WriteDraftTarget(t, FALSE)
                               \/ RestoreTarget(t)
  BY <1>5, DraftJournalKeeps, CommitDraftsKeeps, RestoredKeeps, QuarantineDraftKeeps,
     WriteDraftKeeps, RestoreTargetKeeps
<1>6. CASE \E n \in Names, recipe \in Templates : LeaveDraft(n, recipe)
  BY <1>6, LeaveDraftKeeps
<1>7. CASE ~UNCHANGED draftVars /\
             \E p \in Paths, recipe \in Recipes \cup {None} : EditRecipe(p, recipe) /\ UNCHANGED known
  BY <1>7, DraftEditKeeps
<1> QED
  BY <1>1, <1>2, <1>3, <1>4, <1>5, <1>6, <1>7 DEF DraftWork, DraftEvent

LEMMA DraftInvSafe == DraftInv => OverIsWhole /\ NothingLost
<1> SUFFICES ASSUME DraftInv PROVE OverIsWhole /\ NothingLost
  OBVIOUS
<1>1. OverIsWhole
  BY DEF DraftInv, DraftFilesOK, OverIsWhole, Right, Settled
<1>2. ASSUME NEW p \in Paths
      PROVE  portfolio[p] \in {None, file[p], quarantine[Name(p)]} \/ portfolio[p] \in abandoned
  <2>1. CASE Right(p)
    BY <2>1 DEF Right, Settled
  <2>2. CASE ~Right(p)
    <3>1. DraftsOpen /\ PlanFits /\ ActiveKept
      BY <2>2, DraftPlanFacts DEF DraftInv, DraftFilesOK, DraftControl
    <3>2. CASE p \in DraftSources
      <4>1. PICK n \in Captured : p = Draft(n)
        BY <3>2 DEF DraftSources
      <4> QED
        BY <2>2, <3>1, <4>1, PathFacts DEF DraftsOpen, DraftSourceOK, PlanFits
    <3>3. CASE p \in DraftTargets(plan)
      BY <3>1, <3>3 DEF ActiveKept, PlanFits
    <3> QED
      BY <2>2, <3>1, <3>2, <3>3 DEF DraftsOpen
  <2> QED
    BY <2>1, <2>2
<1> QED
  BY <1>1, <1>2 DEF NothingLost

\* The same of the drafts, whatever spawns leave meanwhile, as long as the operator
\* writes nothing that is in the batch and no reset has left a draft in the
\* quarantine of a review: committed means that every draft was promoted or
\* discarded as planned, and rolled_back that every recipe is as it was
\* (verifyCommitState, restoreJournal, recoverDraftConsolidationCycle).
THEOREM DraftTransactionsWhole ==
    DraftSpec /\ [][EditsOutsideBatch]_draftVars => []OverIsWhole
<1>1. PortfolioInit /\ DraftInit => DraftInv
  BY DraftInvInitially
<1>2. DraftInv /\ [DraftWork \/ DraftEvent]_draftVars /\ [EditsOutsideBatch]_draftVars => DraftInv'
  BY DraftInvStep
<1>3. DraftInv => OverIsWhole
  BY DraftInvSafe
<1> QED
  BY <1>1, <1>2, <1>3, PTL DEF DraftSpec

\* And a recipe that the user has is where it belongs, or in the quarantine of
\* the review or of one that the operator reset before it was over.
THEOREM DraftsNeverLost ==
    DraftSpec /\ [][EditsOutsideBatch]_draftVars => []NothingLost
<1>1. PortfolioInit /\ DraftInit => DraftInv
  BY DraftInvInitially
<1>2. DraftInv /\ [DraftWork \/ DraftEvent]_draftVars /\ [EditsOutsideBatch]_draftVars => DraftInv'
  BY DraftInvStep
<1>3. DraftInv => NothingLost
  BY DraftInvSafe
<1> QED
  BY <1>1, <1>2, <1>3, PTL DEF DraftSpec

-----------------------------------------------------------------------------
(* The ledgers follow the drafts.                                          *)

\* The operator resets no review and removes no recipe.
NothingRemoved ==
    /\ resets' = resets
    /\ edits' # edits => \A p \in Paths : file[p] # None => file'[p] # None

\* How far a consolidation got, whatever the files hold.
DraftCourse ==
    /\ admission \in ReviewState /\ tx \in DraftJournal
    /\ tx.phase # "none" => DraftPlanValid
    /\ admission.phase = "none" => tx.phase = "none"
    /\ admission.phase = "completed" \/ worker \in {"carrying", "completed"} => tx.phase = "committed"
    /\ worker = "completed" => admission.phase = "completed"
    /\ worker \in {"launching", "launched", "carrying"} \cup Consolidating =>
          admission.phase \notin {"none", "completed"}
    /\ worker \in {"verifying", "writing"} => tx.phase = "prepared"
    /\ worker = "quarantining" => tx.phase = "targets_validated"
    /\ worker = "restoring" => tx.phase \in {"prepared", "targets_validated", "rollback_required"}
    /\ worker = "committing" =>
          tx.phase \in {"sources_quarantined", "committed_evidence_pending", "committed"}

\* Nothing of the batch was undone.
Forward ==
    \/ tx.phase \in {"none", "sources_quarantined", "committed_evidence_pending", "committed"}
    \/ worker \in {"verifying", "writing", "quarantining"}

\* The targets are written, and the drafts go to the quarantine.
Away == tx.phase \in {"targets_validated", "sources_quarantined", "committed_evidence_pending",
                      "committed"}

\* What an entry of the index is of is there, or it is a draft of the batch whose
\* ledger was not carried over yet.
EntryOK(q) ==
    file[q] # None \/ (q \in DraftSources /\ Away /\ admission.phase # "completed")

CarriedOver(n) == plan[n].action = "promote" => Moved(usage, Active(plan[n].target))

LedgersOK ==
    /\ file \in Files /\ usage \in Usage
    /\ Forward => /\ \A q \in usage.index : EntryOK(q)
                  /\ Away => \A t \in DraftTargets(plan) : file[t] # None
    /\ admission.phase = "completed" => \A n \in Captured : CarriedOver(n)

FollowInv == DraftCourse /\ LedgersOK

-----------------------------------------------------------------------------
(* What the operations on ledgers leave.                                   *)

LEMMA NewLedgerType ==
    ASSUME NEW p \in Paths, NEW recipe \in Recipes, NEW k \in Nat
    PROVE  NewLedger(p, recipe, k) \in Ledger
BY DEF NewLedger, Ledger

LEMMA StoredType ==
    ASSUME NEW u \in Usage, NEW p
    PROVE  Stored(u, p) # None => /\ p \in u.index /\ p \in Paths /\ Name(p) \in Names
                                  /\ Stored(u, p) = u.ledger[Name(p)]
                                  /\ Stored(u, p) \in Ledger
BY DEF Stored, Usage, Paths, Name

LEMMA EnsuredFacts ==
    ASSUME file \in Files, NEW u \in Usage, NEW folder \in {"active", "drafts"}
    PROVE  /\ EnsuredAll(file, u, folder) \in Usage
           /\ \A q \in EnsuredAll(file, u, folder).index : q \in u.index \/ file[q] # None
<1> DEFINE seen == {p \in {folder} \X Names : ~EnsureRefused(file, u, p)}
           row(n) == IF <<folder, n>> \notin seen THEN u.ledger[n]
                     ELSE IF <<folder, n>> \in u.index
                          THEN [u.ledger[n] EXCEPT !.fingerprint = file[<<folder, n>>]]
                          ELSE NewLedger(<<folder, n>>, file[<<folder, n>>], 0)
<1>1. EnsuredAll(file, u, folder) = [index |-> u.index \cup seen, ledger |-> [n \in Names |-> row(n)]]
  BY DEF EnsuredAll
<1>2. \A p \in seen : p \in Paths /\ file[p] # None
  BY DEF EnsureRefused, Paths
<1>3. ASSUME NEW n \in Names PROVE row(n) \in Ledger \cup {None}
  <2> DEFINE p == <<folder, n>>
  <2>1. u.ledger[n] \in Ledger \cup {None} /\ Name(p) = n
    BY DEF Usage, Name
  <2>2. CASE p \notin seen
    BY <2>1, <2>2
  <2>3. CASE p \in seen /\ p \in u.index
    <3>1. u.ledger[n] \in Ledger /\ file[p] \in Recipes
      BY <1>2, <2>1, <2>3 DEF EnsureRefused, Files
    <3>2. row(n) = [u.ledger[n] EXCEPT !.fingerprint = file[p]]
      BY <2>3
    <3> QED
      BY <3>1, <3>2 DEF Ledger
  <2>4. CASE p \in seen /\ p \notin u.index
    <3>1. p \in Paths /\ file[p] \in Recipes
      BY <1>2, <2>4 DEF Files
    <3>2. row(n) = NewLedger(p, file[p], 0)
      BY <2>4
    <3> QED
      BY <3>1, <3>2, NewLedgerType
  <2> QED
    BY <2>2, <2>3, <2>4
<1> HIDE DEF seen, row
<1> QED
  BY <1>1, <1>2, <1>3 DEF Usage

LEMMA LaunchFacts ==
    ASSUME NEW f \in Files, NEW u \in Usage, NEW p \in Paths, ~LaunchRefused(f, u, p)
    PROVE  /\ Launched(f, u, p) \in Usage
           /\ \A q \in Launched(f, u, p).index : q \in u.index \/ f[q] # None
           /\ (\A q \in u.index : f[q] # None) =>
                 /\ u.index \subseteq Launched(f, u, p).index
                 /\ \A q : Stored(u, q) # None => Stored(Launched(f, u, p), q) # None
<1> DEFINE old == Continues(f, u, p)
           past == {Stored(u, q) : q \in old} \ {None}
           new == Launched(f, u, p)
<1>1. f[p] \in Recipes /\ f[p] # None /\ Name(p) \in Names
  BY DEF LaunchRefused, Files, Paths, Name
<1>2. old \subseteq u.index /\ past \subseteq Ledger
  BY StoredType DEF Continues, Relocated
<1>3. LaunchLedger(f, u, p) \in Ledger
  <2>1. CASE past = {}
    BY <1>1, <2>1, NewLedgerType DEF LaunchLedger
  <2>2. CASE past # {}
    <3> DEFINE l == CHOOSE x \in past : TRUE
    <3>1. l \in Ledger
      BY <1>2, <2>2
    <3>2. LaunchLedger(f, u, p) = [l EXCEPT !.path = p, !.fingerprint = f[p], !.calls = @ + 1]
      BY <2>2 DEF LaunchLedger
    <3> HIDE DEF l
    <3>3. LaunchLedger(f, u, p) =
             [path |-> p, fingerprint |-> f[p], calls |-> l.calls + 1,
              reviewed |-> l.reviewed, demoted |-> l.demoted]
      BY <3>1, <3>2 DEF Ledger
    <3>4. /\ l.calls + 1 \in Nat /\ l.reviewed \in SUBSET Recipes
          /\ l.demoted \in Recipes \cup {None}
      BY <3>1 DEF Ledger
    <3> HIDE DEF past
    <3> QED
      BY <1>1, <3>3, <3>4 DEF Ledger
  <2> QED
    BY <2>1, <2>2
<1> HIDE DEF past, old
<1>4. /\ new.index = (u.index \ old) \cup {p}
      /\ new.ledger = [n \in Names |->
                          IF n = Name(p) THEN LaunchLedger(f, u, p)
                          ELSE IF n \in {Name(q) : q \in old} THEN None ELSE u.ledger[n]]
      /\ new = [index |-> new.index, ledger |-> new.ledger]
  BY DEF Launched, old
<1> HIDE DEF new
<1>5. new \in Usage
  <2>1. new.index \in SUBSET Paths
    BY <1>2, <1>4 DEF Usage
  <2>2. \A n \in Names : u.ledger[n] \in Ledger \cup {None}
    BY DEF Usage
  <2>3. new.ledger \in [Names -> Ledger \cup {None}]
    BY <1>3, <1>4, <2>2
  <2> QED
    BY <1>4, <2>1, <2>3 DEF Usage
<1>6. ASSUME \A q \in u.index : f[q] # None
      PROVE  /\ u.index \subseteq new.index
             /\ \A q : Stored(u, q) # None => Stored(new, q) # None
  <2>1. p \notin u.index => Relocated(f, u, p) = {}
    BY <1>6 DEF Relocated
  <2>2. old \subseteq {p}
    BY <2>1 DEF old, Continues
  <2>3. u.index \subseteq new.index
    BY <1>4, <2>2
  <2>4. ASSUME NEW q, Stored(u, q) # None PROVE Stored(new, q) # None
    <3>1. q \in new.index /\ Name(q) \in Names /\ u.ledger[Name(q)] # None
      BY <2>3, <2>4, StoredType
    <3>2. new.ledger[Name(q)] # None
      BY <1>3, <1>4, <2>2, <3>1, LedgerAssumption
    <3> QED
      BY <3>1, <3>2 DEF Stored
  <2> QED
    BY <2>3, <2>4
<1> QED
  BY <1>1, <1>4, <1>5, <1>6 DEF new

LEMMA MoveFacts ==
    ASSUME NEW u \in Usage, NEW from \in Paths, NEW to \in Paths, ~MoveRefused(u, from, to)
    PROVE  /\ MovedUsage(u, from, to) \in Usage
           /\ MovedUsage(u, from, to).index \subseteq u.index \cup {to}
<1>1. CASE from \notin u.index
  BY <1>1 DEF MovedUsage
<1>2. CASE from \in u.index
  <2> DEFINE l == [Stored(u, from) EXCEPT !.path = to]
             cleared == [u.ledger EXCEPT ![Name(from)] = None]
  <2>1. Stored(u, from) \in Ledger
    BY <1>2, StoredType DEF MoveRefused
  <2>2. l \in Ledger
    BY <2>1 DEF Ledger
  <2>3. cleared \in [Names -> Ledger \cup {None}]
    BY DEF Usage
  <2>4. MovedUsage(u, from, to) = [index |-> (u.index \ {from}) \cup {to},
                                   ledger |-> [cleared EXCEPT ![Name(to)] = l]]
    BY <1>2 DEF MovedUsage
  <2> HIDE DEF l, cleared
  <2>5. [cleared EXCEPT ![Name(to)] = l] \in [Names -> Ledger \cup {None}]
    BY <2>2, <2>3
  <2> QED
    BY <2>4, <2>5 DEF Usage
<1> QED
  BY <1>1, <1>2

LEMMA RetireFacts ==
    ASSUME NEW u \in Usage, NEW p
    PROVE  Retired(u, p) \in Usage /\ Retired(u, p).index \subseteq u.index
BY DEF Retired, Usage

-----------------------------------------------------------------------------
(* The course of a consolidation.                                          *)

LEMMA FailsCourse ==
    ASSUME DraftCourse, ProcessingFails
    PROVE  admission' \in ReviewState /\ worker' = "idle" /\ admission'.phase = "processing_failed"
<1>1. admission \in ReviewState /\ admission.processing + 1 \in Nat
  BY DEF DraftCourse, ReviewState
<1> QED
  BY <1>1 DEF ProcessingFails, ReviewState, ReviewStates

LEMMA TicksCourse ==
    ASSUME DraftCourse, UNCHANGED known,
           \/ TickLaunch \/ LaunchReviewer \/ RecordLaunch \/ LaunchFails
           \/ ReviewFails /\ tx.phase = "none"
           \/ \E how \in {"done", "failed"} : ReviewerEnds(how)
           \/ Crash
    PROVE  DraftCourse'
<1>1. UNCHANGED <<plan, captured, tx>>
  BY DEF TickLaunch, LaunchReviewer, RecordLaunch, LaunchFails, ReviewFails, ReviewerEnds, Crash,
         onlyWorker
<1>2. DraftPlanValid' <=> DraftPlanValid
  BY <1>1, DraftPlanStays
<1>3. CASE TickLaunch \/ LaunchReviewer
  BY <1>1, <1>2, <1>3 DEF TickLaunch, LaunchReviewer, Idle, DraftCourse, Consolidating
<1>4. CASE RecordLaunch \/ LaunchFails \/ (ReviewFails /\ tx.phase = "none")
  <2>1. /\ admission' \in ReviewState /\ worker' = "idle"
        /\ admission'.phase \in {"launched", "failed"}
    <3>1. admission \in ReviewState /\ admission.attempts + 1 \in Nat
      BY DEF DraftCourse, ReviewState
    <3>2. CASE RecordLaunch
      BY <3>1, <3>2 DEF RecordLaunch, ReviewState, ReviewStates
    <3>3. CASE LaunchFails
      BY <3>1, <3>3 DEF LaunchFails, ReviewState, ReviewStates
    <3>4. CASE ReviewFails
      BY <3>1, <3>4 DEF ReviewFails, Processable, Idle, ReviewState, ReviewStates
    <3> QED
      BY <1>4, <3>2, <3>3, <3>4
  <2> QED
    BY <1>1, <1>2, <2>1 DEF DraftCourse, Consolidating
<1>5. CASE (\E how \in {"done", "failed"} : ReviewerEnds(how)) \/ Crash
  <2>1. UNCHANGED admission /\ (worker' = worker \/ worker' = "idle")
    BY <1>5 DEF ReviewerEnds, Crash
  <2> QED
    BY <1>1, <1>2, <2>1 DEF DraftCourse, Consolidating
<1> QED
  BY <1>3, <1>4, <1>5

LEMMA OtherCourse ==
    ASSUME DraftCourse,
           \/ \E n \in Names : QuarantineDraft(n) \/ RestoreSource(n) \/ CarryLedger(n)
           \/ \E t \in Paths : \/ WriteDraftTarget(t, TRUE) \/ WriteDraftTarget(t, FALSE)
                               \/ RestoreTarget(t)
           \/ \E p \in Paths : LaunchRecipe(p)
           \/ \E n \in Names, recipe \in Templates : LeaveDraft(n, recipe)
           \/ \E p \in Paths, recipe \in Recipes \cup {None} : EditRecipe(p, recipe) /\ UNCHANGED known
           \/ SweepDrafts \/ UNCHANGED draftVars
    PROVE  DraftCourse'
<1>1. UNCHANGED <<plan, captured, known, tx, admission>>
  BY DEF QuarantineDraft, RestoreSource, CarryLedger, WriteDraftTarget, RestoreTarget, LaunchRecipe,
         LeaveDraft, EditRecipe, SweepDrafts, draftVars, admissionVars, reviewVars, draftSame
<1>2. \/ worker' = worker
      \/ worker' = "restoring" /\ worker = "writing"
      \/ worker' = "idle"
  BY DEF QuarantineDraft, RestoreSource, CarryLedger, WriteDraftTarget, RestoreTarget, LaunchRecipe,
         LeaveDraft, EditRecipe, SweepDrafts, draftVars, admissionVars, reviewVars, draftSame
<1>3. DraftPlanValid' <=> DraftPlanValid
  BY <1>1, DraftPlanStays
<1> QED
  BY <1>1, <1>2, <1>3 DEF DraftCourse, Consolidating

LEMMA JournalCourse ==
    ASSUME DraftCourse,
           \/ VerifyPreconditions \/ TargetsValidated \/ SourcesQuarantined \/ PendEvidence
           \/ CommitDrafts \/ DraftCommitFails \/ Restored \/ RecoverDrafts \/ CarryFails
           \/ DraftsComplete
    PROVE  DraftCourse'
<1> DEFINE Moves == \/ VerifyPreconditions \/ TargetsValidated \/ SourcesQuarantined
                    \/ PendEvidence \/ CommitDrafts \/ Restored
<1>1. UNCHANGED <<plan, captured, known>>
  BY DEF VerifyPreconditions, TargetsValidated, SourcesQuarantined, PendEvidence, CommitDrafts,
         DraftCommitFails, Restored, RecoverDrafts, CarryFails, DraftsComplete, draftSame
<1>2. DraftPlanValid' <=> DraftPlanValid
  BY <1>1, DraftPlanStays
<1>3. tx \in DraftJournal
  BY DEF DraftCourse
<1>4. CASE VerifyPreconditions
  <2>1. \/ worker = "verifying" /\ worker' = "writing" /\ UNCHANGED <<tx, admission>>
        \/ tx' = [tx EXCEPT !.phase = "rolled_back"] /\ ProcessingFails /\ worker = "verifying"
    BY <1>4 DEF VerifyPreconditions
  <2>2. CASE worker = "verifying" /\ worker' = "writing" /\ UNCHANGED <<tx, admission>>
    BY <1>2, <2>2 DEF DraftCourse, Consolidating
  <2>3. CASE tx' = [tx EXCEPT !.phase = "rolled_back"] /\ ProcessingFails /\ worker = "verifying"
    <3>1. tx' \in DraftJournal /\ tx'.phase = "rolled_back" /\ DraftPlanValid
      BY <1>3, <2>3 DEF DraftJournal, DraftCourse
    <3> QED
      BY <1>2, <2>3, <3>1, FailsCourse DEF DraftCourse, Consolidating
  <2> QED
    BY <2>1, <2>2, <2>3
<1>5. CASE TargetsValidated \/ SourcesQuarantined \/ PendEvidence \/ CommitDrafts
  <2>1. /\ UNCHANGED admission /\ tx' \in DraftJournal
        /\ worker \in {"writing", "quarantining", "committing"}
        /\ \/ worker' = "quarantining" /\ tx'.phase = "targets_validated"
           \/ worker' = "committing" /\ tx'.phase \in {"sources_quarantined", "committed_evidence_pending"}
           \/ worker' = "carrying" /\ tx'.phase = "committed"
    BY <1>3, <1>5 DEF TargetsValidated, SourcesQuarantined, PendEvidence, CommitDrafts, DraftJournal
  <2>2. DraftPlanValid /\ admission.phase \notin {"none", "completed"}
    BY <2>1 DEF DraftCourse, Consolidating
  <2> QED
    BY <1>2, <2>1, <2>2 DEF DraftCourse, Consolidating
<1>6. CASE Restored
  <2>1. /\ tx' \in DraftJournal /\ tx'.phase \in {"rollback_required", "rolled_back"}
        /\ ProcessingFails /\ worker = "restoring"
    BY <1>3, <1>6 DEF Restored, DraftJournal
  <2>2. DraftPlanValid
    BY <2>1 DEF DraftCourse
  <2> QED
    BY <1>2, <2>1, <2>2, FailsCourse DEF DraftCourse, Consolidating
<1>7. CASE ProcessingFails /\ UNCHANGED tx
  BY <1>2, <1>7, FailsCourse DEF DraftCourse, Consolidating
<1>8. CASE RecoverDrafts /\ ~ProcessingFails
  <2>1. /\ worker' = IF tx.phase \in {"sources_quarantined", "committed_evidence_pending",
                                      "committed"}
                     THEN "committing" ELSE "restoring"
        /\ UNCHANGED <<admission, tx>> /\ tx.phase \notin {"none", "rolled_back"}
        /\ admission.phase \in {"launched", "processing_failed"}
    BY <1>8 DEF RecoverDrafts, Processable
  <2> QED
    BY <1>2, <1>3, <2>1 DEF DraftCourse, DraftJournal, Consolidating
<1>9. CASE DraftsComplete
  <2>1. /\ worker = "carrying" /\ worker' = "completed" /\ UNCHANGED tx
        /\ admission' \in ReviewState /\ admission'.phase = "completed"
    BY <1>9 DEF DraftsComplete, DraftCourse, ReviewState, ReviewStates
  <2> QED
    BY <1>2, <2>1 DEF DraftCourse, Consolidating
<1> QED
  BY <1>4, <1>5, <1>6, <1>7, <1>8, <1>9 DEF RecoverDrafts, DraftCommitFails, CarryFails

LEMMA StartsCourse ==
    ASSUME DraftCourse,
           \/ CaptureDrafts \/ RetryDrafts \/ \E d \in [Captured -> Decisions] : ApproveDrafts(d)
    PROVE  DraftCourse'
<1>1. CASE CaptureDrafts
  <2>1. tx.phase = "none" /\ worker = "idle" /\ admission.phase = "none"
    BY <1>1 DEF CaptureDrafts, Idle, DraftCourse
  <2>2. CASE UNCHANGED reviewVars
    BY <2>1, <2>2 DEF DraftCourse, reviewVars, Consolidating
  <2>3. CASE /\ admission' = [NoAdmission EXCEPT !.phase = "captured"]
             /\ tx' = NoTx /\ worker' = "launching"
    <3>1. admission' \in ReviewState /\ admission'.phase = "captured"
      BY <2>3 DEF NoAdmission, ReviewState, ReviewStates
    <3>2. tx' \in DraftJournal /\ tx'.phase = "none"
      BY <2>3 DEF NoTx, DraftJournal
    <3> QED
      BY <2>3, <3>1, <3>2 DEF DraftCourse, Consolidating
  <2> QED
    BY <1>1, <2>2, <2>3 DEF CaptureDrafts, NewBatch
<1>2. CASE RetryDrafts
  <2> DEFINE resume == admission.phase = "processing_failed" /\ admission.run /\ tx.phase # "none"
  <2>1. /\ worker = "idle" /\ UNCHANGED <<worker, tx, plan, captured, known>>
        /\ admission' = [admission EXCEPT !.phase = IF resume THEN "launched" ELSE "captured",
                                          !.attempts = 0, !.processing = 0, !.run = resume]
    BY <1>2 DEF RetryDrafts, RetryAs, Idle
  <2>2. resume \in BOOLEAN
    BY DEF DraftCourse, ReviewState
  <2>3. admission' \in ReviewState /\ admission'.phase \in {"launched", "captured"}
    BY <2>1, <2>2 DEF DraftCourse, ReviewState, ReviewStates
  <2>4. DraftPlanValid' <=> DraftPlanValid
    BY <2>1, DraftPlanStays
  <2> QED
    BY <2>1, <2>3, <2>4 DEF DraftCourse, Consolidating
<1>3. CASE \E d \in [Captured -> Decisions] : ApproveDrafts(d)
  <2>1. PICK d \in [Captured -> Decisions] : ApproveDrafts(d)
    BY <1>3
  <2>2. /\ UNCHANGED <<captured, known, admission>> /\ plan' = d /\ ValidDraftResult(d)
        /\ tx' = [NoTx EXCEPT !.phase = "prepared"] /\ worker' = "verifying"
        /\ admission.phase \in {"launched", "processing_failed"}
    BY <2>1 DEF ApproveDrafts, Processable, draftSame
  <2>3. tx' \in DraftJournal /\ tx'.phase = "prepared"
    BY <2>2 DEF NoTx, DraftJournal
  <2> QED
    BY <2>2, <2>3, ApprovedDraftsAreValid DEF DraftCourse, Consolidating
<1> QED
  BY <1>1, <1>2, <1>3

LEMMA CourseStep ==
    ASSUME DraftCourse, resets \in Nat,
           [DraftWork \/ DraftEvent]_draftVars, [NothingRemoved]_draftVars
    PROVE  DraftCourse' /\ resets' \in Nat
<1>0. resets' = resets
  BY DEF NothingRemoved, draftVars, admissionVars, historyVars
<1>1. CASE UNCHANGED draftVars
  BY <1>0, <1>1, OtherCourse
<1>2. ~Reset
  BY <1>0 DEF Reset
<1> QED
  BY <1>0, <1>1, <1>2, TicksCourse, OtherCourse, JournalCourse, StartsCourse DEF DraftWork, DraftEvent

-----------------------------------------------------------------------------
(* What a step leaves of the ledgers.                                      *)

CompletedNow == admission.phase = "completed"

LEMMA BatchStays ==
    ASSUME UNCHANGED <<plan, captured>>
    PROVE  Captured' = Captured /\ DraftSources' = DraftSources
           /\ DraftTargets(plan)' = DraftTargets(plan)
BY DraftTermsStay

LEMMA TargetPaths ==
    ASSUME DraftPlanValid
    PROVE  \A n \in Promoted(plan) : /\ plan[n].target \in Names
                                     /\ Active(plan[n].target) \in DraftTargets(plan)
                                     /\ Active(plan[n].target) \in Paths
BY PathFacts DEF DraftPlanValid, ValidDraftResult, DraftTargets, Promoted, Decisions

\* A step that writes no recipe and no ledger.
LEMMA QuietLedgers ==
    ASSUME LedgersOK, UNCHANGED <<file, usage, plan, captured>>,
           Forward' => Forward, Forward' => (Away' <=> Away), CompletedNow' <=> CompletedNow
    PROVE  LedgersOK'
<1>1. Captured' = Captured /\ DraftSources' = DraftSources
      /\ DraftTargets(plan)' = DraftTargets(plan)
  BY BatchStays
<1>2. ASSUME Forward', NEW q \in usage.index PROVE EntryOK(q)'
  BY <1>1, <1>2 DEF LedgersOK, EntryOK, CompletedNow
<1>3. ASSUME Forward', Away', NEW t \in DraftTargets(plan) PROVE file'[t] # None
  BY <1>3 DEF LedgersOK
<1>4. ASSUME CompletedNow', NEW n \in Captured PROVE CarriedOver(n)'
  BY <1>4 DEF LedgersOK, CarriedOver, CompletedNow, Moved, Stored
<1> QED
  BY <1>1, <1>2, <1>3, <1>4 DEF LedgersOK, CompletedNow

\* A step that writes recipes, and takes away none but drafts of the batch on their
\* way to the quarantine.
LEMMA WritesLedgers ==
    ASSUME FollowInv, UNCHANGED <<usage, plan, captured, tx, admission>>, file' \in Files,
           Forward' => /\ Forward
                       /\ \A p \in Paths : file[p] # None =>
                             \/ file'[p] # None
                             \/ p \in DraftSources \ DraftTargets(plan) /\ Away /\ ~CompletedNow
    PROVE  LedgersOK'
<1> USE DEF FollowInv
<1>1. Captured' = Captured /\ DraftSources' = DraftSources
      /\ DraftTargets(plan)' = DraftTargets(plan)
  BY BatchStays
<1>2. Away' <=> Away
  BY DEF Away
<1>3. ASSUME Forward', NEW q \in usage.index PROVE EntryOK(q)'
  <2>1. q \in Paths
    BY DEF LedgersOK, Usage
  <2> QED
    BY <1>1, <1>2, <1>3, <2>1 DEF LedgersOK, EntryOK, CompletedNow
<1>4. ASSUME Forward', Away', NEW t \in DraftTargets(plan) PROVE file'[t] # None
  <2>1. file[t] # None
    BY <1>2, <1>4 DEF LedgersOK
  <2>2. t \in Paths
    BY <1>2, <1>4, TargetPaths DEF DraftCourse, Away, DraftTargets
  <2> QED
    BY <1>4, <2>1, <2>2
<1>5. ASSUME CompletedNow', NEW n \in Captured PROVE CarriedOver(n)'
  BY <1>5 DEF LedgersOK, CarriedOver, CompletedNow, Moved, Stored
<1> QED
  BY <1>1, <1>2, <1>3, <1>4, <1>5 DEF LedgersOK, CompletedNow

LEMMA TicksLedgers ==
    ASSUME FollowInv, UNCHANGED known,
           \/ TickLaunch \/ LaunchReviewer \/ RecordLaunch \/ LaunchFails
           \/ ReviewFails /\ tx.phase = "none"
           \/ \E how \in {"done", "failed"} : ReviewerEnds(how)
           \/ Crash
    PROVE  LedgersOK'
<1> USE DEF FollowInv
<1>1. UNCHANGED <<file, usage, plan, captured, tx>>
      /\ (worker' = worker \/ worker' \in {"idle", "launching", "launched"})
  BY DEF TickLaunch, LaunchReviewer, RecordLaunch, LaunchFails, ReviewFails, ReviewerEnds, Crash,
         onlyWorker, portfolioVars
<1>2. (Forward' => Forward) /\ (Away' <=> Away)
  BY <1>1 DEF Forward, Away
<1>3. CompletedNow' <=> CompletedNow
  <2>1. CASE UNCHANGED admission
    BY <2>1 DEF CompletedNow
  <2>2. CASE RecordLaunch \/ LaunchFails \/ ReviewFails
    <3>1. admission.phase # "completed"
      BY <2>2 DEF RecordLaunch, LaunchFails, ReviewFails, Processable, DraftCourse
    <3>2. admission'.phase # "completed"
      BY <2>2 DEF RecordLaunch, LaunchFails, ReviewFails, DraftCourse, ReviewState
    <3> QED
      BY <3>1, <3>2 DEF CompletedNow
  <2> QED
    BY <2>1, <2>2 DEF TickLaunch, LaunchReviewer, ReviewerEnds, Crash
<1> QED
  BY <1>1, <1>2, <1>3, QuietLedgers

LEMMA JournalLedgers ==
    ASSUME FollowInv,
           \/ VerifyPreconditions \/ SourcesQuarantined \/ PendEvidence \/ CommitDrafts
           \/ DraftCommitFails \/ Restored \/ RecoverDrafts \/ CarryFails \/ RetryDrafts
           \/ SweepDrafts \/ UNCHANGED draftVars
    PROVE  LedgersOK'
<1> USE DEF FollowInv
<1>1. UNCHANGED <<file, usage, plan, captured>>
  BY DEF VerifyPreconditions, SourcesQuarantined, PendEvidence, CommitDrafts, DraftCommitFails,
         Restored, RecoverDrafts, CarryFails, RetryDrafts, RetryAs, SweepDrafts, draftSame,
         portfolioVars, draftVars, admissionVars, reviewVars
<1>2. tx \in DraftJournal /\ admission \in ReviewState
  BY DEF DraftCourse
<1>3. CASE VerifyPreconditions \/ SourcesQuarantined \/ PendEvidence \/ CommitDrafts \/ Restored
  <2> DEFINE GoesOn == (Forward' => Forward) /\ (Forward' => (Away' <=> Away))
  <2>1. ASSUME VerifyPreconditions PROVE GoesOn
    <3>1. /\ worker = "verifying" /\ tx.phase = "prepared"
          /\ \/ worker' = "writing" /\ UNCHANGED tx
             \/ tx'.phase = "rolled_back" /\ worker' = "idle"
      BY <1>2, <2>1 DEF VerifyPreconditions, ProcessingFails, DraftCourse, DraftJournal
    <3> QED
      BY <3>1 DEF Forward, Away
  <2>2. ASSUME SourcesQuarantined \/ PendEvidence \/ CommitDrafts PROVE GoesOn
    <3>1. /\ tx.phase \in {"targets_validated", "sources_quarantined",
                           "committed_evidence_pending", "committed"}
          /\ worker = "quarantining" \/ tx.phase # "targets_validated"
      BY <2>2 DEF SourcesQuarantined, PendEvidence, CommitDrafts, DraftCourse
    <3>2. tx'.phase \in {"sources_quarantined", "committed_evidence_pending", "committed"}
      BY <1>2, <2>2 DEF SourcesQuarantined, PendEvidence, CommitDrafts, DraftJournal
    <3> QED
      BY <3>1, <3>2 DEF Forward, Away
  <2>3. ASSUME Restored PROVE GoesOn
    <3>1. tx'.phase \in {"rollback_required", "rolled_back"} /\ worker' = "idle"
      BY <1>2, <2>3 DEF Restored, ProcessingFails, DraftJournal
    <3> QED
      BY <3>1 DEF Forward
  <2>4. GoesOn
    BY <1>3, <2>1, <2>2, <2>3
  <2>5. CompletedNow' <=> CompletedNow
    <3>1. worker \in Consolidating
      BY <1>3 DEF VerifyPreconditions, SourcesQuarantined, PendEvidence, CommitDrafts, Restored,
                  Consolidating
    <3>2. CASE UNCHANGED admission
      BY <3>2 DEF CompletedNow
    <3>3. CASE ProcessingFails
      BY <3>1, <3>3, FailsCourse DEF CompletedNow, DraftCourse
    <3> QED
      BY <1>3, <3>2, <3>3 DEF VerifyPreconditions, SourcesQuarantined, PendEvidence, CommitDrafts,
                              Restored
  <2> QED
    BY <1>1, <2>4, <2>5, QuietLedgers
<1>4. CASE \/ DraftCommitFails \/ RecoverDrafts \/ CarryFails \/ RetryDrafts
           \/ SweepDrafts \/ UNCHANGED draftVars
  <2>1. UNCHANGED tx /\ (worker' = worker \/ worker' \in {"idle", "committing", "restoring"})
    BY <1>4 DEF DraftCommitFails, RecoverDrafts, ProcessingFails, CarryFails, RetryDrafts, RetryAs,
                SweepDrafts, draftVars, admissionVars, reviewVars
  <2>2. (Forward' => Forward) /\ (Away' <=> Away)
    BY <2>1 DEF Forward, Away
  <2>3. CompletedNow' <=> CompletedNow
    <3>1. CASE UNCHANGED admission
      BY <3>1 DEF CompletedNow
    <3>2. CASE ProcessingFails /\ (DraftCommitFails \/ RecoverDrafts \/ CarryFails)
      <4>1. admission.phase # "completed"
        BY <3>2 DEF DraftCommitFails, RecoverDrafts, CarryFails, Processable, DraftCourse,
                    Consolidating
      <4> QED
        BY <3>2, <4>1, FailsCourse DEF CompletedNow
    <3>3. CASE RetryDrafts
      BY <1>2, <3>3 DEF RetryDrafts, RetryAs, CompletedNow, ReviewState
    <3> QED
      BY <1>4, <3>1, <3>2, <3>3 DEF DraftCommitFails, RecoverDrafts, CarryFails, SweepDrafts,
                                    draftVars, admissionVars, reviewVars
  <2> QED
    BY <1>1, <2>2, <2>3, QuietLedgers
<1> QED
  BY <1>3, <1>4

LEMMA FilesLedgers ==
    ASSUME FollowInv, file' \in Files,
           \/ \E n \in Names : QuarantineDraft(n) \/ RestoreSource(n)
           \/ \E t \in Paths : \/ WriteDraftTarget(t, TRUE) \/ WriteDraftTarget(t, FALSE)
                               \/ RestoreTarget(t)
           \/ /\ NothingRemoved /\ edits \in Nat
              /\ \E p \in Paths, recipe \in Recipes \cup {None} : EditRecipe(p, recipe)
    PROVE  LedgersOK'
<1> USE DEF FollowInv
<1>1. UNCHANGED <<usage, plan, captured, tx, admission>>
  BY DEF QuarantineDraft, RestoreSource, WriteDraftTarget, RestoreTarget, draftSame, EditRecipe,
         Edit, reviewVars
<1>2. ASSUME NEW n \in Names, QuarantineDraft(n) PROVE LedgersOK'
  <2>1. /\ worker = "quarantining" /\ worker' = worker /\ n \in Captured
        /\ file' = [file EXCEPT ![Draft(n)] = None]
    BY <1>2 DEF QuarantineDraft
  <2>2. Away /\ Forward /\ ~CompletedNow /\ DraftPlanValid
    BY <2>1 DEF DraftCourse, Away, Forward, CompletedNow, Consolidating
  <2>3. Draft(n) \in DraftSources \ DraftTargets(plan)
    BY <2>1, PathFacts DEF DraftSources, DraftTargets
  <2>4. \A p \in Paths : p # Draft(n) => file'[p] = file[p]
    BY <2>1 DEF LedgersOK, Files
  <2> QED
    BY <1>1, <2>2, <2>3, <2>4, WritesLedgers
<1>3. CASE \/ \E n \in Names : RestoreSource(n)
           \/ \E t \in Paths : RestoreTarget(t) \/ WriteDraftTarget(t, FALSE)
  <2>1. /\ worker' = "restoring" /\ worker \in {"writing", "restoring"}
        /\ tx'.phase = tx.phase
    BY <1>1, <1>3 DEF RestoreSource, RestoreTarget, WriteDraftTarget
  <2>2. ~Forward'
    BY <2>1 DEF DraftCourse, Forward
  <2> QED
    BY <1>1, <2>2, WritesLedgers
<1>4. ASSUME NEW t \in Paths, WriteDraftTarget(t, TRUE) PROVE LedgersOK'
  <2>1. /\ worker = "writing" /\ worker' = worker /\ file[t] = None
        /\ file' = [file EXCEPT ![t] = DraftContent(plan, t)]
    BY <1>4 DEF WriteDraftTarget
  <2>2. \A p \in Paths : file[p] # None => file'[p] # None
    BY <2>1 DEF LedgersOK, Files
  <2>3. Forward
    BY <2>1 DEF Forward
  <2> QED
    BY <1>1, <2>2, <2>3, WritesLedgers
<1>5. CASE /\ NothingRemoved /\ edits \in Nat
           /\ \E p \in Paths, recipe \in Recipes \cup {None} : EditRecipe(p, recipe)
  <2>1. edits' = edits + 1 /\ worker' = worker
    BY <1>5 DEF EditRecipe, reviewVars
  <2>2. \A p \in Paths : file[p] # None => file'[p] # None
    BY <1>5, <2>1 DEF NothingRemoved
  <2>3. Forward' <=> Forward
    BY <1>1, <2>1 DEF Forward
  <2> QED
    BY <1>1, <2>2, <2>3, WritesLedgers
<1> QED
  BY <1>2, <1>3, <1>4, <1>5

LEMMA CarryLedgers ==
    ASSUME FollowInv, NEW n \in Names, CarryLedger(n)
    PROVE  LedgersOK'
<1> USE DEF FollowInv
<1>1. /\ worker = "carrying" /\ n \in Captured /\ ~CarryRefused(n)
      /\ UNCHANGED <<file, plan, captured, tx, admission, worker>>
  BY DEF CarryLedger, draftSame
<1>2. Away /\ Forward /\ ~CompletedNow /\ DraftPlanValid
  BY <1>1 DEF DraftCourse, Away, Forward, CompletedNow, Consolidating
<1>3. ASSUME plan[n].action = "promote"
      PROVE  usage' \in Usage /\ \A q \in usage'.index : q \in usage.index \/ file[q] # None
  <2> DEFINE to == Active(plan[n].target)
  <2>1. n \in Promoted(plan)
    BY <1>1, <1>3 DEF Promoted
  <2>2. to \in Paths /\ Draft(n) \in Paths /\ to \in DraftTargets(plan)
    BY <1>2, <2>1, TargetPaths, PathFacts
  <2>3. file[to] # None
    BY <1>2, <2>2 DEF LedgersOK
  <2>4. usage' = MovedUsage(usage, Draft(n), to) /\ ~MoveRefused(usage, Draft(n), to)
    BY <1>1, <1>3 DEF CarryLedger, CarryRefused
  <2> HIDE DEF to
  <2> QED
    BY <2>2, <2>3, <2>4, MoveFacts DEF LedgersOK
<1>4. ASSUME plan[n].action # "promote"
      PROVE  usage' \in Usage /\ \A q \in usage'.index : q \in usage.index \/ file[q] # None
  BY <1>4, RetireFacts DEF CarryLedger, LedgersOK
<1>5. Captured' = Captured /\ DraftSources' = DraftSources
      /\ DraftTargets(plan)' = DraftTargets(plan)
  BY <1>1, BatchStays
<1> QED
  BY <1>1, <1>2, <1>3, <1>4, <1>5 DEF LedgersOK, EntryOK, Away, CompletedNow

LEMMA CompletesLedgers ==
    ASSUME FollowInv, TargetsValidated \/ DraftsComplete
    PROVE  LedgersOK'
<1> USE DEF FollowInv
<1>1. UNCHANGED <<file, usage, plan, captured>>
  BY DEF TargetsValidated, DraftsComplete, draftSame, portfolioVars
<1>2. Captured' = Captured /\ DraftSources' = DraftSources
      /\ DraftTargets(plan)' = DraftTargets(plan)
  BY <1>1, BatchStays
<1>3. CASE TargetsValidated
  <2>1. /\ worker = "writing" /\ \A t \in DraftTargets(plan) : file[t] # None
        /\ UNCHANGED admission
    BY <1>3 DEF TargetsValidated
  <2>2. Forward /\ ~Away /\ ~CompletedNow
    BY <2>1 DEF Forward, Away, DraftCourse, CompletedNow, Consolidating
  <2>3. \A q \in usage.index : file[q] # None
    BY <2>2 DEF LedgersOK, EntryOK
  <2> QED
    BY <1>1, <1>2, <2>1, <2>2, <2>3 DEF LedgersOK, EntryOK, CompletedNow
<1>4. CASE DraftsComplete
  <2>1. worker = "carrying" /\ UNCHANGED tx /\ \A n \in Captured : Carried(n)
    BY <1>4 DEF DraftsComplete
  <2>2. Forward /\ Away
    BY <2>1 DEF Forward, Away, DraftCourse
  <2>3. \A q \in usage.index : file[q] # None
    BY <2>1, <2>2 DEF LedgersOK, EntryOK, DraftSources, Carried
  <2>4. \A n \in Captured : CarriedOver(n)'
    BY <1>1, <2>1 DEF Carried, CarriedOver, Moved, Stored
  <2> QED
    BY <1>1, <1>2, <2>1, <2>2, <2>3, <2>4 DEF LedgersOK, EntryOK, Away
<1> QED
  BY <1>3, <1>4

LEMMA StartsLedgers ==
    ASSUME FollowInv, CaptureDrafts \/ \E d \in [Captured -> Decisions] : ApproveDrafts(d)
    PROVE  LedgersOK'
<1> USE DEF FollowInv
<1>1. tx.phase = "none" /\ ~CompletedNow /\ UNCHANGED file
  BY DEF CaptureDrafts, ApproveDrafts, Processable, DraftCourse, CompletedNow, portfolioVars
<1>2. \A q \in usage.index : file[q] # None
  BY <1>1 DEF LedgersOK, Forward, EntryOK, Away
<1>3. usage' \in Usage /\ \A q \in usage'.index : file[q] # None
  <2>1. CASE CaptureDrafts
    BY <1>2, <2>1, EnsuredFacts DEF CaptureDrafts, DraftsLooked, LedgersOK
  <2>2. CASE \E d \in [Captured -> Decisions] : ApproveDrafts(d)
    BY <1>2, <2>2 DEF ApproveDrafts, portfolioVars, LedgersOK
  <2> QED
    BY <2>1, <2>2
<1>4. ~CompletedNow' /\ tx'.phase \in {"none", "prepared"}
  <2>1. CASE CaptureDrafts
    BY <1>1, <2>1 DEF CaptureDrafts, NewBatch, NoAdmission, NoTx, reviewVars, CompletedNow
  <2>2. CASE \E d \in [Captured -> Decisions] : ApproveDrafts(d)
    BY <1>1, <2>2 DEF ApproveDrafts, NoTx, CompletedNow
  <2> QED
    BY <2>1, <2>2
<1> QED
  BY <1>1, <1>3, <1>4 DEF LedgersOK, EntryOK, Away, CompletedNow

\* A launch that is counted, of a recipe that is there or was just left.
LEMMA LaunchedLedgers ==
    ASSUME FollowInv, UNCHANGED <<plan, captured, tx, admission, worker>>, file' \in Files,
           \A p \in Paths : file[p] # None => file'[p] # None,
           NEW p \in Paths, ~LaunchRefused(file', usage, p), usage' = Launched(file', usage, p)
    PROVE  LedgersOK'
<1> USE DEF FollowInv
<1>1. /\ usage' \in Usage
      /\ \A q \in usage'.index : q \in usage.index \/ file'[q] # None
      /\ (\A q \in usage.index : file'[q] # None) =>
            \A q : Stored(usage, q) # None => Stored(usage, q)' # None
  <2>1. usage \in Usage
    BY DEF LedgersOK
  <2> QED
    BY <2>1, LaunchFacts DEF Stored
<1>2. Captured' = Captured /\ DraftSources' = DraftSources
      /\ DraftTargets(plan)' = DraftTargets(plan)
  BY BatchStays
<1>3. (Forward' <=> Forward) /\ (Away' <=> Away) /\ (CompletedNow' <=> CompletedNow)
  BY DEF Forward, Away, CompletedNow
<1>4. ASSUME Forward, NEW q \in usage.index
      PROVE  file'[q] # None \/ (q \in DraftSources /\ Away /\ ~CompletedNow)
  <2>1. q \in Paths
    BY DEF LedgersOK, Usage
  <2> QED
    BY <1>4, <2>1 DEF LedgersOK, EntryOK, CompletedNow
<1>5. ASSUME Forward', NEW q \in usage'.index PROVE EntryOK(q)'
  BY <1>1, <1>2, <1>3, <1>4, <1>5 DEF EntryOK, CompletedNow
<1>6. ASSUME Forward', Away', NEW t \in DraftTargets(plan) PROVE file'[t] # None
  <2>1. file[t] # None /\ t \in Paths
    BY <1>3, <1>6, TargetPaths DEF LedgersOK, DraftCourse, Away, DraftTargets
  <2> QED
    BY <2>1
<1>7. ASSUME CompletedNow, NEW n \in Captured PROVE CarriedOver(n)'
  <2>1. Forward
    BY <1>7 DEF DraftCourse, CompletedNow, Forward
  <2>2. \A q : Stored(usage, q) # None => Stored(usage, q)' # None
    BY <1>1, <1>4, <1>7, <2>1
  <2>3. CarriedOver(n)
    BY <1>7 DEF LedgersOK, CompletedNow
  <2> QED
    BY <2>2, <2>3 DEF CarriedOver, Moved, Stored
<1> QED
  BY <1>1, <1>2, <1>3, <1>5, <1>6, <1>7 DEF LedgersOK, CompletedNow

-----------------------------------------------------------------------------
(* Every step.                                                             *)

LEMMA FolderTypesStep ==
    ASSUME PortfolioTypes, DraftCourse, [DraftWork \/ DraftEvent]_draftVars
    PROVE  PortfolioTypes'
<1>1. CASE UNCHANGED txFiles
  BY <1>1 DEF PortfolioTypes, txFiles
<1>2. CASE CaptureDrafts
  <2>1. UNCHANGED <<file, portfolio, edits>>
    BY <1>2 DEF CaptureDrafts
  <2>2. CASE UNCHANGED reviewVars
    BY <2>1, <2>2 DEF PortfolioTypes, reviewVars
  <2>3. CASE \E batch \in SUBSET Candidates(usage) :
                NewBatch([n \in Names |-> IF n \in batch THEN file[Draft(n)] ELSE None])
    <3>1. \A n \in Names : file[Draft(n)] \in Recipes \cup {None}
      BY PathFacts DEF PortfolioTypes, Files
    <3> QED
      BY <2>1, <2>3, <3>1 DEF NewBatch, PortfolioTypes, Originals
  <2> QED
    BY <1>2, <2>2, <2>3 DEF CaptureDrafts
<1>3. ASSUME NEW n \in Names, QuarantineDraft(n) \/ RestoreSource(n) PROVE PortfolioTypes'
  <2>1. /\ UNCHANGED <<portfolio, captured, edits>>
        /\ file[Draft(n)] \in Recipes \cup {None} /\ quarantine[n] \in Recipes \cup {None}
    BY <1>3, PathFacts
       DEF QuarantineDraft, RestoreSource, draftSame, historyVars, PortfolioTypes, Files, Originals
  <2> QED
    BY <1>3, <2>1 DEF QuarantineDraft, RestoreSource, PortfolioTypes, Files, Originals
<1>4. ASSUME NEW t \in Paths,
             WriteDraftTarget(t, TRUE) \/ WriteDraftTarget(t, FALSE) \/ RestoreTarget(t)
      PROVE  PortfolioTypes'
  <2>1. UNCHANGED <<portfolio, captured, quarantine, edits>>
    BY <1>4 DEF WriteDraftTarget, RestoreTarget, draftSame, historyVars
  <2>2. CASE RestoreTarget(t)
    BY <2>1, <2>2 DEF RestoreTarget, PortfolioTypes, Files
  <2>3. CASE WriteDraftTarget(t, TRUE) \/ WriteDraftTarget(t, FALSE)
    <3>1. /\ worker = "writing" /\ t \in DraftTargets(plan)
          /\ file' = [file EXCEPT ![t] = DraftContent(plan, t)]
      BY <2>3 DEF WriteDraftTarget
    <3>2. PlanFits
      BY <3>1, DraftPlanFacts DEF DraftCourse
    <3> QED
      BY <2>1, <3>1, <3>2 DEF PlanFits, PortfolioTypes, Files
  <2> QED
    BY <1>4, <2>2, <2>3
<1>5. CASE CommitDrafts
  <2>1. /\ UNCHANGED <<file, captured, quarantine, edits>> /\ worker = "committing"
        /\ portfolio' \in {portfolio, DraftsPlanned}
    BY <1>5 DEF CommitDrafts, draftSame, historyVars
  <2>2. PlanFits
    BY <2>1, DraftPlanFacts DEF DraftCourse
  <2>3. DraftsPlanned \in Files
    BY <2>2 DEF DraftsPlanned, PlanFits, PortfolioTypes, Files
  <2> QED
    BY <2>1, <2>3 DEF PortfolioTypes
<1>6. CASE SweepDrafts
  BY <1>6 DEF SweepDrafts, draftSame, historyVars, portfolioVars, PortfolioTypes, Originals
<1>7. ASSUME NEW n \in Names, NEW recipe \in Templates, LeaveDraft(n, recipe)
      PROVE  PortfolioTypes'
  <2>1. recipe \in Recipes
    BY TemplatesAssumption
  <2>2. /\ UNCHANGED <<captured, quarantine, edits>>
        /\ file' = [file EXCEPT ![Draft(n)] = recipe]
        /\ portfolio' = [portfolio EXCEPT ![Draft(n)] = recipe]
    BY <1>7 DEF LeaveDraft, SpawnDraft, reviewVars, historyVars
  <2> QED
    BY <2>1, <2>2 DEF PortfolioTypes, Files
<1>8. ASSUME NEW p \in Paths, NEW recipe \in Recipes \cup {None}, EditRecipe(p, recipe)
      PROVE  PortfolioTypes'
  BY <1>8 DEF EditRecipe, Edit, reviewVars, PortfolioTypes, Files
<1>9. CASE \E d \in [Captured -> Decisions] : ApproveDrafts(d)
  BY <1>9 DEF ApproveDrafts, draftSame, historyVars, portfolioVars, PortfolioTypes
<1>10. CASE UNCHANGED draftVars
  BY <1>10 DEF draftVars, admissionVars, portfolioVars, reviewVars, historyVars, PortfolioTypes
<1>11. CASE \/ TickLaunch \/ LaunchReviewer \/ RecordLaunch \/ LaunchFails
            \/ ReviewFails \/ (\E how \in {"done", "failed"} : ReviewerEnds(how))
            \/ Crash \/ Reset \/ RetryDrafts \/ (\E p \in Paths : LaunchRecipe(p))
  BY <1>1, <1>11 DEF TickLaunch, LaunchReviewer, RecordLaunch, LaunchFails, ReviewFails,
         ReviewerEnds, Crash, Reset, RetryDrafts, RetryAs, LaunchRecipe, Launch, onlyWorker,
         portfolioVars, reviewVars, historyVars, txFiles
<1>12. CASE \/ VerifyPreconditions \/ TargetsValidated \/ SourcesQuarantined \/ PendEvidence
            \/ DraftCommitFails \/ Restored \/ RecoverDrafts \/ CarryFails \/ DraftsComplete
            \/ (\E n \in Names : CarryLedger(n))
  BY <1>1, <1>12 DEF VerifyPreconditions, TargetsValidated, SourcesQuarantined, PendEvidence,
         DraftCommitFails, Restored, RecoverDrafts, CarryFails, DraftsComplete, CarryLedger,
         draftSame, portfolioVars, historyVars, txFiles
<1> QED
  BY <1>2, <1>3, <1>4, <1>5, <1>6, <1>7, <1>8, <1>9, <1>10, <1>11, <1>12
  DEF DraftWork, DraftEvent

LEMMA LedgersStep ==
    ASSUME FollowInv, PortfolioTypes, PortfolioTypes', resets \in Nat,
           [DraftWork \/ DraftEvent]_draftVars, [NothingRemoved]_draftVars
    PROVE  LedgersOK'
<1>1. file \in Files /\ file' \in Files /\ edits \in Nat
  BY DEF PortfolioTypes
<1>2. CASE UNCHANGED draftVars
  BY <1>2, JournalLedgers
<1>3. CASE NothingRemoved /\ ~UNCHANGED draftVars
  <2>1. ~Reset
    BY <1>3 DEF NothingRemoved, Reset
  <2>2. CASE \E p \in Paths : LaunchRecipe(p)
    <3>1. PICK p \in Paths : LaunchRecipe(p)
      BY <2>2
    <3>2. /\ UNCHANGED <<file, plan, captured, tx, admission, worker>>
          /\ ~LaunchRefused(file, usage, p) /\ usage' = Launched(file, usage, p)
      BY <3>1 DEF LaunchRecipe, Launch, reviewVars
    <3> QED
      BY <1>1, <3>2, LaunchedLedgers
  <2>3. CASE \E n \in Names, recipe \in Templates : LeaveDraft(n, recipe)
    <3>1. PICK n \in Names, recipe \in Templates : LeaveDraft(n, recipe)
      BY <2>3
    <3>2. /\ UNCHANGED <<plan, captured, tx, admission, worker>> /\ Draft(n) \in Paths
          /\ file[Draft(n)] = None /\ file' = [file EXCEPT ![Draft(n)] = recipe]
          /\ \/ UNCHANGED usage
             \/ /\ ~LaunchRefused(file', usage, Draft(n))
                /\ usage' = Launched(file', usage, Draft(n))
      BY <3>1, PathFacts DEF LeaveDraft, SpawnDraft, reviewVars
    <3>3. \A p \in Paths : file[p] # None => file'[p] # None
      BY <1>1, <3>2 DEF Files
    <3>4. CASE UNCHANGED usage
      <4>1. Forward' <=> Forward
        BY <3>2 DEF Forward
      <4> QED
        BY <1>1, <3>2, <3>3, <3>4, <4>1, WritesLedgers
    <3> QED
      BY <1>1, <3>2, <3>3, <3>4, LaunchedLedgers
  <2>4. CASE \E n \in Names : CarryLedger(n)
    BY <2>4, CarryLedgers
  <2>5. CASE \/ \E n \in Names : QuarantineDraft(n) \/ RestoreSource(n)
             \/ \E t \in Paths : \/ WriteDraftTarget(t, TRUE) \/ WriteDraftTarget(t, FALSE)
                                 \/ RestoreTarget(t)
             \/ \E p \in Paths, recipe \in Recipes \cup {None} : EditRecipe(p, recipe)
    BY <1>1, <1>3, <2>5, FilesLedgers
  <2> QED
    BY <1>3, <2>1, <2>2, <2>3, <2>4, <2>5, TicksLedgers, JournalLedgers, CompletesLedgers,
       StartsLedgers DEF DraftWork, DraftEvent
<1> QED
  BY <1>2, <1>3

\* A draft that was promoted by a completed review keeps its ledger under its new
\* name, through launches, spawns, edits and crashes, as long as the operator
\* removes no recipe and resets no review: a lineage follows a recipe that was
\* removed to where its content is launched next (moveRecipeUsage,
\* retireRecipeUsage, recordRecipeLaunch).
THEOREM LineageAlwaysFollows ==
    DraftSpec /\ [][NothingRemoved]_draftVars => []LineageFollows
<1> DEFINE Inv == FollowInv /\ PortfolioTypes /\ resets \in Nat
<1>1. PortfolioInit /\ DraftInit => Inv
  <2> SUFFICES ASSUME PortfolioInit, DraftInit PROVE Inv
    OBVIOUS
  <2>1. PortfolioTypes
    BY DEF PortfolioInit, DraftInit, AdmissionInit, PortfolioTypes, Files, Originals
  <2>2. usage \in Usage /\ usage.index = {}
    BY DEF PortfolioInit, Usage
  <2>3. DraftCourse
    BY DEF DraftInit, AdmissionInit, DraftCourse, NoAdmission, NoTx, ReviewState, ReviewStates,
           DraftJournal, Consolidating
  <2>4. ~Away /\ ~CompletedNow /\ resets \in Nat
    BY DEF DraftInit, AdmissionInit, Away, NoTx, CompletedNow, NoAdmission
  <2> QED
    BY <2>1, <2>2, <2>3, <2>4 DEF FollowInv, LedgersOK, CompletedNow, PortfolioTypes
<1>2. Inv /\ [DraftWork \/ DraftEvent]_draftVars /\ [NothingRemoved]_draftVars => Inv'
  BY CourseStep, FolderTypesStep, LedgersStep DEF FollowInv
<1>3. Inv => LineageFollows
  <2> SUFFICES ASSUME Inv, CompletedNow, NEW n \in Captured
               PROVE  /\ plan[n].action = "promote" => Stored(usage, Active(plan[n].target)) # None
                      /\ plan[n].action = "discard" /\ file[Draft(n)] = None
                            => Draft(n) \notin usage.index
    BY DEF LineageFollows, CompletedNow
  <2>1. Forward /\ CarriedOver(n)
    BY DEF FollowInv, LedgersOK, DraftCourse, CompletedNow, Forward
  <2>2. \A q \in usage.index : file[q] # None
    BY <2>1 DEF FollowInv, LedgersOK, EntryOK, CompletedNow
  <2> QED
    BY <2>1, <2>2 DEF CarriedOver, Moved
<1> QED
  BY <1>1, <1>2, <1>3, PTL DEF DraftSpec
=============================================================================
