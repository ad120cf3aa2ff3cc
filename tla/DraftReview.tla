------------------------------ MODULE DraftReview ------------------------------
(***************************************************************************)
(* The automatic review of the drafts that spawns leave (draft-sleep.ts):  *)
(* a reviewer proposes which to promote to active tools and which to       *)
(* discard, and the tick that finds its result applies it under a journal  *)
(* (draft-consolidation-transaction.ts), moves or retires their ledgers,   *)
(* and sweeps the quarantine.                                              *)
(***************************************************************************)
EXTENDS ReviewAdmission

CONSTANT
    Templates       \* contents of the recipes that are spawned

ASSUME TemplatesAssumption == Templates \subseteq Recipes

VARIABLE
    known           \* input.json: the names of the active tools

draftVars == <<admissionVars, known>>

-----------------------------------------------------------------------------
(* Capture.                                                                *)

\* draftFromRecord looks at every draft, and so gives each a ledger if its name
\* is free.
DraftsLooked(u) == EnsuredAll(file, u, "drafts")

\* A draft that a review demoted waits for a change of its content.
Waits(u, p) == Stored(u, p) # None /\ Stored(u, p).demoted = Stored(u, p).fingerprint

Candidates(u) == {n \in Names : file[Draft(n)] # None /\ ~Waits(DraftsLooked(u), Draft(n))}

CaptureDrafts ==
    /\ Idle /\ admission.phase = "none"
    /\ usage' = DraftsLooked(usage)
    /\ IF Cardinality(Candidates(usage)) < Threshold
       THEN UNCHANGED <<reviewVars, reviewers, abandoned, known>>
       ELSE /\ \E batch \in {b \in SUBSET Candidates(usage) : Cardinality(b) = Threshold} :
                  NewBatch([n \in Names |-> IF n \in batch THEN file[Draft(n)] ELSE None])
            /\ known' = {n \in Names : file[Active(n)] # None}
    /\ UNCHANGED <<file, portfolio, calls, forgotten, crashes, edits, resets>>

-----------------------------------------------------------------------------
(* The plan.                                                               *)

Promoted(d) == {n \in Captured : d[n].action = "promote"}
DraftTargets(d) == {Active(d[n].target) : n \in Promoted(d)}
DraftContent(d, t) == captured[CHOOSE n \in Promoted(d) : Active(d[n].target) = t]

\* validateDraftReviewResult, validateDraftConsolidationPlan.
ValidDraftResult(d) ==
    /\ \A n \in Captured : d[n].action \in {"promote", "discard"}
    /\ \A n \in Captured : (d[n].target = None) <=> d[n].action = "discard"
    /\ \A n \in Promoted(d) :
          /\ d[n].target \notin known
          /\ \A m \in Promoted(d) \ {n} : d[m].target # d[n].target

draftSame == UNCHANGED <<captured, reviewer, historyVars, known>>

ProcessingFails ==
    /\ admission' = [admission EXCEPT !.phase = "processing_failed", !.processing = @ + 1]
    /\ worker' = "idle"

\* The journal, with the plan in it, is written before anything is checked.
ApproveDrafts(d) ==
    /\ Processable /\ tx.phase = "none" /\ Reviewed /\ ValidDraftResult(d)
    /\ plan' = d
    /\ tx' = [NoTx EXCEPT !.phase = "prepared"]
    /\ worker' = "verifying"
    /\ UNCHANGED <<portfolioVars, admission, quarantine>> /\ draftSame

VerifyPreconditions ==
    /\ worker = "verifying"
    /\ IF /\ \A n \in Captured : file[Draft(n)] = captured[n]
          /\ \A t \in DraftTargets(plan) : file[t] = None
       THEN worker' = "writing" /\ UNCHANGED <<tx, admission>>
       ELSE tx' = [tx EXCEPT !.phase = "rolled_back"] /\ ProcessingFails
    /\ UNCHANGED <<portfolioVars, plan, quarantine>> /\ draftSame

-----------------------------------------------------------------------------
(* applyDraftConsolidationPlan.                                            *)

\* A target that does not read as a recipe where it is written undoes it all.
WriteDraftTarget(t, readable) ==
    /\ worker = "writing" /\ t \in DraftTargets(plan) /\ file[t] = None
    /\ file' = [file EXCEPT ![t] = DraftContent(plan, t)]
    /\ worker' = IF readable THEN "writing" ELSE "restoring"
    /\ UNCHANGED <<usage, portfolio, calls, forgotten, admission, plan, tx, quarantine>> /\ draftSame

TargetsValidated ==
    /\ worker = "writing" /\ \A t \in DraftTargets(plan) : file[t] # None
    /\ tx' = [tx EXCEPT !.phase = "targets_validated"]
    /\ worker' = "quarantining"
    /\ UNCHANGED <<portfolioVars, admission, plan, quarantine>> /\ draftSame

QuarantineDraft(n) ==
    /\ worker = "quarantining" /\ n \in Captured /\ file[Draft(n)] = captured[n]
    /\ quarantine' = [quarantine EXCEPT ![n] = file[Draft(n)]]
    /\ file' = [file EXCEPT ![Draft(n)] = None]
    /\ UNCHANGED <<usage, portfolio, calls, forgotten, admission, plan, tx, worker>> /\ draftSame

SourcesQuarantined ==
    /\ worker = "quarantining" /\ \A n \in Captured : quarantine[n] # None
    /\ tx' = [tx EXCEPT !.phase = "sources_quarantined"]
    /\ worker' = "committing"
    /\ UNCHANGED <<portfolioVars, admission, plan, quarantine>> /\ draftSame

\* verifyCommitState.
DraftsWhole ==
    /\ \A n \in Captured : file[Draft(n)] = None /\ quarantine[n] = captured[n]
    /\ \A t \in DraftTargets(plan) : file[t] = DraftContent(plan, t)

\* What the files hold when the plan is carried out.
DraftsPlanned ==
    [p \in Paths |->
       IF p \in DraftTargets(plan) THEN DraftContent(plan, p)
       ELSE IF p \in {Draft(n) : n \in Captured} THEN None ELSE portfolio[p]]

PendEvidence ==
    /\ worker = "committing" /\ tx.phase = "sources_quarantined" /\ DraftsWhole
    /\ tx' = [tx EXCEPT !.phase = "committed_evidence_pending"]
    /\ UNCHANGED <<portfolioVars, admission, plan, quarantine, worker>> /\ draftSame

CommitDrafts ==
    /\ worker = "committing" /\ tx.phase \in {"committed_evidence_pending", "committed"}
    /\ DraftsWhole
    /\ tx' = [tx EXCEPT !.phase = "committed"]
    /\ portfolio' = IF tx.phase = "committed" THEN portfolio ELSE DraftsPlanned
    /\ worker' = "carrying"
    /\ UNCHANGED <<file, usage, calls, forgotten, admission, plan, quarantine>> /\ draftSame

\* On recovery: the journal says that it is to be finished, and it cannot be.
DraftCommitFails ==
    /\ worker = "committing" /\ ~DraftsWhole
    /\ ProcessingFails
    /\ UNCHANGED <<portfolioVars, plan, tx, quarantine>> /\ draftSame

-----------------------------------------------------------------------------
(* restoreJournal: all that can be put back is, whatever cannot.           *)

\* Mutant: what a spawn left meanwhile is written over.
RestorableOver(n) == quarantine[n] = captured[n]

Restorable(n) == file[Draft(n)] = None /\ quarantine[n] = captured[n]
SourceAmiss(n) ==
    \/ file[Draft(n)] \notin {None, captured[n]}
    \/ quarantine[n] \notin {None, captured[n]}
    \/ file[Draft(n)] = None /\ quarantine[n] = None
TargetAmiss(t) == file[t] \notin {None, DraftContent(plan, t)}

RestoreSource(n) ==
    /\ worker = "restoring" /\ n \in Captured /\ Restorable(n)
    /\ file' = [file EXCEPT ![Draft(n)] = quarantine[n]]
    /\ quarantine' = [quarantine EXCEPT ![n] = None]
    /\ UNCHANGED <<usage, portfolio, calls, forgotten, admission, plan, tx, worker>> /\ draftSame

RestoreTarget(t) ==
    /\ worker = "restoring" /\ \A n \in Captured : ~Restorable(n)
    /\ t \in DraftTargets(plan) /\ file[t] = DraftContent(plan, t)
    /\ file' = [file EXCEPT ![t] = None]
    /\ UNCHANGED <<usage, portfolio, calls, forgotten, admission, plan, tx, quarantine, worker>>
    /\ draftSame

Restored ==
    /\ worker = "restoring"
    /\ \A n \in Captured : ~Restorable(n)
    /\ \A t \in DraftTargets(plan) : file[t] # DraftContent(plan, t)
    /\ tx' = [tx EXCEPT !.phase =
                IF \/ \E n \in Captured : SourceAmiss(n)
                   \/ \E t \in DraftTargets(plan) : TargetAmiss(t)
                THEN "rollback_required" ELSE "rolled_back"]
    /\ ProcessingFails
    /\ UNCHANGED <<portfolioVars, plan, quarantine>> /\ draftSame

\* recoverDraftConsolidationCycle: a tick that finds a journal does not look at
\* the reviewer any more.
RecoverDrafts ==
    /\ Processable /\ tx.phase # "none"
    /\ IF tx.phase = "rolled_back" THEN ProcessingFails
       ELSE /\ worker' = IF tx.phase \in {"sources_quarantined", "committed_evidence_pending",
                                          "committed"}
                         THEN "committing" ELSE "restoring"
            /\ UNCHANGED admission
    /\ UNCHANGED <<portfolioVars, plan, tx, quarantine>> /\ draftSame

-----------------------------------------------------------------------------
(* completeDraftSleepTransaction: the ledgers, then the state.             *)

CarryRefused(n) ==
    plan[n].action = "promote" /\ MoveRefused(usage, Draft(n), Active(plan[n].target))

\* Mutant: done when the draft has left the index.
CarriedAway(n) == Draft(n) \notin usage.index

Carried(n) ==
    /\ Draft(n) \notin usage.index
    /\ plan[n].action = "promote" => Moved(usage, Active(plan[n].target))

CarryLedger(n) ==
    /\ worker = "carrying" /\ n \in Captured /\ ~Carried(n) /\ ~CarryRefused(n)
    /\ IF plan[n].action = "promote"
       THEN usage' = MovedUsage(usage, Draft(n), Active(plan[n].target)) /\ UNCHANGED forgotten
       ELSE usage' = Retired(usage, Draft(n)) /\ forgotten' = forgotten + CallsIn(usage, {n})
    /\ UNCHANGED <<file, portfolio, calls, admission, plan, tx, quarantine, worker>> /\ draftSame

CarryFails ==
    /\ worker = "carrying" /\ \E n \in Captured : CarryRefused(n)
    /\ ProcessingFails
    /\ UNCHANGED <<portfolioVars, plan, tx, quarantine>> /\ draftSame

\* The state says completed before the quarantine is swept.
DraftsComplete ==
    /\ worker = "carrying" /\ \A n \in Captured : Carried(n)
    /\ admission' = [admission EXCEPT !.phase = "completed"]
    /\ worker' = "completed"
    /\ UNCHANGED <<portfolioVars, plan, tx, quarantine>> /\ draftSame

\* Also what a tick does that finds the state completed, and all it does.
SweepDrafts ==
    /\ worker \in {"idle", "completed"} /\ admission.phase = "completed"
    /\ quarantine' = [n \in Names |-> None]
    /\ worker' = "idle"
    /\ UNCHANGED <<portfolioVars, admission, plan, tx>> /\ draftSame

-----------------------------------------------------------------------------
\* A transaction that was begun is resumed, without another reviewer.
RetryDrafts ==
    /\ LET resume == admission.phase = "processing_failed" /\ admission.run /\ tx.phase # "none"
       IN RetryAs(IF resume THEN "launched" ELSE "captured", resume)
    /\ UNCHANGED known

\* A launch takes the locks of the recipe folder and of the index, and an apply
\* those of the draft folder and of the files: they do not exclude each other.
LaunchRecipe(p) == Launch(p) /\ UNCHANGED <<reviewVars, historyVars, known>>

\* A draft is left under the lock of the draft folder.
LeaveDraft(n, recipe) ==
    /\ worker \notin {"verifying", "writing", "quarantining", "committing", "restoring"}
    /\ SpawnDraft(n, recipe)
    /\ UNCHANGED <<reviewVars, historyVars, known>>

DraftInit == AdmissionInit /\ known = {}

\* What the ticks of the sessions do.
DraftWork ==
    \/ (TickLaunch \/ LaunchReviewer \/ RecordLaunch) /\ UNCHANGED known
    \/ ~Reviewed /\ ReviewFails /\ tx.phase = "none" /\ UNCHANGED known
    \/ CaptureDrafts \/ VerifyPreconditions \/ TargetsValidated \/ SourcesQuarantined
    \/ \E d \in [Captured -> Decisions] : ApproveDrafts(d)
    \/ \E t \in Paths : WriteDraftTarget(t, TRUE) \/ RestoreTarget(t)
    \/ \E n \in Names : QuarantineDraft(n) \/ RestoreSource(n) \/ CarryLedger(n)
    \/ PendEvidence \/ CommitDrafts \/ DraftCommitFails \/ Restored \/ RecoverDrafts
    \/ CarryFails \/ DraftsComplete \/ SweepDrafts

\* What happens to them.
DraftEvent ==
    \/ (LaunchFails \/ Crash \/ Reset) /\ UNCHANGED known
    \/ ReviewFails /\ tx.phase = "none" /\ UNCHANGED known
    \/ \E how \in {"done", "failed"} : ReviewerEnds(how) /\ UNCHANGED known
    \/ \E t \in Paths : WriteDraftTarget(t, FALSE)
    \/ RetryDrafts
    \/ \E p \in Paths : LaunchRecipe(p)
    \/ \E n \in Names, recipe \in Templates : LeaveDraft(n, recipe)
    \/ \E p \in Paths, recipe \in Recipes \cup {None} : EditRecipe(p, recipe) /\ UNCHANGED known

DraftSpec == PortfolioInit /\ DraftInit /\ [][DraftWork \/ DraftEvent]_draftVars

-----------------------------------------------------------------------------
\* A draft that was promoted by a completed review keeps its ledger under its
\* new name, and a discarded one leaves none (moveRecipeUsage, retireRecipeUsage).
\* It fails where launches follow a reset, or the removal of a recipe: what it
\* was called goes to the next launched recipe of the same content.
LineageFollows ==
    admission.phase = "completed" =>
        \A n \in Captured :
            /\ plan[n].action = "promote" => Stored(usage, Active(plan[n].target)) # None
            /\ plan[n].action = "discard" /\ file[Draft(n)] = None => Draft(n) \notin usage.index
=============================================================================
