------------------------------ MODULE ToolReview ------------------------------
(***************************************************************************)
(* The automatic review of the active tools.  A reviewer proposes what     *)
(* becomes of each tool; the next session applies the approved plan to the *)
(* recipe files under a journal (tool-review-transaction.ts) and then      *)
(* carries the ledgers over under a second one                             *)
(* (tool-review-lineage-transaction.ts).  Each file that is written, moved *)
(* or removed is a step.                                                   *)
(***************************************************************************)
EXTENDS ReviewAdmission

CONSTANT
    InPlace         \* whether a reviewer proposes the name a tool has already

ASSUME InPlaceAssumption == InPlace \in BOOLEAN

VARIABLES
    lin             \* the lineage journal

toolVars == <<admissionVars, lin>>

NoLineage == [phase |-> "none"]

-----------------------------------------------------------------------------
(* Admission (tool-review-scheduler.ts).                                   *)

\* listEligibleToolReviewRecipes looks at every active recipe, and so gives
\* each a ledger.
Looked(u) == EnsuredAll(file, u, "active")

Eligible(u) ==
    {n \in Names : ~EnsureRefused(file, u, Active(n)) /\ ~ReviewedNow(Looked(u), Active(n))}

TickCapture ==
    /\ Idle /\ admission.phase \in {"none", "completed"}
    /\ usage' = Looked(usage)
    /\ IF Cardinality(Eligible(usage)) < Threshold
       THEN UNCHANGED <<reviewVars, reviewers, abandoned, lin>>
       ELSE /\ \E batch \in {b \in SUBSET Eligible(usage) : Cardinality(b) = Threshold} :
                  NewBatch([n \in Names |-> IF n \in batch THEN file[Active(n)] ELSE None])
            /\ lin' = NoLineage
    /\ UNCHANGED <<file, portfolio, calls, forgotten, crashes, edits, resets>>

\* validateToolReviewResult.
Group(d, t) == {n \in Captured : d[n].action = "merge" /\ d[n].target = t}
Evolved(d) == {n \in Captured : d[n].action = "evolve"}

ValidResult(d) ==
    /\ \A n \in Captured : d[n].action \in {"keep", "demote", "evolve", "merge"}
    /\ \A n \in Captured : (d[n].target = None) <=> d[n].action \in {"keep", "demote"}
    /\ \A n \in Evolved(d) :
          /\ d[n].target \notin Captured \ {n}
          /\ \A m \in Evolved(d) \ {n} : d[m].target # d[n].target
          /\ Group(d, d[n].target) = {}
    /\ \A t \in Names :
          LET group == Group(d, t) IN
          group # {} => /\ Cardinality(group) >= 2
                        /\ t \in Captured => t \in group
                        /\ \A n, m \in group : captured[n] = captured[m]
    /\ ~InPlace => \A n \in Captured : d[n].target \notin Captured

\* What the decision on a tool writes, and with what.
TargetOf(d, n) == IF d[n].action = "demote" THEN Draft(n) ELSE Active(d[n].target)
Changed(d) == {n \in Captured : d[n].action # "keep"}
Targets(d) == {TargetOf(d, n) : n \in Changed(d)}
Sources(d, t) == {n \in Changed(d) : TargetOf(d, n) = t}
Content(d, t) == captured[CHOOSE n \in Sources(d, t) : TRUE]
Expected(t) == IF t \in {Active(n) : n \in Captured} THEN captured[Name(t)] ELSE None

\* The plan can be approved: nothing changed since the capture, and nothing is
\* where a target goes.
Unchanged(d) ==
    /\ \A n \in Captured : file[Active(n)] = captured[n]
    /\ \A t \in Targets(d) : file[t] = Expected(t)

\* processToolReviewResult, and what the scheduler writes of it.
\* A plan that is approved again is another file: the journal of the first no
\* longer fits it.
Approve(d) ==
    /\ Processable /\ Reviewed /\ ValidResult(d)
    /\ IF Unchanged(d)
       THEN /\ plan' = d
            /\ tx' = [tx EXCEPT !.stale = tx.phase # "none"]
            /\ admission' = [admission EXCEPT !.phase = "approved", !.approved = TRUE]
       ELSE /\ admission' = [admission EXCEPT !.phase = "processing_failed", !.processing = @ + 1]
            /\ UNCHANGED <<plan, tx>>
    /\ UNCHANGED <<portfolioVars, captured, reviewer, quarantine, worker, historyVars, lin>>

-----------------------------------------------------------------------------
(* The session boundary (applyApprovedToolReviewAtSessionBoundary).        *)

BoundaryFails ==
    /\ admission' = [admission EXCEPT !.phase = "processing_failed"]
    /\ worker' = "idle"

\* Mutant: a plan that has a journal is not taken up again.
BoundaryStepOnce ==
    IF tx.phase = "none" /\ Unchanged(plan)
    THEN /\ tx' = [NoTx EXCEPT !.phase = "prepared"]
         /\ worker' = "applying" /\ UNCHANGED admission
    ELSE BoundaryFails /\ UNCHANGED tx

\* What a session does first with an approved plan.
BoundaryStep ==
    IF tx.phase = "none"
    THEN IF Unchanged(plan)
         THEN /\ tx' = [NoTx EXCEPT !.phase = "prepared"]
              /\ worker' = "applying" /\ UNCHANGED admission
         ELSE BoundaryFails /\ UNCHANGED tx
    ELSE /\ UNCHANGED tx
         /\ IF tx.stale \/ tx.phase = "rollback_required" THEN BoundaryFails
            ELSE /\ worker' = IF tx.phase \in {"targets_written", "committed"}
                              THEN "committing" ELSE "undo_targets"
                 /\ UNCHANGED admission

BoundaryStart ==
    /\ Idle /\ admission.phase \in {"approved", "lineage_pending"}
    /\ BoundaryStep
    /\ UNCHANGED <<portfolioVars, captured, reviewer, plan, quarantine, historyVars, lin>>

\* The last thing a session does with a review, or the first thing the next
\* one does.
SweepQuarantine ==
    /\ worker \in {"idle", "completed"} /\ admission.phase = "completed"
    /\ quarantine' = [n \in Names |-> None]
    /\ worker' = "idle"
    /\ UNCHANGED <<portfolioVars, admission, captured, reviewer, plan, tx, historyVars, lin>>

-----------------------------------------------------------------------------
(* The transaction (applyToolReviewPlan, recoverToolReviewTransaction).    *)

txUnchanged ==
    UNCHANGED <<usage, portfolio, calls, forgotten, captured, reviewer, plan, historyVars, lin>>

\* Every move is in the journal before it is made.
JournalSource(n) ==
    /\ worker = "applying" /\ tx.phase = "prepared"
    /\ n \in Changed(plan) \ tx.taken
    /\ \A m \in tx.taken : quarantine[m] # None
    /\ tx' = [tx EXCEPT !.taken = @ \cup {n}]
    /\ UNCHANGED <<file, quarantine, admission, worker>> /\ txUnchanged

QuarantineSource(n) ==
    /\ worker = "applying" /\ tx.phase = "prepared"
    /\ n \in tx.taken /\ quarantine[n] = None
    /\ quarantine' = [quarantine EXCEPT ![n] = file[Active(n)]]
    /\ file' = [file EXCEPT ![Active(n)] = None]
    /\ UNCHANGED <<tx, admission, worker>> /\ txUnchanged

SourcesDone ==
    /\ worker = "applying" /\ tx.phase = "prepared"
    /\ tx.taken = Changed(plan) /\ \A n \in tx.taken : quarantine[n] # None
    /\ tx' = [tx EXCEPT !.phase = "sources_quarantined"]
    /\ UNCHANGED <<file, quarantine, admission, worker>> /\ txUnchanged

JournalTarget(t) ==
    /\ worker = "applying" /\ tx.phase = "sources_quarantined"
    /\ t \in Targets(plan) \ tx.written
    /\ \A s \in tx.written : file[s] # None
    /\ tx' = [tx EXCEPT !.written = @ \cup {t}]
    /\ UNCHANGED <<file, quarantine, admission, worker>> /\ txUnchanged

\* A target that cannot be read as a recipe where it is written ends the
\* attempt: a reference to another file may not resolve from there.
WriteTarget(t, readable) ==
    /\ worker = "applying" /\ tx.phase = "sources_quarantined"
    /\ t \in tx.written /\ file[t] = None
    /\ file' = [file EXCEPT ![t] = Content(plan, t)]
    /\ worker' = IF readable THEN "applying" ELSE "undo_targets"
    /\ UNCHANGED <<tx, quarantine, admission>> /\ txUnchanged

TargetsDone ==
    /\ worker = "applying" /\ tx.phase = "sources_quarantined"
    /\ tx.written = Targets(plan) /\ \A t \in tx.written : file[t] # None
    /\ tx' = [tx EXCEPT !.phase = "targets_written"]
    /\ worker' = "committing"
    /\ UNCHANGED <<file, quarantine, admission>> /\ txUnchanged

\* commitEvidence finds every target written, every source away or replaced,
\* and every original in quarantine.
Whole ==
    /\ \A t \in Targets(plan) : file[t] = Content(plan, t)
    /\ \A n \in Changed(plan) :
          /\ quarantine[n] = captured[n]
          /\ Active(n) \notin Targets(plan) => file[Active(n)] = None

\* What the files hold when the plan is carried out.
Planned ==
    [p \in Paths |->
       IF p \in Targets(plan) THEN Content(plan, p)
       ELSE IF p \in {Active(n) : n \in Changed(plan)} THEN None ELSE portfolio[p]]

Commit ==
    /\ worker = "committing" /\ Whole
    /\ tx' = [tx EXCEPT !.phase = "committed"]
    /\ portfolio' = IF tx.phase = "committed" THEN portfolio ELSE Planned
    /\ worker' = "committed"
    /\ UNCHANGED <<file, usage, calls, forgotten, admission, captured, reviewer, plan,
                   quarantine, historyVars, lin>>

\* Found otherwise on recovery: the journal stays as it is.
CommitFails ==
    /\ worker = "committing" /\ ~Whole
    /\ BoundaryFails
    /\ UNCHANGED <<file, tx, quarantine>> /\ txUnchanged

RollbackRequired ==
    /\ tx' = [tx EXCEPT !.phase = "rollback_required"]
    /\ BoundaryFails

\* rollback: targets that were written are removed, then sources come back.
UndoTarget(t) ==
    /\ worker = "undo_targets"
    /\ t \in tx.written /\ file[t] # None
    /\ IF file[t] = Content(plan, t)
       THEN file' = [file EXCEPT ![t] = None] /\ UNCHANGED <<tx, admission, worker>>
       ELSE RollbackRequired /\ UNCHANGED file
    /\ UNCHANGED quarantine /\ txUnchanged

\* Mutant: sources come back while targets are still there.
TargetsUndoneEarly ==
    /\ worker = "undo_targets"
    /\ worker' = "undo_sources"
    /\ UNCHANGED <<file, tx, quarantine, admission>> /\ txUnchanged

TargetsUndone ==
    /\ worker = "undo_targets" /\ \A t \in tx.written : file[t] = None
    /\ worker' = "undo_sources"
    /\ UNCHANGED <<file, tx, quarantine, admission>> /\ txUnchanged

Home(n) == file[Active(n)] = captured[n] /\ quarantine[n] = None

UndoSource(n) ==
    /\ worker = "undo_sources"
    /\ n \in tx.taken /\ ~Home(n)
    /\ IF file[Active(n)] = None /\ quarantine[n] = captured[n]
       THEN /\ file' = [file EXCEPT ![Active(n)] = quarantine[n]]
            /\ quarantine' = [quarantine EXCEPT ![n] = None]
            /\ UNCHANGED <<tx, admission, worker>>
       ELSE RollbackRequired /\ UNCHANGED <<file, quarantine>>
    /\ txUnchanged

RolledBack ==
    /\ worker = "undo_sources" /\ \A n \in tx.taken : Home(n)
    /\ tx' = [tx EXCEPT !.phase = "rolled_back", !.written = {}]
    /\ BoundaryFails
    /\ UNCHANGED <<file, quarantine>> /\ txUnchanged

-----------------------------------------------------------------------------
(* The ledgers (finalizeToolReviewLineage).                                *)

PendLineage ==
    /\ worker = "committed"
    /\ admission' = [admission EXCEPT !.phase = "lineage_pending", !.evidence = TRUE]
    /\ worker' = "finalizing"
    /\ UNCHANGED <<file, tx, quarantine>> /\ txUnchanged

Record(n) == Stored(usage, Active(n))
Kept == {n \in Captured : plan[n].action = "keep"}

\* reviewedRecord, continuedRecord.
\* Mutant: a tool that is kept is not marked.
ReviewedLedgerAsWas(l) == l

ReviewedLedger(l) == [l EXCEPT !.reviewed = @ \cup {l.fingerprint}]

\* Mutant: the launches of one source only.
ContinuedLedgerOfOne(t) ==
    [NewLedger(t, Content(plan, t), Record(CHOOSE n \in Sources(plan, t) : TRUE).calls)
       EXCEPT !.reviewed = {Content(plan, t)}]

ContinuedLedger(t) ==
    LET sources == Sources(plan, t) IN
    [path |-> t,
     fingerprint |-> Content(plan, t),
     calls |-> MapThenSumSet(LAMBDA n : Record(n).calls, sources),
     reviewed |-> UNION {Record(n).reviewed : n \in sources} \cup {Content(plan, t)},
     demoted |-> IF t[1] = "drafts" THEN Content(plan, t) ELSE None]

\* The ledgers to write and to delete, what they are now and what they become.
NewLineage ==
    LET writes == Kept \cup {Name(t) : t \in Targets(plan)}
        left == {Record(n).path : n \in Captured}
        entered == {Record(n).path : n \in Kept} \cup Targets(plan)
    IN [phase |-> "prepared",
        writes |-> writes,
        deletes |-> Changed(plan) \ writes,
        from |-> usage,
        to |-> [index |-> (usage.index \ left) \cup entered,
                ledger |-> [n \in Names |->
                              IF n \in Kept THEN ReviewedLedger(Record(n))
                              ELSE IF n \in writes
                              THEN ContinuedLedger(CHOOSE t \in Targets(plan) : Name(t) = n)
                              ELSE None]]]

linUnchanged ==
    UNCHANGED <<file, portfolio, calls, captured, reviewer, plan, quarantine, tx,
                historyVars>>

\* The journal is derived from the ledgers as they are; the sources of a merge
\* are added up, and a ledger that the target has of its own is not among them.
DeriveLineage ==
    /\ worker = "finalizing" /\ lin.phase = "none"
    /\ \A n \in Captured : Record(n) # None
    /\ lin' = NewLineage
    /\ forgotten' = forgotten + CallsIn(usage, NewLineage.writes \ Captured)
    /\ worker' = "rolling"
    /\ UNCHANGED <<usage, admission>> /\ linUnchanged

ResumeLineage ==
    /\ worker = "finalizing" /\ lin.phase # "none"
    /\ worker' = IF lin.phase = "committed" THEN "finalized" ELSE "rolling"
    /\ UNCHANGED <<usage, admission, lin, forgotten>> /\ linUnchanged

Fits(n) == usage.ledger[n] \in {lin.from.ledger[n], lin.to.ledger[n]}

\* A source has no ledger, or a file is neither what it was nor what it becomes.
LineageFails ==
    /\ \/ /\ worker = "finalizing" /\ lin.phase = "none"
          /\ \E n \in Captured : Record(n) = None
       \/ /\ worker = "rolling"
          /\ \/ \E n \in lin.writes \cup lin.deletes : ~Fits(n)
             \/ usage.index \notin {lin.from.index, lin.to.index}
    /\ worker' = "idle"
    /\ UNCHANGED <<usage, admission, lin, forgotten>> /\ linUnchanged

WriteLedger(n) ==
    /\ worker = "rolling"
    /\ n \in lin.writes /\ Fits(n) /\ usage.ledger[n] # lin.to.ledger[n]
    /\ usage' = [usage EXCEPT !.ledger[n] = lin.to.ledger[n]]
    /\ UNCHANGED <<admission, lin, worker, forgotten>> /\ linUnchanged

WriteIndex ==
    /\ worker = "rolling"
    /\ \A n \in lin.writes : usage.ledger[n] = lin.to.ledger[n]
    /\ usage.index = lin.from.index /\ usage.index # lin.to.index
    /\ usage' = [usage EXCEPT !.index = lin.to.index]
    /\ UNCHANGED <<admission, lin, worker, forgotten>> /\ linUnchanged

Entered == usage.index = lin.to.index /\ \A n \in lin.writes : usage.ledger[n] = lin.to.ledger[n]

DeleteLedger(n) ==
    /\ worker = "rolling" /\ Entered
    /\ n \in lin.deletes /\ Fits(n) /\ usage.ledger[n] # None
    /\ usage' = [usage EXCEPT !.ledger[n] = None]
    /\ UNCHANGED <<admission, lin, worker, forgotten>> /\ linUnchanged

CommitLineage ==
    /\ worker = "rolling" /\ Entered /\ \A n \in lin.deletes : usage.ledger[n] = None
    /\ lin' = [lin EXCEPT !.phase = "committed"]
    /\ worker' = "finalized"
    /\ UNCHANGED <<usage, admission, forgotten>> /\ linUnchanged

Complete ==
    /\ worker = "finalized"
    /\ admission' = [admission EXCEPT !.phase = "completed"]
    /\ worker' = "completed"
    /\ UNCHANGED <<usage, lin, forgotten>> /\ linUnchanged

-----------------------------------------------------------------------------
Retry ==
    /\ RetryAs(IF ~admission.approved THEN "captured"
               ELSE IF admission.evidence THEN "lineage_pending" ELSE "approved", FALSE)
    /\ UNCHANGED lin

\* A launch waits for the lock of the recipe folder, held while a plan is
\* carried out or undone, and for that of the index, held while ledgers are.
LaunchTool(p) ==
    /\ worker \notin {"applying", "committing", "undo_targets", "undo_sources", "rolling"}
    /\ Launch(p)
    /\ UNCHANGED <<reviewVars, historyVars, lin>>

-----------------------------------------------------------------------------
ToolInit == AdmissionInit /\ lin = NoLineage

Admit ==
    \/ (TickLaunch \/ LaunchReviewer \/ RecordLaunch) /\ UNCHANGED lin
    \/ ~Reviewed /\ ReviewFails /\ UNCHANGED lin
    \/ TickCapture
    \/ \E d \in [Captured -> Decisions] : Approve(d)

Transact ==
    \/ \E n \in Names : JournalSource(n) \/ QuarantineSource(n) \/ UndoSource(n)
    \/ \E t \in Paths : JournalTarget(t) \/ UndoTarget(t) \/ WriteTarget(t, TRUE)
    \/ SourcesDone \/ TargetsDone \/ Commit \/ CommitFails \/ TargetsUndone \/ RolledBack

Finalize ==
    \/ PendLineage \/ DeriveLineage \/ ResumeLineage \/ LineageFails
    \/ \E n \in Names : WriteLedger(n) \/ DeleteLedger(n)
    \/ WriteIndex \/ CommitLineage \/ Complete \/ SweepQuarantine

\* What the sessions of the extension do, and what happens to them.
ToolWork == Admit \/ BoundaryStart \/ Transact \/ Finalize
ToolEvent ==
    \/ (LaunchFails \/ ReviewFails \/ Reset \/ Crash) /\ UNCHANGED lin
    \/ \E how \in {"done", "failed"} : ReviewerEnds(how) /\ UNCHANGED lin
    \/ \E t \in Paths : WriteTarget(t, FALSE)
    \/ Retry
    \/ \E p \in Paths : LaunchTool(p)
    \/ \E p \in Paths, recipe \in Recipes \cup {None} : EditRecipe(p, recipe) /\ UNCHANGED lin

ToolSpec == PortfolioInit /\ ToolInit /\ [][ToolWork \/ ToolEvent]_toolVars

-----------------------------------------------------------------------------
\* The launches of every recipe are still counted after demotions, renames and
\* merges, at whatever moment a process died; only a ledger that the name of a
\* merged recipe got by a launch before its ledger was written is lost
\* (deriveJournal, rollForward, recordRecipeLaunch).
CallsKept == lin.phase # "prepared" => Counted(usage) + forgotten = calls

\* A tool that a completed review kept, renamed or merged is not offered to the
\* next one as long as its content is the same (continuedRecord,
\* isCurrentRecipeRevisionReviewed).  It fails where a tool is edited, launched
\* and edited back while it is under review: reviewedRecord marks the content of
\* the last launch, not the one that was reviewed.
ReviewedOnce ==
    admission.phase = "completed" =>
        \A n \in {m \in Captured : plan[m].action \in {"keep", "evolve", "merge"}} :
            LET p == IF n \in Kept THEN Active(n) ELSE TargetOf(plan, n) IN
            file[p] = captured[n] => Name(p) \notin Eligible(usage)
=============================================================================
