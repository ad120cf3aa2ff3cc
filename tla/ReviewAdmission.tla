--------------------------- MODULE ReviewAdmission ---------------------------
(***************************************************************************)
(* What the review of the active tools and the review of the drafts have   *)
(* in common: a batch is captured, a reviewer Run is launched over it, and *)
(* its result is processed when no Run is active any more; the state file  *)
(* says how far it got (tool-review-scheduler.ts, draft-sleep.ts), and the *)
(* operator can have it retried or reset (review-control.ts).              *)
(*                                                                         *)
(* All of it runs under the lock of the state file, so one worker stands   *)
(* for the process that has the lock; Crash is its death at any step.      *)
(***************************************************************************)
EXTENDS RecipePortfolio

CONSTANTS
    Threshold,      \* recipes in a batch (36 tools, 12 drafts)
    AttemptLimit    \* attempts to launch, and to process (3 in the code)

ASSUME AdmissionAssumption == Threshold \in Nat \ {0} /\ AttemptLimit \in Nat \ {0}

VARIABLES
    admission,      \* the state file
    captured,       \* input.json: the recipes of the batch
    reviewer,       \* the Run that reviews it
    plan,           \* what was approved: a decision for each of them
    quarantine,     \* the quarantine folder of the batch
    tx,             \* journal.json of the transaction
    worker,         \* what the process with the lock is doing
    crashes,        \* history: processes that died
    edits,          \* history: recipes the operator wrote or removed
    resets,         \* history: reviews the operator reset
    reviewers,      \* history: reviewers launched since the attempts were reset
    abandoned       \* history: what is left in the quarantine of batches that were reset

reviewVars == <<admission, captured, reviewer, plan, quarantine, tx, worker>>
historyVars == <<crashes, edits, resets, reviewers, abandoned>>
admissionVars == <<portfolioVars, reviewVars, historyVars>>

\* run, approved, evidence: whether the state names a Run, an approved plan,
\* the evidence of a committed transaction.
NoAdmission == [phase |-> "none", attempts |-> 0, processing |-> 0,
                run |-> FALSE, approved |-> FALSE, evidence |-> FALSE]
NoTx == [phase |-> "none", taken |-> {}, written |-> {}, stale |-> FALSE]
NoPlan == [n \in {} |-> None]

\* Of a tool: keep, demote, evolve, merge.  Of a draft: promote, discard.
Decisions == [action : {"keep", "demote", "evolve", "merge", "promote", "discard"},
              target : Names \cup {None}]

Captured == {n \in Names : captured[n] # None}
Idle == worker = "idle"

-----------------------------------------------------------------------------
\* The batch, its plan and its journals are in a new folder.
NewBatch(batch) ==
    /\ captured' = batch
    /\ admission' = [NoAdmission EXCEPT !.phase = "captured"]
    /\ reviewer' = "none" /\ reviewers' = 0
    /\ plan' = NoPlan /\ tx' = NoTx
    /\ quarantine' = [n \in Names |-> None]
    /\ abandoned' = abandoned \cup ({quarantine[n] : n \in Names} \ {None})
    /\ worker' = "launching"

onlyWorker == UNCHANGED <<portfolioVars, captured, plan, quarantine, tx, crashes, edits, resets, abandoned>>

\* A tick finds no active Run.
TickLaunch ==
    /\ Idle /\ admission.phase \in {"captured", "failed"}
    /\ admission.attempts < AttemptLimit
    /\ reviewer # "running"
    /\ worker' = "launching"
    /\ UNCHANGED <<admission, reviewer, reviewers>> /\ onlyWorker

\* The Run is started before the state says so.
LaunchReviewer ==
    /\ worker = "launching"
    /\ reviewer' = "running" /\ reviewers' = reviewers + 1
    /\ worker' = "launched"
    /\ UNCHANGED admission /\ onlyWorker

\* Mutant: the attempt is not counted.
RecordLaunchUncounted ==
    /\ worker = "launched"
    /\ admission' = [admission EXCEPT !.phase = "launched", !.run = TRUE]
    /\ worker' = "idle"
    /\ UNCHANGED <<reviewer, reviewers>> /\ onlyWorker

RecordLaunch ==
    /\ worker = "launched"
    /\ admission' = [admission EXCEPT !.phase = "launched", !.attempts = @ + 1, !.run = TRUE]
    /\ worker' = "idle"
    /\ UNCHANGED <<reviewer, reviewers>> /\ onlyWorker

LaunchFails ==
    /\ worker = "launching"
    /\ admission' = [admission EXCEPT !.phase = "failed", !.attempts = @ + 1]
    /\ worker' = "idle"
    /\ UNCHANGED <<reviewer, reviewers>> /\ onlyWorker

ReviewerEnds(how) ==
    /\ reviewer = "running" /\ reviewer' = how
    /\ UNCHANGED <<admission, worker, reviewers>> /\ onlyWorker

\* A tick that processes: the state says launched or that it failed before.
Processable ==
    /\ Idle /\ admission.phase \in {"launched", "processing_failed"}
    /\ admission.processing < AttemptLimit
    /\ reviewer # "running"

\* There is a Run that ended well, and its output may be a valid result.
Reviewed == admission.run /\ reviewer = "done"

ReviewFails ==
    /\ Processable
    /\ admission' = [admission EXCEPT !.phase = "failed", !.run = FALSE]
    /\ UNCHANGED <<reviewer, worker, reviewers>> /\ onlyWorker

\* The process with the lock dies; the next one finds what is on disk.
Crash ==
    /\ ~Idle
    /\ worker' = "idle" /\ crashes' = crashes + 1
    /\ UNCHANGED <<portfolioVars, admission, captured, reviewer, plan, quarantine, tx,
                   edits, resets, reviewers, abandoned>>

-----------------------------------------------------------------------------
(* The operator (review-control.ts, and an editor).                        *)

RetryAs(phase, run) ==
    /\ Idle /\ admission.phase \in {"failed", "processing_failed"}
    /\ admission' = [admission EXCEPT !.phase = phase, !.attempts = 0, !.processing = 0,
                                      !.run = run]
    /\ reviewers' = 0
    /\ UNCHANGED <<portfolioVars, captured, reviewer, plan, quarantine, tx, worker,
                   crashes, edits, resets, abandoned>>

\* A state that names evidence of a tool review is not removed; nothing in the
\* state of a draft review says that it has any.
Reset ==
    /\ Idle /\ admission.phase \in {"completed", "failed", "processing_failed"}
    /\ ~admission.approved /\ ~admission.evidence
    /\ admission' = NoAdmission /\ resets' = resets + 1
    /\ UNCHANGED <<portfolioVars, captured, reviewer, plan, quarantine, tx, worker,
                   crashes, edits, reviewers, abandoned>>

\* An editor takes no lock; it is not so fast that it writes between two steps
\* of a process that has it.
EditRecipe(p, recipe) ==
    /\ Idle
    /\ Edit(p, recipe) /\ edits' = edits + 1
    /\ UNCHANGED <<reviewVars, crashes, resets, reviewers, abandoned>>

-----------------------------------------------------------------------------
AdmissionInit ==
    /\ admission = NoAdmission
    /\ captured = [n \in Names |-> None]
    /\ reviewer = "none"
    /\ plan = NoPlan
    /\ quarantine = [n \in Names |-> None]
    /\ tx = NoTx
    /\ worker = "idle"
    /\ crashes = 0 /\ edits = 0 /\ resets = 0 /\ reviewers = 0 /\ abandoned = {}

\* A batch costs no more reviewers than attempts are allowed, and one for every
\* process that died between the launch and the record of it
\* (createToolReviewScheduler, createDraftSleepScheduler).
LaunchesBounded == reviewers <= AttemptLimit + crashes

\* A recipe that the user has is where it belongs or in the quarantine of a
\* review, wherever a review was interrupted and whatever undid it
\* (rollback, restoreJournal).
NothingLost ==
    \A p \in Paths :
        \/ portfolio[p] \in {None, file[p], quarantine[Name(p)]}
        \/ portfolio[p] \in abandoned

\* A transaction that is over has left either every recipe as it was or every
\* decision carried out: rolled_back and committed say what the files hold
\* (rollback, commitEvidence, restoreJournal, verifyCommitState).  Only what the
\* operator removed a second time may come back from the quarantine.
OverIsWhole ==
    tx.phase \in {"rolled_back", "committed"} /\ abandoned = {} =>
        \A p \in Paths : file[p] = portfolio[p] \/ (edits > 0 /\ portfolio[p] = None)

\* What was put in quarantine is there again: nothing removes either of them.
DraftInTheWay ==
    \E n \in DOMAIN plan : /\ plan[n].action \in {"promote", "discard"}
                           /\ file[Draft(n)] # None /\ quarantine[n] # None

\* A transaction that was begun is over some time later: after a crash the next
\* session, or the next tick, finishes or undoes it
\* (recoverToolReviewTransaction, recoverDraftConsolidationCycle).  What the
\* operator changed meanwhile may stop it, and a draft that a spawn leaves
\* where one was taken away.
TransactionsEnd ==
    tx.phase \notin {"none", "rolled_back", "committed", "rollback_required"}
        ~> \/ tx.phase \in {"rolled_back", "committed", "rollback_required"}
           \/ edits > 0 \/ DraftInTheWay
=============================================================================
