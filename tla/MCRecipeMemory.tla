--------------------------- MODULE MCRecipeMemory ---------------------------
(***************************************************************************)
(* Bounded instances of the two reviews of recipes.  Each behaviour is one *)
(* review over its own folder; which one is chosen at the start.           *)
(***************************************************************************)
EXTENDS ToolReview, DraftReview, TLC

CONSTANTS
    n1, n2, n3,     \* names
    r, s, e,        \* contents of the recipes there are, and of what is edited
    Scenarios,      \* "tools", "drafts"
    MaxCrashes, MaxCalls, MaxEdits, MaxResets

VARIABLE scenario

MCNames == {n1, n2, n3}
MCRecipes == {r, s, e}
MCTemplates == {s}

vars == <<toolVars, known, scenario>>

\* Where the recipes to review are, and which of them were launched before.
At(n) == IF scenario = "tools" THEN Active(n) ELSE Draft(n)
Before == IF scenario = "tools" THEN {n1} ELSE {n1, n2}

\* Two recipes to review: the same tool under two names, or two drafts.
Init ==
    /\ scenario \in Scenarios
    /\ file = [p \in Paths |->
                 IF p = At(n1) THEN r
                 ELSE IF p = At(n2) THEN (IF scenario = "tools" THEN r ELSE s) ELSE None]
    /\ portfolio = file
    /\ usage = [index |-> {At(n) : n \in Before},
                ledger |-> [n \in Names |-> IF n \in Before THEN NewLedger(At(n), file[At(n)], 1)
                                             ELSE None]]
    /\ calls = Counted(usage) /\ forgotten = 0
    /\ ToolInit /\ DraftInit

Launches == calls - Cardinality(Before)

\* The operator edits, or resets, or recipes are launched; what is edited is not
\* what a review writes.
Bounds ==
    /\ crashes' <= MaxCrashes /\ edits' <= MaxEdits /\ resets' <= MaxResets
    /\ Launches' <= MaxCalls
    /\ \/ (edits = 0 /\ resets = 0)'
       \/ (edits = 0 /\ Launches = 0)'
       \/ (resets = 0 /\ Launches = 0)'
    /\ edits' # edits => \A p \in Paths : file'[p] \in {None, e, file[p]}

Tools(A) == scenario = "tools" /\ A /\ UNCHANGED <<known, scenario>> /\ Bounds
Drafts(A) == scenario = "drafts" /\ A /\ UNCHANGED <<lin, scenario>> /\ Bounds

Next ==
    \/ Tools(ToolWork) \/ Tools(ToolEvent)
    \/ Drafts(DraftWork) \/ Drafts(DraftEvent)

\* Sessions go on being opened, and ticks coming.
Spec ==
    /\ Init /\ [][Next]_vars
    /\ WF_vars(Tools(BoundaryStart)) /\ WF_vars(Tools(Transact))
    /\ WF_vars(Drafts(DraftWork))
=============================================================================
