----------------------------- MODULE MCRecipes -----------------------------
(***************************************************************************)
(* What becomes of a Recipe: its references are resolved in the process    *)
(* that launches it, and the runner executes the template that comes out.  *)
(* The two share no state but that template, of which each sees its own    *)
(* side, so a behaviour is one of the part that was chosen at the start.   *)
(***************************************************************************)
EXTENDS MCRecipeReferences, MCTemplateExecution

VARIABLE part

\* Only the part that is chosen has anything to do.
RecipesInit ==
    /\ part \in {"references", "execution"}
    /\ IF part = "references" THEN ReferencesInit
       ELSE recipes = <<>> /\ calls = <<>> /\ outcome = "none" /\ launched = Unbound
    /\ IF part = "execution" THEN ExecutionInit
       ELSE /\ program = NoTemplate /\ frames = <<>> /\ final = NoExecution
            /\ fatal = {}

RecipesNext ==
    /\ UNCHANGED part
    /\ \/ part = "references" /\ ReferencesNext /\ UNCHANGED executionVars
       \/ part = "execution" /\ ExecutionNext /\ UNCHANGED referenceVars

RecipesSpec ==
    /\ RecipesInit
    /\ [][RecipesNext]_<<part, referenceVars, executionVars>>
    /\ WF_executionVars(part = "execution" /\ ExecutionNext)
=============================================================================
