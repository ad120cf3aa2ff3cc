-------------------------- MODULE RecipeReferences --------------------------
(***************************************************************************)
(* Resolution of a Recipe file, with the Recipes it imports and those it   *)
(* delegates to, into the template that a Run is launched with.            *)
(* lib/recipes-references.ts, lib/async-runs.ts, lib/tools-local.ts.       *)
(*                                                                         *)
(* readResolvedRecipeConfig calls itself for every reference of a file:    *)
(* one file is read at a time, and a throw anywhere refuses the launch.    *)
(* A Recipe has one name to be bound, a parameter, and what it is bound to *)
(* is the place that binds it.  Syntax, types, the resolution of paths,    *)
(* recipe_dir and skill_dir, and import expressions are left out; a        *)
(* singleton Recipe is owned by a Skill.                                   *)
(***************************************************************************)
EXTENDS Naturals, Sequences, FiniteSets, SequencesExt

CONSTANTS
    Portfolios,     \* the Recipe files that there may be, by name
    Entry,          \* the file that is launched
    MaxDepth,       \* MAX_RECIPE_IMPORT_DEPTH
    Unbound

ASSUME ReferencesAssumption ==
    /\ MaxDepth \in Nat \ {0}
    /\ \A portfolio \in Portfolios : Entry \in DOMAIN portfolio

VARIABLES
    recipes,    \* the files
    calls,      \* the calls of readResolvedRecipeConfig that have not returned
    outcome,    \* "reading", "refused" or "launched"
    launched    \* the Recipe as it is launched

referenceVars == <<recipes, calls, outcome, launched>>

-----------------------------------------------------------------------------
(* Authored Recipes.                                                       *)

\* A node runs a command, an import by its alias, or another file.
Node(kind, of) == [kind |-> kind, of |-> of, defaults |-> FALSE, values |-> FALSE]
Import(from) == [from |-> from, defaults |-> FALSE, values |-> FALSE]

\* A template is a single node (`direct') or steps; <<>> is a file without
\* one, or one that cannot be read.
Recipe(direct, template, imports) ==
    [direct |-> direct, template |-> template, imports |-> imports,
     defaults |-> FALSE, values |-> FALSE, disabled |-> FALSE, singleton |-> FALSE]

Imports(f) == recipes[f].imports
Body(f) == recipes[f].template
Delegations(f) == SelectSeq(Body(f), LAMBDA node : node.kind = "recipe")

\* The files that readResolvedRecipeConfig reads for f, in its order.
References(f) ==
    [i \in DOMAIN Imports(f) |-> Imports(f)[i].from]
        \o [i \in DOMAIN Delegations(f) |-> Delegations(f)[i].of]

AliasesKnown(f) ==
    \A k \in DOMAIN Body(f) :
        Body(f)[k].kind = "import" => Body(f)[k].of \in DOMAIN Imports(f)

-----------------------------------------------------------------------------
(* Bindings.                                                               *)

Place(f, node, alias, layer) ==
    [file |-> f, node |-> node, alias |-> alias, layer |-> layer]

Bound(authored, place) == IF authored THEN place ELSE Unbound

\* mergeDefaults: a later layer goes over an earlier one.
Over(below, above) == IF above # Unbound THEN above ELSE below
Layers(layers) == FoldLeft(Over, Unbound, layers)

OwnDefaults(f) == Bound(recipes[f].defaults, Place(f, 0, 0, "defaults"))
OwnValues(f) == Bound(recipes[f].values, Place(f, 0, 0, "values"))

\* getRecipeCommandTemplate puts the defaults of the file on a single node.
NodeDefaults(f, k) ==
    Over(IF recipes[f].direct THEN OwnDefaults(f) ELSE Unbound,
         Bound(Body(f)[k].defaults, Place(f, k, 0, "defaults")))
NodeValues(f, k) == Bound(Body(f)[k].values, Place(f, k, 0, "values"))

-----------------------------------------------------------------------------
(* Resolved Recipes.  A resolved template binds names at its root, and its *)
(* commands bind them again, each for itself.  A command knows the nodes   *)
(* that lead to it.                                                        *)

\* What the reading of f got for a node.
Imported(f, got, k) == got[Body(f)[k].of]
Delegated(f, got, k) ==
    got[Len(Imports(f)) + Len(SelectSeq(SubSeq(Body(f), 1, k),
                                        LAMBDA node : node.kind = "recipe"))]

\* Mutant: the bindings of an import are those of the first alias.
BindingLayersOfFirst(f, k) ==
    <<Bound(Imports(f)[1].defaults, Place(f, 0, 1, "defaults")),
      Bound(Imports(f)[1].values, Place(f, 0, 1, "values"))>>

\* The binding that an import is declared with.  The values that the imported
\* Recipe declares itself are dropped.
BindingLayers(f, k) ==
    LET alias == Body(f)[k].of
    IN  <<Bound(Imports(f)[alias].defaults, Place(f, 0, alias, "defaults")),
          Bound(Imports(f)[alias].values, Place(f, 0, alias, "values"))>>

\* expandImportNodes.
ImportedBinding(f, got, k) ==
    LET imported == Imported(f, got, k)
    IN  Layers(<<imported.root, imported.defaults>> \o BindingLayers(f, k)
                \o <<NodeDefaults(f, k), NodeValues(f, k)>>)

\* applyDelegatedRecipeToNode.
DelegatedBinding(f, got, k) ==
    LET delegated == Delegated(f, got, k)
    IN  Layers(<<delegated.root, delegated.defaults, delegated.values,
                 NodeDefaults(f, k), NodeValues(f, k)>>)

NodeBinding(f, got, k) ==
    CASE Body(f)[k].kind = "command" -> NodeDefaults(f, k)
      [] Body(f)[k].kind = "import" -> ImportedBinding(f, got, k)
      [] Body(f)[k].kind = "recipe" -> DelegatedBinding(f, got, k)

\* The commands of a node, reached through it.
NodeCommands(f, got, k) ==
    LET kind == Body(f)[k].kind
        inner == CASE kind = "command" -> <<[line |-> <<>>, bound |-> Unbound]>>
                   [] kind = "import" -> Imported(f, got, k).commands
                   [] kind = "recipe" -> Delegated(f, got, k).commands
    IN  [i \in DOMAIN inner |->
            [inner[i] EXCEPT !.line = <<[file |-> f, node |-> k]>> \o @]]

\* Among steps, what binds at the root of a node binds beneath the file's root.
StepCommands(f, got, k) ==
    LET commands == NodeCommands(f, got, k)
    IN  [i \in DOMAIN commands |->
            [commands[i] EXCEPT !.bound = Over(NodeBinding(f, got, k), @)]]

DirectlyDelegates(f) ==
    recipes[f].direct /\ \E k \in DOMAIN Body(f) : Body(f)[k].kind = "recipe"

\* Mutant: the wrapper makes an identity of its own.
SingletonOwnerOfWrapper(f, got) ==
    IF recipes[f].singleton THEN f
    ELSE IF DirectlyDelegates(f) THEN Last(got).singleton ELSE Unbound

\* singleton_recipe_id: that of the Recipe that is delegated to, if any.
SingletonOwner(f, got) ==
    IF DirectlyDelegates(f) /\ Last(got).singleton # Unbound THEN Last(got).singleton
    ELSE IF recipes[f].singleton THEN f ELSE Unbound

\* The end of readResolvedRecipeConfig.
Config(f, got) ==
    [file |-> f,
     root |-> IF recipes[f].direct THEN NodeBinding(f, got, 1) ELSE OwnDefaults(f),
     commands |-> IF recipes[f].direct THEN NodeCommands(f, got, 1)
                  ELSE FlattenSeq([k \in DOMAIN Body(f) |-> StepCommands(f, got, k)]),
     defaults |-> IF DirectlyDelegates(f)
                  THEN Over(Last(got).defaults, OwnDefaults(f)) ELSE OwnDefaults(f),
     values |-> OwnValues(f),
     disabled |-> recipes[f].disabled,
     singleton |-> SingletonOwner(f, got)]

-----------------------------------------------------------------------------
(* Reading.                                                                *)

Reading == outcome = "reading"
Call == Last(calls)
ReadAll == Len(Call.got) = Len(References(Call.file))
NextReference == References(Call.file)[Len(Call.got) + 1]

\* expandImportNodes follows the imports, before anything is delegated to.
Composed == Len(Call.got) < Len(Imports(Call.file)) \/ AliasesKnown(Call.file)

\* Mutant: one level more.
ReadableDeeper(f) ==
    /\ \A i \in DOMAIN calls : calls[i].file # f
    /\ Len(calls) <= MaxDepth
    /\ Body(f) # <<>>

\* No cycle, not too deep, and something to run.
Readable(f) ==
    /\ \A i \in DOMAIN calls : calls[i].file # f
    /\ Len(calls) < MaxDepth
    /\ Body(f) # <<>>

Read ==
    /\ Reading /\ ~ReadAll /\ Composed /\ Readable(NextReference)
    /\ calls' = Append(calls, [file |-> NextReference, got |-> <<>>])
    /\ UNCHANGED <<recipes, outcome, launched>>

\* loadDelegatedRecipe refuses a disabled Recipe, an import does not; the
\* entry is refused by readRecipeFile.
Accepted(config) ==
    config.disabled =>
        /\ Len(calls) > 1
        /\ LET caller == calls[Len(calls) - 1]
           IN  Len(caller.got) < Len(Imports(caller.file))

Resolved == Config(Call.file, Call.got)

Return ==
    /\ Reading /\ ReadAll /\ Composed /\ Len(calls) > 1 /\ Accepted(Resolved)
    /\ calls' = [Front(calls) EXCEPT ![Len(calls) - 1].got = Append(@, Resolved)]
    /\ UNCHANGED <<recipes, outcome, launched>>

\* startRun and the runner: the values that a Run starts with go over the
\* bindings of all its nodes.
RunValues(config) == Over(config.defaults, config.values)

Effective(config, command) ==
    Layers(<<config.root, command.bound, RunValues(config)>>)

Launch ==
    /\ Reading /\ ReadAll /\ Composed /\ Len(calls) = 1 /\ Accepted(Resolved)
    /\ outcome' = "launched"
    /\ launched' = Resolved
    /\ calls' = <<>>
    /\ UNCHANGED recipes

Refuse ==
    /\ Reading
    /\ \/ ~Composed
       \/ Composed /\ ~ReadAll /\ ~Readable(NextReference)
       \/ Composed /\ ReadAll /\ ~Accepted(Resolved)
    /\ outcome' = "refused"
    /\ calls' = <<>>
    /\ UNCHANGED <<recipes, launched>>

ReferencesInit ==
    /\ recipes \in Portfolios
    /\ calls = IF recipes[Entry].template = <<>> THEN <<>>
                ELSE <<[file |-> Entry, got |-> <<>>]>>
    /\ outcome = IF recipes[Entry].template = <<>> THEN "refused" ELSE "reading"
    /\ launched = Unbound

ReferencesNext == Read \/ Return \/ Launch \/ Refuse

-----------------------------------------------------------------------------
(* Properties.                                                             *)

\* The lines of references from the entry, of one file up to one more than the
\* limit.
Lines[n \in 0..MaxDepth] ==
    IF n = 0 THEN {<<Entry>>}
    ELSE Lines[n - 1] \cup
         UNION {{Append(line, f) : f \in ToSet(References(Last(line)))} : line \in Lines[n - 1]}

Unusable(f) ==
    \/ Body(f) = <<>>
    \/ ~AliasesKnown(f)
    \/ recipes[f].disabled /\ f = Entry
    \/ \E r \in DOMAIN Delegations(f) : recipes[Delegations(f)[r].of].disabled

\* A launch is refused when a line of references, however it mixes imports and
\* delegations, comes back to a file, gets too deep or meets a file that cannot
\* be used, and only then (docs: such references fail closed; a file that is
\* read twice on two lines is none of them).
RefusedIffUnsound ==
    outcome \in {"launched", "refused"} =>
        ((outcome = "refused") <=>
            \E line \in Lines[MaxDepth] :
                Len(line) > MaxDepth \/ ~IsInjective(line) \/ Unusable(Last(line)))

\* A wrapper of a singleton, through however many wrappers, launches the slot
\* of the Recipe it wraps, whose own wrappers may call themselves singletons:
\* there is one service and not one of each name.
OneIdentity ==
    outcome = "launched" =>
        LET chain == {command.line : command \in ToSet(launched.commands)}
            Direct(line, n) ==
                \A i \in 1..(n - 1) : DirectlyDelegates(line[i].file)
        IN  \A line \in chain :
                LET owners == {n \in DOMAIN line :
                                Direct(line, n) /\ recipes[line[n].file].singleton}
                IN  launched.singleton =
                        IF owners = {} THEN Unbound
                        ELSE line[CHOOSE n \in owners : \A m \in owners : m <= n].file

\* What a command runs with was bound on its own line: two nodes that invoke
\* one import, or two imports of one file, do not see each other's bindings.
BoundOnItsLine ==
    outcome = "launched" =>
        \A command \in ToSet(launched.commands) :
            LET mode == Effective(launched, command)
            IN  mode # Unbound =>
                    \E step \in ToSet(command.line) :
                        /\ mode.file = step.file
                        /\ mode.node \in {0, step.node}
                        /\ mode.alias \in {0, Body(step.file)[step.node].of}
=============================================================================
