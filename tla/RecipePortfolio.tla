--------------------------- MODULE RecipePortfolio ---------------------------
(***************************************************************************)
(* The recipes of a user and what is counted about them: the recipe files  *)
(* of the two folders (active tools and drafts), the ledgers of launches   *)
(* with their index (lib/recipes-usage.ts), and what changes them outside  *)
(* a review: a launch, a draft left by a spawn, the operator.              *)
(*                                                                         *)
(* A recipe is its content: its bytes, its hash and its fingerprint tell   *)
(* the same files apart.  An operation on the ledgers runs under the locks *)
(* of the index and of the ledger and is one step; a process that dies     *)
(* between the two or three files it writes is left out.                   *)
(*                                                                         *)
(* Every writer of the index enters a path under the name of its file, so  *)
(* the index is the set of the paths it holds.                             *)
(***************************************************************************)
EXTENDS Naturals, FiniteSets, FiniteSetsExt

CONSTANTS
    Names,          \* recipe names
    Recipes,        \* contents
    None            \* no file, no ledger, no target

ASSUME PortfolioAssumption ==
    /\ IsFiniteSet(Names)
    /\ None \notin Names \cup Recipes

VARIABLES
    file,           \* the recipe files
    usage,          \* .usage/index.json and the ledgers of .usage/recipes
    portfolio,      \* history: what every file should hold
    calls,          \* history: launches that were counted
    forgotten       \* history: launches in ledgers that were retired or written over

portfolioVars == <<file, usage, portfolio, calls, forgotten>>

Paths == {"active", "drafts"} \X Names
Active(n) == <<"active", n>>
Draft(n) == <<"drafts", n>>
Name(p) == p[2]

\* reviewed: reviewed_fingerprints.  demoted: demoted_fingerprint.
Ledger == [path : Paths, fingerprint : Recipes, calls : Nat,
           reviewed : SUBSET Recipes, demoted : Recipes \cup {None}]

ASSUME LedgerAssumption == None \notin Ledger

Usage == [index : SUBSET Paths, ledger : [Names -> Ledger \cup {None}]]

NewLedger(p, recipe, n) ==
    [path |-> p, fingerprint |-> recipe, calls |-> n, reviewed |-> {}, demoted |-> None]

\* readRecipeUsage: the ledger of an indexed path.
Stored(u, p) == IF p \in u.index THEN u.ledger[Name(p)] ELSE None

ReviewedNow(u, p) == Stored(u, p) # None /\ Stored(u, p).fingerprint \in Stored(u, p).reviewed

\* Recipes that were never launched.
PortfolioInit ==
    /\ file \in [Paths -> Recipes \cup {None}] /\ portfolio = file
    /\ usage = [index |-> {}, ledger |-> [n \in Names |-> None]]
    /\ calls = 0 /\ forgotten = 0

-----------------------------------------------------------------------------
(* ensureRecipeLineage: a ledger for a recipe that is looked at.           *)

EnsureRefused(f, u, p) == f[p] = None \/ (p \in u.index <=> u.ledger[Name(p)] = None)

\* Every recipe of a folder is looked at.
EnsuredAll(f, u, folder) ==
    LET seen == {p \in {folder} \X Names : ~EnsureRefused(f, u, p)} IN
    [index |-> u.index \cup seen,
     ledger |-> [n \in Names |->
                   LET p == <<folder, n>> IN
                   IF p \notin seen THEN u.ledger[n]
                   ELSE IF p \in u.index THEN [u.ledger[n] EXCEPT !.fingerprint = f[p]]
                   ELSE NewLedger(p, f[p], 0)]]

-----------------------------------------------------------------------------
(* recordRecipeLaunch.                                                     *)

\* Entries whose file is gone and whose ledger has the content of p.
Relocated(f, u, p) ==
    {q \in u.index : /\ f[q] = None
                     /\ u.ledger[Name(q)] # None
                     /\ u.ledger[Name(q)].fingerprint = f[p]}

\* The entries whose lineage a launch of p continues: its own, or that of the
\* one file it can be the new place of.
Continues(f, u, p) ==
    IF p \in u.index THEN {p}
    ELSE IF Cardinality(Relocated(f, u, p)) = 1 THEN Relocated(f, u, p) ELSE {}

\* Nothing to continue, and the name is taken.
LaunchRefused(f, u, p) ==
    \/ f[p] = None
    \/ /\ \A q \in Continues(f, u, p) : Stored(u, q) = None
       /\ u.ledger[Name(p)] # None

LaunchLedger(f, u, p) ==
    LET past == {Stored(u, q) : q \in Continues(f, u, p)} \ {None} IN
    IF past = {} THEN NewLedger(p, f[p], 1)
    ELSE LET old == CHOOSE l \in past : TRUE
         IN [old EXCEPT !.path = p, !.fingerprint = f[p], !.calls = @ + 1]

\* A lineage that was relocated leaves its old entry and its old ledger.
Launched(f, u, p) ==
    LET old == Continues(f, u, p) IN
    [index |-> (u.index \ old) \cup {p},
     ledger |-> [n \in Names |->
                   IF n = Name(p) THEN LaunchLedger(f, u, p)
                   ELSE IF n \in {Name(q) : q \in old} THEN None ELSE u.ledger[n]]]

-----------------------------------------------------------------------------
(* moveRecipeUsage, retireRecipeUsage.                                     *)

\* The move was made before: by an earlier attempt, or by a launch.
Moved(u, to) == Stored(u, to) # None

MoveRefused(u, from, to) ==
    IF from \notin u.index THEN ~Moved(u, to)
    ELSE \/ to \in u.index
         \/ Stored(u, from) = None
         \/ Name(from) # Name(to) /\ u.ledger[Name(to)] # None

MovedUsage(u, from, to) ==
    IF from \notin u.index THEN u
    ELSE [index |-> (u.index \ {from}) \cup {to},
          ledger |-> [[u.ledger EXCEPT ![Name(from)] = None]
                        EXCEPT ![Name(to)] = [Stored(u, from) EXCEPT !.path = to]]]

\* The launches in the ledgers of these names.
CallsIn(u, names) == MapThenSumSet(LAMBDA n : u.ledger[n].calls, {n \in names : u.ledger[n] # None})

\* A lineage that is relocated writes over a ledger that its new name has.
Overwritten(f, u, p) ==
    IF p \in u.index \/ Name(p) \in {Name(q) : q \in Continues(f, u, p)} THEN 0
    ELSE CallsIn(u, {Name(p)})

Retired(u, p) ==
    IF p \notin u.index THEN u
    ELSE [index |-> u.index \ {p}, ledger |-> [u.ledger EXCEPT ![Name(p)] = None]]

-----------------------------------------------------------------------------
(* What happens outside a review.                                          *)

\* A recipe is run, by a tool call, a spawn or directly.  A launch that cannot
\* be counted is not made.
Launch(p) ==
    /\ ~LaunchRefused(file, usage, p)
    /\ usage' = Launched(file, usage, p)
    /\ calls' = calls + 1
    /\ forgotten' = forgotten + Overwritten(file, usage, p)
    /\ UNCHANGED <<file, portfolio>>

\* A spawned template leaves a draft of itself, counted as launched if it can.
SpawnDraft(n, recipe) ==
    /\ file[Draft(n)] = None
    /\ file' = [file EXCEPT ![Draft(n)] = recipe]
    /\ portfolio' = [portfolio EXCEPT ![Draft(n)] = recipe]
    /\ IF LaunchRefused(file', usage, Draft(n))
       THEN UNCHANGED <<usage, calls, forgotten>>
       ELSE /\ usage' = Launched(file', usage, Draft(n))
            /\ calls' = calls + 1
            /\ forgotten' = forgotten + Overwritten(file', usage, Draft(n))

\* The operator writes a recipe, or removes it.
Edit(p, recipe) ==
    /\ file[p] # recipe
    /\ file' = [file EXCEPT ![p] = recipe]
    /\ portfolio' = [portfolio EXCEPT ![p] = recipe]
    /\ UNCHANGED <<usage, calls, forgotten>>

-----------------------------------------------------------------------------
\* The launches that the ledgers of indexed recipes add up to.
Counted(u) == CallsIn(u, {Name(p) : p \in u.index})
=============================================================================
