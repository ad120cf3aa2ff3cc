------------------------- MODULE MCRecipeReferences -------------------------
(***************************************************************************)
(* Resolution of a portfolio of four files.  The entry invokes others in   *)
(* every way there is, and the others too, so that lines of references get *)
(* as long as the limit, run in circles and meet again.                    *)
(***************************************************************************)
EXTENDS RecipeReferences

Shell == Node("command", 0)
Plain == Recipe(TRUE, <<Shell>>, <<>>)
Listed == [Recipe(FALSE, <<Shell, [Shell EXCEPT !.defaults = TRUE]>>, <<>>)
            EXCEPT !.defaults = TRUE]
Untemplated == Recipe(TRUE, <<>>, <<>>)

Wrapper(f) == [Recipe(TRUE, <<Node("recipe", f)>>, <<>>) EXCEPT !.defaults = TRUE]
Caller(f) == Recipe(TRUE, <<[Node("import", 1) EXCEPT !.values = TRUE]>>, <<Import(f)>>)
Singleton(r) == [r EXCEPT !.singleton = TRUE]
Disabled(r) == [r EXCEPT !.disabled = TRUE]

\* One import invoked twice and another one, and two files delegated to.
Composition(f, g) ==
    Recipe(FALSE,
           <<Node("import", 1), [Node("import", 1) EXCEPT !.values = TRUE],
             Node("import", 2), [Node("recipe", g) EXCEPT !.defaults = TRUE],
             Node("recipe", f)>>,
           <<[Import(f) EXCEPT !.defaults = TRUE], [Import(g) EXCEPT !.values = TRUE]>>)
BadAlias(f) == Recipe(TRUE, <<Node("import", 2)>>, <<Import(f)>>)

Names == {"a", "b", "c", "d"}
Invoking ==
    UNION {{Wrapper(f), Singleton(Wrapper(f)), Caller(f), BadAlias(f)} : f \in Names}
        \cup {Composition(f, g) : f \in Names, g \in Names}
Leaves == {Plain, Listed, Untemplated, Disabled(Plain), Singleton(Plain)}

MCPortfolios ==
    [a : Invoking \cup Leaves,
     b : {Wrapper("c"), Singleton(Wrapper("c")), Caller("c"), Caller("a"), Wrapper("b"),
          Disabled(Wrapper("d")), Composition("c", "d"), Plain, Untemplated, Disabled(Plain)},
     c : {Wrapper("d"), Singleton(Wrapper("d")), Caller("d"), Wrapper("a"), Listed,
          [Singleton(Listed) EXCEPT !.values = TRUE]},
     d : Leaves]

ReferencesSpec == ReferencesInit /\ [][ReferencesNext]_referenceVars
=============================================================================
