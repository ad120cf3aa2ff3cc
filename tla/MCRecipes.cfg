CONSTANTS
    Portfolios <- MCPortfolios
    Entry = "a"
    MaxDepth = 3
    Unbound = Unbound
    Programs <- MCPrograms
    Nodes <- MCNodes
    Spills = TRUE
    Unreadable = Unreadable
SPECIFICATION RecipesSpec
 
INVARIANT OneIdentity
INVARIANT BoundOnItsLine
INVARIANT RootFailureIsFatal
INVARIANT StdinIsClean
PROPERTY FatalStops
PROPERTY Ends
CHECK_DEADLOCK FALSE
