--------------------------- MODULE MCRunDelivery ---------------------------
EXTENDS RunDelivery

CONSTANTS p, c

\* A top-level Run that starts a nested one.
Nested == [r \in Runs |-> IF r = c THEN p ELSE NoRun]

\* Top-level Runs only.
Flat == [r \in Runs |-> NoRun]
=============================================================================
