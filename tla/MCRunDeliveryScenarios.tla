----------------------- MODULE MCRunDeliveryScenarios -----------------------
(***************************************************************************)
(* Two scenarios of the delivery of completions, one of them chosen at the *)
(* start:                                                                  *)
(*   nested    a Run and one it started, one generation each, both read by *)
(*             a collection while they stand still;                        *)
(*   restart   one directory started twice, whose runner goes on while its *)
(*             status is read.                                             *)
(***************************************************************************)
EXTENDS MCRunDelivery

VARIABLE scenario

\* No Run moves while a collection reads; the owner may end a stop.
ReadsInOnePiece ==
    co.pc \in {"collect", "derive"} =>
        UNCHANGED runVars \/ cut'[p] # cut[p] \/ stopping'[p] # stopping[p]

InScenario ==
    \/ /\ scenario = "nested"
       /\ \A r \in Runs : generation'[r] <= 1 /\ result'[r] # "failed"
       /\ ReadsInOnePiece
    \/ /\ scenario = "restart"
       /\ generation'[c] = 0

ScenarioInit == Init /\ scenario \in {"nested", "restart"}

ScenarioNext == Next /\ InScenario /\ UNCHANGED scenario

ScenarioSpec == ScenarioInit /\ [][ScenarioNext]_<<vars, scenario>>

\* Where the Runs stand still while they are read, no generation is in two
\* batches.  (generation_in_two_batches shows what a move inside a read does.)
OneGenerationOnce == scenario = "nested" => GenerationsOnce
=============================================================================
