---------------------------- MODULE MCMmScenario ----------------------------
(***************************************************************************)
(* Model-checking instance of MmScenario: three slots (a, b, c) and the    *)
(* build's chunksize, 4096, within a 16-bit size_t.                        *)
(***************************************************************************)
EXTENDS MmScenario

MCScenarioSlots == {1, 2, 3}
MCScenarioRequests == {24}
MCScenarioCallocArgs == {}
MCScenarioRefusals == {0}
=============================================================================
