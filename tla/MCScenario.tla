------------------------------ MODULE MCScenario ------------------------------
EXTENDS Scenario, TLC

ObservationSymmetry == Permutations(Observations)
=============================================================================
