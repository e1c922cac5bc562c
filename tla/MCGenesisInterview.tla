------------------------- MODULE MCGenesisInterview -------------------------
(* Five scenarios of two choices, one that does not exist, and a cap of     *)
(* four; among the ways through are those to each kind of archetype.        *)
EXTENDS GenesisInterview

Weigh(duty, virtue, outcome, welfare) ==
    [duty |-> duty, virtue |-> virtue, outcome |-> outcome, welfare |-> welfare]

MCScenarios ==
    [i \in 1 .. 5 |->
        IF i % 2 = 1 THEN <<Weigh(30, -10, 0, 5), Weigh(-15, 20, 0, 0)>>
        ELSE <<Weigh(0, 0, 25, -20), Weigh(0, -5, 15, 20)>>]
=============================================================================
