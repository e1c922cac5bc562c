SPECIFICATION Spec
CONSTANTS
    Scenarios <- MCScenarios
    HardCap = 4
    Levels = {0, 3, 6, 9, 10}
    OceanDims = {openness, agreeableness}
    MoralDims = {care}
    MaxChoice = 3
    MaxTurns = 6
    None = None
INVARIANTS
    LatticeEndsAtTheCap
    ArchetypeFitsWeights
CHECK_DEADLOCK FALSE
