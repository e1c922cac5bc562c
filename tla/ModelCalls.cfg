SPECIFICATION CallsSpec
CONSTANTS
    Setups <- MCSetups
    Messages <- MCMessages
    Answers <- MCAnswers
    Events <- MCEvents
    Sizes = {1, 4}
    Budget = 6
    MaxEvents = 3
INVARIANTS
    EgoFailureIsCovered
    ShownIsOneVoice
    StraysWereDropped
    StoppedForCause
    RequestIsAnchored
PROPERTIES
    EveryCallEnds
CHECK_DEADLOCK FALSE
