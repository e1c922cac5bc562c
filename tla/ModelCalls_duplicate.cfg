SPECIFICATION CallsSpec
CONSTANTS
    Setups <- MCSetups
    Messages <- MCMessages
    Answers <- MCAnswers
    Events <- MCEvents
    Sizes = {1, 4}
    Budget = 6
    MaxEvents = 3
INVARIANTS
    DuplicateIsRepeat
CHECK_DEADLOCK FALSE
