CONSTANTS
    NodeId = {1, 2, 3}
    Value = {"a", "b"}
SPECIFICATION ListSpec
INVARIANTS
    WellFormed
PROPERTY ListIsSequence
