CONSTANTS
    Size = 2
    Wrap = 8
    Value = {a, b}
    None = None
SPECIFICATION Spec
INVARIANTS
    NoRace
    CachesLagSafely
    ToldIsTrue
PROPERTY FifoSpec
CHECK_DEADLOCK FALSE
