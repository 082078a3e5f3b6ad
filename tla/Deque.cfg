CONSTANTS
    NodeId = {1, 2, 3}
    Value = {"a", "b"}
    Thread = {t1, t2}
SPECIFICATION Spec
INVARIANTS
    OneInside
PROPERTIES
    DequeIsAtomic
    LockIsReleased
