SPECIFICATION Spec
CONSTANTS
    w1 = w1
    w2 = w2
    n1 = n1
    n2 = n2
    Loader = Loader
    Worker <- TwoWorkers
    Ctor <- BothCtor
    Rules <- BothRules
    Programs <- BothPrograms
    Variable <- NatVariable
    Number <- TwoNumbers
    NumberPort <- BothNumberPort
    NumberVariable = {}
    NodeMaxArity = 3
    MaxNodes = 6
    MaxWires = 10
    MaxPrincipalWires = 6
INVARIANTS
    NoAssertionFails
CHECK_DEADLOCK FALSE
