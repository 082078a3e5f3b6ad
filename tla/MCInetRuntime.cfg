SPECIFICATION FairSpec
CONSTANTS
    w1 = w1
    w2 = w2
    n1 = n1
    n2 = n2
    Loader = Loader
    Worker <- TwoWorkers
    Ctor <- Datatypes
    Rules <- DatatypesRules
    Programs <- DatatypesPrograms
    Variable <- DatatypesVariable
    Number <- TwoNumbers
    NumberPort <- DatatypesNumberPort
    NumberVariable = {"head"}
    NodeMaxArity = 3
    MaxNodes = 7
    MaxWires = 12
    MaxPrincipalWires = 7
INVARIANTS
    TypeOK WireEnds UnlockedNodeIsWhole TasksStand
    DisciplinedProgramsDoNotFail UniqueResult InspectsTheComponent
PROPERTY Terminates
CHECK_DEADLOCK FALSE
