SPECIFICATION Spec
CONSTANTS
    Module <- Files
    Cwd <- WorkingDirectory
    CommandLine <- Arguments
    Texts <- Programs
    PrincipalName <- PrincipalNames
    NODE_MAX_ARITY = 3
    WORD_SIZE = 11
    FrameId <- Frames
INVARIANTS
    FramesAreOwned TailCallsAreProper MeansWhatItSays FirstRuleIsFound
PROPERTY HaltsUnlessAtString
