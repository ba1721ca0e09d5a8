SPECIFICATION Spec
CONSTANTS
    Fragments <- MCFragments
    UnknownOps <- MCUnknownOps
    MaxFragments = 1
    Requests <- MCRequests
    MidiFiles <- MCMidiFiles
    Roots <- MCRoots
    Samples <- MCSamples
    NumInputs = 10
    MaxLocals = 2
    MaxInstructions = 48
    MaxStack = 5
    Limit = 100000
    Scores <- MCScores
    TermLists <- MCTermLists
    ScoreScale = 2
    SuppressBelow = 30
    DefaultRoute = 7
    ConditionLists <- MCConditionLists
INVARIANTS
    TypeOK
    VerifiedRunsSafely
    DepthAsAnalyzed
    AnalysisIsExact
    MacrosMeanWhatTheySay
    StandardPolicyIsOneValue
    PoliciesRun
PROPERTIES
    MidiRoundTrip
