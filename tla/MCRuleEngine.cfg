SPECIFICATION InputSpec
CONSTANTS
    Methods <- MCMethods
    Upper <- MCUpper
    AnyMethod = "any"
    MaxDepth = 2
    MaxArraySample = 2
    Rules <- MCRules
    Samples <- MCSamples
    Entries <- MCEntries
    Observed <- MCObserved
    Lines <- MCLines
    Shape <- MCShape
    MaxRules = 2
    MaxSamples = 3
    MaxEntries = 6
    MaxObserved = 2
    MaxLines = 4
    MaxChanges = 2
INVARIANTS
    ShadowedRulesAreReported
    InferredSchemaAcceptsSamples
    CompatibleBodiesKeepPaths
    RegressionsMirror
    TrafficReportsAddUp
    DiffRebuildsBothTexts
    ListedValuesAreApplied
CHECK_DEADLOCK FALSE
