SPECIFICATION FairSpec
CONSTANTS
    f1 = f1
    x1 = x1
    x2 = x2
    o1 = o1
    o2 = o2
    Calls = {f1, x1, x2}
    Pages <- MCPages
    Configs <- MCConfigs
    NoRules <- Nothing
    Responses <- MCResponses
    TooLong <- MCTooLong
    MaxUpdates = 2
    Methods <- MCMethods
    Upper <- MCUpper
    AnyMethod = "any"
INVARIANTS
    CallsFollowTheRulesTheyBeganWith
    ReportsTellWhatThePageGot
    CapturesTellTheirCall
    SequencesAnswerInOrder
PROPERTIES
    EveryCallSettles
CHECK_DEADLOCK FALSE
