SPECIFICATION FairSpec
CONSTANTS
    Methods <- MCMethods
    Upper <- MCUpper
    AnyMethod = "any"
    Nothing = Nothing
    InvalidHeaders = {"x bad"}
    Panels = {"panel", "window"}
    Scenes <- MCScenes
    NewIds <- MCNewIds
    TouchedRules = {"rw-002"}
    TouchedGroups = {"grp-core"}
    RuleInputs <- MCRuleInputs
    MockInputs <- MCMockInputs
    Files <- MCFiles
    Filters <- MCFilters
    Profiles = {"network-failure"}
    PageUrl = {"http", "/api"}
INVARIANTS
    QuietBrowserIsCurrent
    QuietBridgeIsCurrent
    GroupsStayOrdered
PROPERTIES
    WorkerComesToRest
CHECK_DEADLOCK FALSE
