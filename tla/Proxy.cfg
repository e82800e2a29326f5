SPECIFICATION FairSpec
CONSTANTS
    Request <- Requests
    Settings <- SomeSettings
    MaxTurns = 2
    MaxTools = 2
    Events = 2
INVARIANTS TypeOK RouteAndRepoAgree ToolsUsable ChoiceNamesTool BrokenTeachesNothing
PROPERTY EveryRequestEnds
CHECK_DEADLOCK FALSE
