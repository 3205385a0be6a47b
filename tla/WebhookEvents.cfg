CONSTANTS
    Pipelines = {p1, p2}
    EventIds = {e1, e2}
    NamedFirst = {}
    Events = {e1}
    Selectors <- MCSelectors
    ActiveSelectors <- MCActive
    ToShow <- MCToShow
    ToUseInCi <- MCToUseInCi
    Limit = 2
    None = None
    Conditions <- MCConditions
    Contents <- MCContents
    Traffic <- MCTraffic
    Configurations <- MCConfigurations
    Edits <- MCEdits
    p1 = p1
    p2 = p2
    e1 = e1
    e2 = e2
    u = u
    Uids = {u, Blank}
    Blank = Blank
    Malformed = Malformed
    Inactive = Inactive
    MaxMessages = 2
    MaxCalls = 1
    Faults = {"save", "db", "publish", "late", "crash"}
    MaxFaults = 1
SPECIFICATION Spec
INVARIANTS TypeOK ParsedOnce OneMapping PayloadsFit ToldOnce ToldIsShown
PROPERTIES MappedBeforeTold EveryMatchTold
CHECK_DEADLOCK FALSE
