CONSTANTS
    Handlers = {cron, rpc}
    Cron = cron
    Pipelines = {p1}
    Branches = {b1, b2}
    Absent = Absent
    Ops = {"poll", "latest", "checkout", "save"}
    UseGitCli = FALSE
    HistoryCount = 2
    FirstCommits = 1
    MaxCommits = 2
    MaxForced = 1
    Ssh = FALSE
    Faults = {"fetch", "partial", "publish", "db", "context"}
    Excluded = {}
    MaxFails = 1
    MaxCrashes = 1
SPECIFICATION SafeSpec
SYMMETRY WatcherSymmetry
INVARIANTS TypeOK HistoryHead
PROPERTIES PublishedIsHead
