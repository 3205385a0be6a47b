CONSTANTS
    Handlers = {cron, rpc}
    Cron = cron
    Pipelines = {p1, p2}
    Branches = {b1, b2}
    Absent = Absent
    Ops = {"poll"}
    UseGitCli = FALSE
    HistoryCount = 2
    FirstCommits = 1
    MaxCommits = 3
    MaxForced = 1
    Ssh = TRUE
    Faults = {"fetch", "partial", "publish", "db"}
    Excluded = {2}
    MaxFails = 1
    MaxCrashes = 1
SPECIFICATION SafeSpec
SYMMETRY WatcherSymmetry
INVARIANTS Announced RefreshNotifiesAll
