CONSTANTS
    Handlers = {cron, rpc}
    Cron = cron
    Pipelines = {p1}
    Branches = {b1, b2}
    Absent = Absent
    Ops = {"poll", "latest"}
    UseGitCli = FALSE
    HistoryCount = 2
    FirstCommits = 1
    MaxCommits = 3
    MaxForced = 0
    Ssh = FALSE
    Faults = {}
    Excluded = {}
    MaxFails = 0
    MaxCrashes = 0
SPECIFICATION SafeSpec
SYMMETRY WatcherSymmetry
INVARIANTS RefreshNotifiesAll
