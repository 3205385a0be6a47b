CONSTANTS
    Handlers = {cron, rpc}
    Cron = cron
    Pipelines = {p1, p2}
    Branches = {b1, b2}
    Absent = Absent
    Ops = {"poll", "latest", "checkout"}
    UseGitCli = TRUE
    HistoryCount = 2
    FirstCommits = 2
    MaxCommits = 4
    MaxForced = 0
    Ssh = FALSE
    Faults = {"fetch"}
    Excluded <- MCExcluded
    Rules <- MCRules
    Files <- MCFiles
    EnableFileStats = TRUE
    MaxFails = 1
    MaxCrashes = 0
SPECIFICATION Spec
INVARIANTS NoRepeat HistoryIsLog ListedAreFound HeadsAgree RulesHold
PROPERTIES Converges
