CONSTANTS
    Handlers = {cron, h1}
    Cron = cron
    Urls = {u1, u2}
    None = None
    Ops = {"poll", "add", "update", "reset", "latest", "webhook"}
    UseGitCli = FALSE
    Faults = {"disk", "fetch", "context", "provider", "db"}
    MaxFails = 1
    MaxCrashes = 1
    MaxErrors = 1
SPECIFICATION SafeSpec
INVARIANTS TypeOK NoOrphans
PROPERTIES DeletionFinal
