CONSTANTS
    Handlers = {cron, h1, h2}
    Cron = cron
    Urls = {u1}
    None = None
    Ops = {"poll", "add", "reset", "latest"}
    UseGitCli = FALSE
    Faults = {"disk", "fetch", "context"}
    MaxFails = 2
    MaxCrashes = 1
    MaxErrors = 1
SPECIFICATION Spec
INVARIANTS StatusTruth
PROPERTIES Heals
