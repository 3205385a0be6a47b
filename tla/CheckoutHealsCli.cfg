SPECIFICATION Spec
CONSTANTS
    Handlers = {cron, h1}
    Cron = cron
    Urls = {u1, u2}
    None = None
    Ops = {"poll", "add", "reset", "latest"}
    UseGitCli = TRUE
    Faults = {"context"}
    MaxFails = 1
    MaxCrashes = 0
    MaxErrors = 1
PROPERTIES Heals
