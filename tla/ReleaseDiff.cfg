CONSTANTS
    MaxCommit = 5
    Commit <- MCCommit
    Histories <- MCHistories
SPECIFICATION Spec
INVARIANTS TypeOK ChangesExact CliAgrees
PROPERTIES Terminates
CHECK_DEADLOCK FALSE
