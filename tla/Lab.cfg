SPECIFICATION Spec
CONSTANTS
    MaxRuns = 3
    MaxPolls = 1
    MaxWarmup = 1
    Values = 2
    Pane = {0}
    Speed <- MCSpeeds
CHECK_DEADLOCK FALSE
INVARIANTS WatchedWhileRunning RecordIsSound
PROPERTIES LabIsASession
