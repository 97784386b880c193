SPECIFICATION Spec
CONSTANTS
    MaxRetries = 3
    maxConsecutivePollFailures = 5
    MaxPolls = 7
CHECK_DEADLOCK FALSE
INVARIANTS ChangedAtMostOnce WaitTellsTheTruth
