SPECIFICATION Spec
CONSTANTS
    Programs <- MCPrograms
    MaxFaults = 2
    MaxRounds = 2
    QuietFailures <- MCQuietFailures
    LeavesBehind <- MCLeavesBehind
    LeavesUnheard <- MCLeavesUnheard
    Unasked <- MCUnasked
    LeavesItsRun <- MCLeavesItsRun
    ChangesFirst <- MCChangesFirst
CHECK_DEADLOCK FALSE
INVARIANTS ConsentIsKept NothingLeftOpen FailureIsTold RunsAreAccountedFor
