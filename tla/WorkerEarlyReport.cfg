CONSTANTS
    ChanSize = 1
    MaxTasks = 2
    MaxDials = 1
SPECIFICATION Spec
INVARIANT EarlyReportKept
CHECK_DEADLOCK FALSE
