CONSTANTS
    ChanSize = 1
    MaxTasks = 1
    MaxDials = 1
SPECIFICATION Spec
INVARIANT WorkerSurvives
CHECK_DEADLOCK FALSE
