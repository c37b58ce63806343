CONSTANTS
    ChanSize = 1
    MaxTasks = 4
    MaxDials = 3
SPECIFICATION FairSpec
INVARIANT TypeOK
INVARIANT NoReportForgotten
PROPERTY ImplementsReports
PROPERTY ReporterSurvives
CHECK_DEADLOCK FALSE
PROPERTY EventLoopUnblocks
PROPERTY ReportsArrive
