\* Start, service and shutdown with a handler, cron and the poller, thread
\* creation failing at any point.
CONSTANTS
    w1 = w1  c1 = c1  mainThread = mainThread  pollThread = pollThread
    Main = mainThread
    Poller = pollThread
    Workers <- OneWorker
    Clients <- OneClient
    Feeders <- MCFeeders
    Threads <- MCThreads
    Jobs <- MCJobs
    NoJob = NoJob
    Capacity = 1
    MinWorkers = 1
    MaxWorkers = 1
    ScaleUpThreshold = 1
    HasWorkspace = TRUE
    MaxDue = 1
    CreateMayFail = TRUE
    CloseWakesAccept = TRUE
SPECIFICATION DaemonSpec
INVARIANTS DaemonTypeOK GatewayEndsBeforePool PidFileMeansServing
CHECK_DEADLOCK FALSE
