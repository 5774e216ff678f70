\* cmd_stop's promise where close() does not wake accept().
CONSTANTS
    w1 = w1  c1 = c1  mainThread = mainThread  pollThread = pollThread
    Main = mainThread
    Poller = pollThread
    Workers <- OneWorker
    Clients <- OneClient
    Feeders <- MCFeeders
    Threads <- MCThreads
    Jobs <- MCJobs
    NoJob = NoJob
    Capacity = 1
    MinWorkers = 1
    MaxWorkers = 1
    ScaleUpThreshold = 1
    HasWorkspace = FALSE
    MaxDue = 1
    CreateMayFail = FALSE
    CloseWakesAccept = FALSE
SPECIFICATION FairDaemonSpec
PROPERTY ShutdownCompletes
CHECK_DEADLOCK FALSE
