\* Jobs are answered, and the shutdown comes to its end where close() wakes
\* accept().
CONSTANTS
    w1 = w1  c1 = c1  mainThread = mainThread  pollThread = pollThread
    Main = mainThread
    Poller = pollThread
    Workers <- OneWorker
    Clients <- OneClient
    Feeders <- MCFeeders
    Threads <- MCThreads
    Jobs <- MCJobs
    NoJob = NoJob
    Capacity = 1
    MinWorkers = 1
    MaxWorkers = 1
    ScaleUpThreshold = 1
    HasWorkspace = FALSE
    MaxDue = 1
    CreateMayFail = FALSE
    CloseWakesAccept = TRUE
SPECIFICATION FairDaemonSpec
PROPERTIES ShutdownCompletes AcceptedIsAnswered
CHECK_DEADLOCK FALSE
