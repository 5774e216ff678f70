\* Two clients and cron on a ring of one slot; the pool grows from 1 to 2, and
\* malloc and pthread_create may fail.
CONSTANTS
    w1 = w1  w2 = w2  c1 = c1  c2 = c2  f1 = f1
    Workers <- TwoWorkers
    Clients <- TwoClients
    Feeders <- OneFeeder
    Threads <- MCThreads
    Jobs <- MCJobs
    NoJob = NoJob
    Capacity = 1
    MinWorkers = 1
    MaxWorkers = 2
    ScaleUpThreshold = 1
    CreateMayFail = TRUE
SPECIFICATION PoolSpec
INVARIANTS ContextOutlivesJob RunOnce NoForgottenRequest FreedIsUnused
CHECK_DEADLOCK FALSE
