\* Two agent jobs at a time over the shared guard and approval context.
CONSTANTS
    w1 = w1  w2 = w2  shell = shell  read_file = read_file
    Workers <- TwoWorkers
    Tools <- TwoTools
    Risky <- ShellOnly
    NoManager = NoManager
    RequireApproval = TRUE
    HistoryLen = 4
    SameThresh = 3
    PingPongLen = 4
    MaxIterations = 2
    MaxRounds = 2
    MaxCalls = 2
SPECIFICATION TurnsSpec
INVARIANTS ApprovalHolds GuardTrips
SYMMETRY WorkerSymmetry
