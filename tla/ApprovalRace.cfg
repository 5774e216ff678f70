\* tools.h on the approval context, with two workers.
CONSTANTS
    w1 = w1  w2 = w2  shell = shell  read_file = read_file
    Workers <- TwoWorkers
    Tools <- TwoTools
    Risky <- ShellOnly
    NoManager = NoManager
    RequireApproval = TRUE
    HistoryLen = 8
    SameThresh = 4
    PingPongLen = 4
    MaxIterations = 2
    MaxRounds = 2
    MaxCalls = 2
SPECIFICATION TurnsSpec
INVARIANT RiskyNeedsApproval
