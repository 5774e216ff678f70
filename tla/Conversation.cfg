\* The parts of a conversation.  The guard's window is short enough to be
\* shifted within a turn; the history has the constants of the code.
CONSTANTS
    w1 = w1  shell = shell  read_file = read_file
    Workers <- OneWorker
    Tools <- TwoTools
    Risky <- ShellOnly
    NoManager = NoManager
    RequireApproval = TRUE
    HistoryLen = 6
    SameThresh = 4
    PingPongLen = 4
    MaxIterations = 4
    MaxRounds = 2
    MaxCalls = 2
    InitialCapacity = 32
    MaxHistory = 50
    KeepRecent = 20
    Slack = 8
    MaxToolCalls = 16
    MaxSent = 84
    alice = alice  bob = bob  NoChat = NoChat
    Chats <- TwoChats
    FirstId = 10
    MaxUpdates = 3
    MaxOffset = 3
    Capacity = 2
    ConfigToml <- ThreeEntries
    MaxChannels = 5
    Loaders = {"gateway", "poller"}
    AddTypes = {"telegram", "slack"}
    MaxAdds = 4
    Limit = 2
    Mark = 1
    Buffer = 4
    MaxLength = 5
    Primaries = {"openai", "anthropic", "copilot", "glm"}
    Fallbacks = {"ollama", "llama", "gemini", "unknown"}
    MaxRetries = 3
    Routed <- ThreeRouted
    ModelPaths = {"m1", "m2"}
    MaxChoices = 7
    MaxLoads = 4
    ServiceNames = {"a", "b"}
    Pids = {1, 2, 3}
    MaxServices = 2
    MaxForks = 3
    TimeoutSecs = 2
    OutputSize = 3
    ExitCodes = {0, 1}
SPECIFICATION ConvSpec
INVARIANTS ConvTypeOK GuardTrips HistoryIntact
           ChannelsFaithful DeliveredWhole CallsFaithful ChildrenOwned
PROPERTIES OldestReceived ConvEnds
CHECK_DEADLOCK FALSE
