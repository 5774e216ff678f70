\* The stores.  Cron: the daemon and the command, one at a time; processes are
\* killed and saves fail.
CONSTANTS
    daemon = daemon  cli1 = cli1  id1 = id1  id2 = id2
    echo = echo  pipe = pipe  minutely = minutely  hourly = hourly  short = short
    Daemon = daemon
    Clis <- OneCli
    Ids <- TwoIds
    Cmds <- AllCmds
    Piped <- PipeCmds
    Exprs <- TwoExprs
    Hourly <- HourlyExprs
    Short <- ShortExprs
    Minute = 1
    Hour = 2
    MaxTasks = 2
    MaxTime = 4
    OneAtATime = TRUE
    MayCrash = TRUE
    SaveMayFail = TRUE
    Keys = {"key", "a"}
    Values = {"value", "v"}
    Matches <- TwoMatches
    Recency <- Halving
    MaxCandidates = 2
    MaxEngrams = 3
    MaxAccess = 2
    Prompts = {"p", "pp", "none"}
    Responses = {"r", "rr"}
    CutPrompt <- CutPrompts
    CutResponse <- CutResponses
    EmptyPrompt = "none"
    ListLimit = 1
    CacheSize = 2
    ChunkSize = 3
    BreakWindow = 2
    TextLength = 7
    MaxMemTime = 2
    Wrap = 5
    MaxSets = 5
    Names = {"f", "g", "h"}
    MaxKills = 2
    Exports <- TwoExports
    EntryNames = {"n1", "n2", "n3"}
    LongNames = {"n3"}
    Settings = {"c1", "c2"}
    MaxEntries = 2
    Expiry = 2
    MaxRegTime = 4
    Similarities = {0, 1, 2}
    MaxChunks = 4
    TopK = 2
    ChunkSizes = {2, 4}
    Overlap = 2
    MaxPieces = 4
    MaxText = 12
    ToolWorkers = {"w1", "w2"}
    RequestsOf <- MCRequestsOf
    Heads <- Cuts
    Embedded <- InnerText
    Dangerous = {"mkfs"}
    Outside = {"/etc"}
    Unresolved = {"gone"}
SYMMETRY IdSymmetry
SPECIFICATION StoresSpec
INVARIANTS StoresTypeOK AddedIsPersisted CronFaithful  MigrationFaithful
           RegistriesFaithful RagFaithful ToolsFaithful
PROPERTIES RunsAreSpaced StepsSelectRight
CHECK_DEADLOCK FALSE
