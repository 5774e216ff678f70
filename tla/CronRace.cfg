\* COMPLETION_PLAN.md on persistence, with the daemon running.
CONSTANTS
    daemon = daemon  cli1 = cli1  id1 = id1  id2 = id2
    echo = echo  pipe = pipe  minutely = minutely  hourly = hourly  short = short
    Daemon = daemon
    Clis <- OneCli
    Ids <- TwoIds
    Cmds <- PlainCmds
    Piped <- NoCmds
    Exprs <- MinuteExprs
    Hourly <- NoExprs
    Short <- NoExprs
    Minute = 2
    Hour = 4
    MaxTasks = 2
    MaxTime = 1
    OneAtATime = FALSE
    MayCrash = FALSE
    SaveMayFail = FALSE
SPECIFICATION CronSpec
INVARIANT AddedIsPersisted
CHECK_DEADLOCK FALSE
