\* Two calls, both of which may queue a judging on the one worker, and a fault.
SPECIFICATION FairSpec
CONSTANTS
    None = None
    search = search
    payment = payment
    Tools = {search, payment}
    Unnamed = blank
    ToolRisks <- MCToolRisks
    Args = {a1}
    Calls = {c1, c2}
    Requests = {}
    Reports = {}
    Reapers = {}
    Usage <- MCUsage
    MaxClock = 0
    MaxFaults = 1
    MaxCounter = 3
    LoopRepeats = 2
    LoopWindow = 10
    ErrorStreakLimit = 9
    CallRatePerMinute = 60
    Minute = 1
    FlapDegradations = 9
    FlapWindow = 9
    BudgetTokens = 9
    BudgetCost = 9
    Deadline = 9
    RecoveryInterval = 0
    HeartbeatTimeout = 2
    JudgeTrajectory = 20
    JudgeEvery = 1
    JudgeWorkers = 1
    JudgeAnswers = {"clear", "concern"}
PROPERTIES
    EveryCallAnswered
    QueuedJudgingEnds
