\* Two guards of an unclassified tool over a transport that loses what it likes,
\* the outcomes they report, one report of usage that spends the budget, and an
\* outage or a crash of the server.
SPECIFICATION WorkerSpec
CONSTANTS
    None = None
    search = search
    payment = payment
    Tools = {payment}
    Unnamed = blank
    ToolRisks <- MCToolRisks
    Args = {a1}
    Calls = {c1, c2}
    Requests = {}
    Reports = {c1, c2, p1}
    Reapers = {}
    Usage <- MCUsage
    MaxClock = 0
    MaxFaults = 1
    MaxCounter = 3
    LoopRepeats = 9
    LoopWindow = 10
    ErrorStreakLimit = 9
    CallRatePerMinute = 60
    Minute = 1
    FlapDegradations = 9
    FlapWindow = 9
    BudgetTokens = 1
    BudgetCost = 9
    Deadline = 9
    RecoveryInterval = 0
    HeartbeatTimeout = 2
    JudgeTrajectory = 20
    JudgeEvery = 2
    JudgeWorkers = 0
    JudgeAnswers = {"clear", "concern"}
SYMMETRY MCSymmetry
INVARIANTS
    HighRunsWereCleared
    BudgetStopsHighCalls
PROPERTIES
    AdverseVerdictBinds
