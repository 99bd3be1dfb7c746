\* One worker, four calls of a LOW tool and of one without a name, and up to
\* three outcomes, with the executor judging every second LOW call beside it.
\* The history holds eight rows, two calls' worth, so the log outgrows it.
SPECIFICATION SerialSpec
CONSTANTS
    None = None
    search = search
    payment = payment
    Tools = {search, blank}
    Unnamed = blank
    ToolRisks <- MCToolRisks
    Args = {a1}
    Calls = {c1, c2, c3, c4}
    Requests = {}
    Reports = {p1, p2, p3}
    Reapers = {}
    Usage <- MCLargeUsage
    MaxClock = 1
    MaxFaults = 0
    MaxCounter = 9
    LoopRepeats = 2
    LoopWindow = 2
    ErrorStreakLimit = 2
    CallRatePerMinute = 1
    Minute = 0
    FlapDegradations = 2
    FlapWindow = 9
    BudgetTokens = 2
    BudgetCost = 2
    Deadline = 0
    RecoveryInterval = 1
    HeartbeatTimeout = 2
    JudgeTrajectory = 1
    JudgeEvery = 2
    JudgeWorkers = 1
    JudgeAnswers = {"clear"}
SYMMETRY MCSerialSymmetry
INVARIANTS
    DetectorsSeeTheLog
