\* One worker, four identical LOW calls, each with its outcome: three rows a
\* call.  The window is four calls and the history eight rows.
SPECIFICATION SerialSpec
CONSTANTS
    None = None
    search = search
    payment = payment
    Tools = {search}
    Unnamed = blank
    ToolRisks <- MCToolRisks
    Args = {a1}
    Calls = {c1, c2, c3, c4}
    Requests = {}
    Reports = {p1, p2, p3}
    Reapers = {}
    Usage <- MCLargeUsage
    MaxClock = 0
    MaxFaults = 0
    MaxCounter = 9
    LoopRepeats = 4
    LoopWindow = 4
    ErrorStreakLimit = 9
    CallRatePerMinute = 1
    Minute = 1
    FlapDegradations = 9
    FlapWindow = 9
    BudgetTokens = 9
    BudgetCost = 9
    Deadline = 9
    RecoveryInterval = 1
    HeartbeatTimeout = 2
    JudgeTrajectory = 1
    JudgeEvery = 2
    JudgeWorkers = 0
    JudgeAnswers = {"clear"}
SYMMETRY MCSerialSymmetry
INVARIANTS
    LoopWindowCountsCalls
