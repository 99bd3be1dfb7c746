\* Three LOW calls with identical arguments, one after the other or not.
SPECIFICATION Spec
CONSTANTS
    None = None
    search = search
    payment = payment
    Tools = {search}
    Unnamed = blank
    ToolRisks <- MCToolRisks
    Args = {a1}
    Calls = {c1, c2, c3}
    Requests = {}
    Reports = {}
    Reapers = {}
    Usage <- MCUsage
    MaxClock = 0
    MaxFaults = 0
    MaxCounter = 3
    LoopRepeats = 3
    LoopWindow = 10
    ErrorStreakLimit = 9
    CallRatePerMinute = 60
    Minute = 1
    FlapDegradations = 9
    FlapWindow = 9
    BudgetTokens = 9
    BudgetCost = 9
    Deadline = 9
    RecoveryInterval = 1
    HeartbeatTimeout = 2
    JudgeTrajectory = 20
    JudgeEvery = 2
    JudgeWorkers = 0
    JudgeAnswers = {"clear", "concern", "severe", "unavailable"}
SYMMETRY MCSymmetry
INVARIANTS
    LoopedCallRefused
