\* One gate call and one request, no fault.
SPECIFICATION Spec
CONSTANTS
    None = None
    search = search
    payment = payment
    Tools = {search, payment}
    Unnamed = blank
    ToolRisks <- MCToolRisks
    Args = {a1}
    Calls = {c1}
    Requests = {q1}
    Reports = {}
    Reapers = {}
    Usage <- MCUsage
    MaxClock = 0
    MaxFaults = 0
    MaxCounter = 3
    LoopRepeats = 9
    LoopWindow = 10
    ErrorStreakLimit = 9
    CallRatePerMinute = 60
    Minute = 1
    FlapDegradations = 9
    FlapWindow = 9
    BudgetTokens = 9
    BudgetCost = 9
    Deadline = 9
    RecoveryInterval = 1
    HeartbeatTimeout = 2
    JudgeTrajectory = 20
    JudgeEvery = 2
    JudgeWorkers = 0
    JudgeAnswers = {"clear", "concern", "severe", "unavailable"}
SYMMETRY MCSymmetry
INVARIANTS
    EveryProposalDecided
