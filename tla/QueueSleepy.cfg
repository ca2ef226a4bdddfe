SPECIFICATION Spec
CONSTANTS
    a = a
    b = b
    x = x
    y = y
    NoInst = NoInst
    Inst <- TwoInst
    Job <- OneJob
    Batch = {}
    MaxGen = 2
    Timely = FALSE
    Callers = {a}
    Events = {"lapse", "throw", "exhaust", "cancel_throw"}
INVARIANTS TypeOK OneWorker LockFreed
PROPERTIES TerminalStable CancellationWins
CHECK_DEADLOCK FALSE
