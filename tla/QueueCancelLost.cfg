SPECIFICATION Spec
CONSTANTS
    a = a
    b = b
    x = x
    y = y
    NoInst = NoInst
    Inst <- TwoInst
    Job <- OneJob
    Batch = {}
    MaxGen = 2
    Timely = TRUE
    Callers = {a}
    Events = {}
INVARIANTS CancelLands
CHECK_DEADLOCK FALSE
