SPECIFICATION FairSpec
CONSTANTS
    a = a
    b = b
    x = x
    y = y
    NoInst = NoInst
    Inst <- TwoInst
    Job <- OneJob
    Batch <- OneJob
    MaxGen = 3
    Timely = TRUE
    Callers = {}
    Events = {"exhaust"}
PROPERTIES JobsEnd
CHECK_DEADLOCK FALSE
