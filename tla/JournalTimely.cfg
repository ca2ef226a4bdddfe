SPECIFICATION FairSpec
CONSTANTS
    p1 = p1
    p2 = p2
    o1 = o1
    o2 = o2
    f1 = f1
    f2 = f2
    Proc <- TwoProcs
    Oper <- OneOper
    File <- TwoFiles
    Patch = {a}
    Base = base
    NoProc = NoProc
    NoOper = NoOper
    MaxEvents = 3
    Kinds <- AllKinds
    Timely = TRUE
INVARIANTS TypeOK Whole EditsSurvive
PROPERTIES ResolvedFinal QuarantineKept Recovers
CHECK_DEADLOCK FALSE
