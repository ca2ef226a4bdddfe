SPECIFICATION Spec
CONSTANTS
    p1 = p1
    p2 = p2
    o1 = o1
    o2 = o2
    f1 = f1
    f2 = f2
    Proc <- TwoProcs
    Oper <- OneOper
    File <- TwoFiles
    Patch = {a}
    Base = base
    NoProc = NoProc
    NoOper = NoOper
    MaxEvents = 1
    Kinds <- AbortKinds
    Timely = TRUE
SYMMETRY Symmetry
INVARIANTS UnconfirmedHeld
CHECK_DEADLOCK FALSE
