SPECIFICATION LJSpec
CONSTANTS
    r1 = r1
    r2 = r2
    Run <- TwoRuns
    Path <- MCPath
    Request <- MCIntegration
    Ttl = 2
    Guard = 1
    MaxTime = 5
    Timely = TRUE
    p1 = p1
    p2 = p2
    o1 = o1
    o2 = o2
    f1 = f1
    Proc <- TwoProcs
    Oper <- TwoOpers
    File <- OneFile
    Patch = {a}
    Base = base
    NoProc = NoProc
    NoOper = NoOper
    MaxEvents = 1
    Kinds = {"edit"}
SYMMETRY LJSymmetry
INVARIANTS FencedExclusion LapsedLeasesHarmless
CHECK_DEADLOCK FALSE
