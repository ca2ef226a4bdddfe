SPECIFICATION BatchSpec
CONSTANTS
    a = a
    b = b
    x = x
    y = y
    NoInst = NoInst
    Inst <- TwoInst
    Job <- TwoJobs
    Batch <- TwoJobs
    MaxGen = 2
    Timely = TRUE
    Callers = {}
    Events = {}
    b1 = b1
    b2 = b2
    PlBridges <- TwoBridges
    PlItems = {"i1"}
    PlScenarios <- MCScenarios
    PlMaxEvents = 1
    AiBridges <- TwoBridges
    AiJobs = {"i1", "i2"}
    AiScenarios <- MCLandings
    WtJobs = {"w1", "w2", "w3"}
    NoJob = "basename"
    WtCapacity = 2
    WtTries = 3
    WtMaxWork = 2
    WtScenarios <- MCScenes
    Workers = {"first", "second"}
    Lines = {"l1"}
    FileOf <- MCFileOf
    MaxFaults = 1
    MaxCalls = 1
SYMMETRY BatchSymmetry
INVARIANTS BatchFailsTogether WorkingOwns SourcesKept LandedByOne ClaimsHold
PROPERTIES  LandsReviewedWork RemovalsSafe WorkersKeepOrder
CHECK_DEADLOCK FALSE
