SPECIFICATION WtSpec
CONSTANTS
    WtJobs = {"w1", "w2", "w3"}
    NoJob = "basename"
    WtCapacity = 2
    WtTries = 3
    WtMaxWork = 1
    WtScenarios <- MCOneScene
INVARIANTS CreatorsFinish
CHECK_DEADLOCK FALSE
