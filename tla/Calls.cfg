SPECIFICATION CallsSpec
CONSTANTS
    Members = {"w1", "w2"}
    GatedMembers = {"w1"}
    FixPasses = 1
    MaxWrites = 1
    b1 = b1
    b2 = b2
    op = op
    Bridges <- TwoBridges
    Operator = op
    ModelCount = 2
    Budgets <- MCBudgets
    Acting <- MCActing
    MaxRequeues <- MCRequeues
    MaxJobs = 4
    MaxDrops = 1
INVARIANTS GroupSound ChainBounded
PROPERTIES CallsEnd
CHECK_DEADLOCK FALSE
