SPECIFICATION AgentRunSpec
CONSTANTS
    Jobs = {j1, j2}
    Providers = {pa, pb}
    ProviderOf <- MCProviderOf
    QuotaGroup = {pa, pb}
    EnvLimit = 1
    OwnLimits = {2}
    GlobalLimits = {0, 1}
    SlotEnd = 4
    MaxMeddling = 1
    SlotLeaseMs = 2
    GuardMs = 1
    WaitMs = 2
    PauseMs = 1
    PauseMaxMs = 2
    CooldownMaxMs = 3
    Declared = {fa}
    Others = {fb}
    RunEnd = 3
    WatchdogMs = 2
    RunLeaseMs = 2
    MaxControl = 1
    Activators = {"r1", "r2"}
    RunModes <- MCModes
    MaxTouches <- MCTouches
    MaxFaults <- MCFaults
INVARIANTS SlotsHeld AgentCovered   ReleasesKept
PROPERTIES SlotsCount KeepsItsWord NobodyWaits
CHECK_DEADLOCK FALSE
