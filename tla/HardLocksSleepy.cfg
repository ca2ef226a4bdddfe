SPECIFICATION FairSpec
CONSTANTS
    Run = {r1, r2}
    Path <- MCPath
    Request <- MCFinalizer
    Ttl = 2
    Guard = 1
    MaxTime = 4
    Timely = FALSE
INVARIANTS TypeOK TableExclusion ValidationExclusive JournalExcludesWriters
PROPERTIES  LocksEnd
CHECK_DEADLOCK FALSE
