----------------------------- MODULE MCAgentRun -----------------------------
(* Small instances of what is under one agent run: the provider slot it holds                *)
(* (ProviderSlots), the supervised process (SupervisedRun), the guard around an external     *)
(* runner (ExternalRun) and the release the bridge runs from (ReleaseActivation).  They      *)
(* share no state, so one of them moves in a behaviour and the others are at rest: the       *)
(* states checked are their sum, not their product.                                          *)
EXTENDS ProviderSlots, SupervisedRun, ExternalRun, ReleaseActivation

Pair(a, b) == [r \in Activators |-> IF r = "r1" THEN a ELSE b]
MCModes == {Pair("prune", "activate"), Pair("sync", "activate"), Pair("sync", "sync"),
            Pair("dirty", "off"), Pair("check", "off"), Pair("prune", "off")}
MCTouches == [m \in MCModes |-> IF m["r2"] = "off" THEN 2 ELSE IF m["r2"] = "sync" THEN 1 ELSE 0]
MCFaults == [m \in MCModes |-> IF m["r2"] = "activate" THEN 1 ELSE 2]

MCProviderOf == [j \in Jobs |-> CHOOSE p \in Providers : TRUE]

SlotsAtRest ==
    /\ time = SlotEnd /\ meddled = MaxMeddling /\ global = 0
    /\ row = [j \in Jobs |-> NoRow] /\ job = [j \in Jobs |-> "over"]
    /\ stored = [p \in Providers |-> 0] /\ own = [p \in Providers |-> 0]
    /\ pause = [k \in PauseKeys |-> 0]
    /\ strikes = [m \in Models |-> [count |-> 0, last |-> 0]]
    /\ waitUntil = [j \in Jobs |-> 0] /\ confirmed = [j \in Jobs |-> 0]
    /\ pulse = [j \in Jobs |-> NoPulse] /\ live = [j \in Jobs |-> FALSE]

RunAtRest ==
    /\ clock = 0 /\ platform = "posix" /\ run = "settled" /\ verdict = "none"
    /\ gate = [ready |-> FALSE, persisted |-> FALSE, failed |-> FALSE]
    /\ sent = FALSE /\ lease = RunLeaseMs /\ proving = FALSE
    /\ seen = [exit |-> NoEvent, unconfirmed |-> FALSE]
    /\ stdin = <<>> /\ stdinClosed = TRUE /\ events = <<>>
    /\ sup = "done" /\ watchdog = 0 /\ reason = "none" /\ child = "none" /\ desc = NoDesc

ExternalAtRest ==
    /\ ext = [runner |-> "codex", reading |-> TRUE, apart |-> FALSE]
    /\ step = "over" /\ sidecar = FALSE /\ target = [f \in Paths |-> "clean"]
    /\ profile = FALSE /\ before = NotTaken /\ after = NotTaken
    /\ journal = [open |-> FALSE, recent |-> FALSE] /\ started = FALSE
    /\ errorType = "refused" /\ paused = "none" /\ journalRead = TRUE /\ pi = "idle" /\ heard = Quiet

ReleaseAtRest ==
    /\ mode = Pair("off", "off") /\ tree = [now |-> "t1", head |-> "t1"]
    /\ disk = [f \in Folders |-> "none"] /\ manifest = disk
    /\ config = [entry |-> "tree", pin |-> "t1", note |-> 0] /\ claude = "tree" /\ saved = "none"
    /\ inUse = {} /\ rel = [r \in Activators |-> NewRun]
    /\ late = FALSE /\ lost = FALSE /\ overlap = FALSE /\ touches = 0 /\ faults = 0

AgentRunInit ==
    \/ SlotInit /\ RunAtRest /\ ExternalAtRest /\ ReleaseAtRest
    \/ RunInit /\ SlotsAtRest /\ ExternalAtRest /\ ReleaseAtRest
    \/ ExternalInit /\ SlotsAtRest /\ RunAtRest /\ ReleaseAtRest
    \/ ReleaseInit /\ SlotsAtRest /\ RunAtRest /\ ExternalAtRest

AgentRunNext ==
    \/ SlotNext /\ UNCHANGED <<runvars, externalvars, releasevars>>
    \/ RunNext /\ UNCHANGED <<slotvars, externalvars, releasevars>>
    \/ ExternalNext /\ UNCHANGED <<slotvars, runvars, releasevars>>
    \/ mode # Pair("off", "off") /\ ReleaseNext /\ UNCHANGED <<slotvars, runvars, externalvars>>

AgentRunSpec ==
    /\ AgentRunInit /\ [][AgentRunNext]_<<slotvars, runvars, externalvars, releasevars>>
    /\ RunFairness
=============================================================================
