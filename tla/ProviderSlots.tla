---------------------------- MODULE ProviderSlots ----------------------------
(***************************************************************************)
(* Provider slots: how many agents run at once on one provider account,    *)
(* across every bridge process of a host.  A slot is a row of              *)
(* provider_leases with an expiry its holder renews; a pause is a row of   *)
(* provider_cooldowns; the limits are rows of runtime_settings.            *)
(* (lib/provider-leases.js, lib/provider-quarantine.js, and the run that   *)
(* holds the slot, lib/opencode-run.js and lib/external-runners.js.)       *)
(*                                                                         *)
(* Of the agent only its life is kept, with the promises of AgentLife and  *)
(* of SupervisedRun: a contained end means a dead tree, and the tree of a  *)
(* lost bridge is killed by its supervisor before the lease it holds ends. *)
(***************************************************************************)
EXTENDS Integers, FiniteSets

CONSTANTS
    Jobs,          \* runs that want a slot
    Providers,
    ProviderOf,    \* the provider of each run
    QuotaGroup,    \* providers that share one quota (CODEX_OPENCODE_QUOTA_GROUPS)
    EnvLimit,      \* slots of a provider without a runtime override
    OwnLimits,     \* overrides an operator may set for a provider
    GlobalLimits,  \* values of the global worker cap, 0 for none
    SlotEnd,       \* bound: the last time of the clock
    MaxMeddling,   \* bound: steps of an operator
    SlotLeaseMs, GuardMs, WaitMs, PauseMs, PauseMaxMs, CooldownMaxMs

ASSUME SlotAssumption ==
    /\ ProviderOf \in [Jobs -> Providers] /\ QuotaGroup \subseteq Providers
    /\ IsFiniteSet(Jobs)
    /\ EnvLimit \in Nat \ {0} /\ OwnLimits \subseteq Nat \ {0} /\ GlobalLimits \subseteq Nat
    /\ {SlotEnd, WaitMs, PauseMs, PauseMaxMs, CooldownMaxMs} \subseteq Nat \ {0}
    /\ GuardMs \in Nat \ {0} /\ SlotLeaseMs \in Nat /\ SlotLeaseMs > GuardMs /\ MaxMeddling \in Nat

VARIABLES
    time,
    row,        \* expiry of each run's row of provider_leases, NoRow without one
    stored,     \* provider_capacities: the limit last stored for a provider, 0 for no row
    own,        \* runtime_settings: the override of each provider, 0 for none
    global,     \* the global worker cap
    pause,      \* provider_cooldowns: until_at of each pause key, 0 for none
    strikes,    \* provider_pause_strikes of each model key: [count, last]
    job,        \* where each run is
    waitUntil,  \* deadlineAt of waitForProviderLease
    confirmed,  \* lastConfirmedExpiresAt of the heartbeat
    pulse,      \* the clock read by a renewal in flight, or NoPulse
    live,       \* the agent's process tree is alive
    meddled     \* operator steps so far

slotvars == <<time, row, stored, own, global, pause, strikes, job, waitUntil, confirmed, pulse,
              live, meddled>>
settings == <<own, global, stored, meddled>>
pauses == <<pause, strikes>>

NoRow == 0
NoPulse == -1
Never == SlotEnd + SlotLeaseMs + 1     \* Number.MAX_SAFE_INTEGER: a quarantined slot
Models == {<<p, "model">> : p \in Providers}
PauseKeys == {<<p, "provider">> : p \in Providers} \cup Models

Max2(a, b) == IF a >= b THEN a ELSE b
Min2(a, b) == IF a <= b THEN a ELSE b

Phases == {"idle", "waiting", "granted", "running", "stopping", "quarantined", "unheld",
           "lost", "over"}

SlotTypeOK ==
    /\ row \in [Jobs -> 0..Never] /\ job \in [Jobs -> Phases]
    /\ stored \in [Providers -> OwnLimits \cup {0, EnvLimit}]
    /\ pause \in [PauseKeys -> 0..(SlotEnd + CooldownMaxMs)]
    /\ pulse \in [Jobs -> {NoPulse} \cup 0..SlotEnd] /\ live \in [Jobs -> BOOLEAN]

SlotInit ==
    /\ time = 1
    /\ row = [j \in Jobs |-> NoRow]
    /\ stored = [p \in Providers |-> 0]
    /\ own = [p \in Providers |-> 0]
    /\ global = 0
    /\ pause = [k \in PauseKeys |-> 0]
    /\ strikes = [m \in Models |-> [count |-> 0, last |-> 0]]
    /\ job = [j \in Jobs |-> "idle"]
    /\ waitUntil = [j \in Jobs |-> 0]
    /\ confirmed = [j \in Jobs |-> 0]
    /\ pulse = [j \in Jobs |-> NoPulse]
    /\ live = [j \in Jobs |-> FALSE]
    /\ meddled = 0

-----------------------------------------------------------------------------
(* The keys and limits a run is decided by.                                 *)

(* quotaGroupProviderKeys: every member's provider key, for a member.       *)
GroupKeys(p) ==
    IF p \in QuotaGroup THEN {<<q, "provider">> : q \in QuotaGroup} ELSE {}

(* The slot key, the model key under it and the keys of the quota group.    *)
KeysOf(j) == LET p == ProviderOf[j] IN
    {<<p, "provider">>, <<p, "model">>} \cup GroupKeys(p)

(* providerLimitForKey: a runtime override, else the environment's limit.   *)
LimitOf(p) == IF own[p] > 0 THEN own[p] ELSE EnvLimit

(* The rows an acquisition still sees after it deleted the expired ones.    *)
Held(p) == {j \in Jobs : row[j] > time /\ ProviderOf[j] = p}
AllHeld == {j \in Jobs : row[j] > time}

(* While slots of a provider are held, the stricter of the stored and the   *)
(* configured limit counts: another bridge may hold them under another      *)
(* configuration.                                                           *)
EffectiveCapacity(p) ==
    IF stored[p] # 0 /\ Held(p) # {} THEN Min2(stored[p], LimitOf(p)) ELSE LimitOf(p)

StoredAfter(p) ==
    IF stored[p] # 0 /\ Held(p) # {} THEN stored ELSE [stored EXCEPT ![p] = LimitOf(p)]

FreeSlot(p) ==
    /\ Cardinality(Held(p)) < EffectiveCapacity(p)
    /\ global = 0 \/ Cardinality(AllHeld) < global

-----------------------------------------------------------------------------
(* waitForProviderLease.                                                    *)

(* acquireProviderLease, after the attestation that names the provider.     *)
AskSlot(j) ==
    /\ job[j] = "idle" /\ time + WaitMs <= SlotEnd
    /\ job' = [job EXCEPT ![j] = "waiting"]
    /\ waitUntil' = [waitUntil EXCEPT ![j] = time + WaitMs]
    /\ UNCHANGED <<time, row, settings, pauses, confirmed, pulse, live>>

(* One look of the poll loop that finds a slot, as one transaction: expired *)
(* rows go, the limits in force are read, the row is inserted.              *)
TakeSlot(j) ==
    LET p == ProviderOf[j] IN
    /\ job[j] = "waiting" /\ time < waitUntil[j]
    /\ \A k \in KeysOf(j) : pause[k] <= time
    /\ FreeSlot(p)
    /\ stored' = StoredAfter(p)
    /\ row' = [i \in Jobs |-> IF i = j THEN time + SlotLeaseMs
                              ELSE IF row[i] <= time THEN NoRow ELSE row[i]]
    /\ pause' = [k \in PauseKeys |-> IF pause[k] <= time THEN 0 ELSE pause[k]]
    /\ job' = [job EXCEPT ![j] = "granted"]
    /\ confirmed' = [confirmed EXCEPT ![j] = time + SlotLeaseMs]
    /\ waitUntil' = [waitUntil EXCEPT ![j] = 0]
    /\ UNCHANGED <<time, own, global, meddled, strikes, pulse, live>>

(* A paused key refuses the run at once; so does the end of the wait budget.*)
(* The transaction is rolled back.                                          *)
RefuseSlot(j) ==
    /\ job[j] = "waiting"
    /\ \/ \E k \in KeysOf(j) : pause[k] > time
       \/ time >= waitUntil[j]
    /\ job' = [job EXCEPT ![j] = "over"]
    /\ waitUntil' = [waitUntil EXCEPT ![j] = 0]
    /\ UNCHANGED <<time, row, settings, pauses, confirmed, pulse, live>>

CancelWait(j) ==
    /\ job[j] = "waiting"
    /\ job' = [job EXCEPT ![j] = "over"]
    /\ waitUntil' = [waitUntil EXCEPT ![j] = 0]
    /\ UNCHANGED <<time, row, settings, pauses, confirmed, pulse, live>>

(* failBeforeSpawn: after the grant the run may still end before it has an  *)
(* agent (deadline or cancellation after COMMIT, queue ownership lost,      *)
(* attestation refused); the unused slot is given back.                     *)
FailBeforeSpawn(j) ==
    /\ job[j] = "granted" /\ pulse[j] = NoPulse
    /\ row' = [row EXCEPT ![j] = NoRow]
    /\ job' = [job EXCEPT ![j] = "over"]
    /\ confirmed' = [confirmed EXCEPT ![j] = 0]
    /\ UNCHANGED <<time, settings, pauses, waitUntil, pulse, live>>

-----------------------------------------------------------------------------
(* The run that holds the slot: heartbeat, fence and end.                   *)

FenceDue(j) == job[j] \in {"granted", "running"} /\ time >= confirmed[j] - GuardMs

(* runSpawnCommand starts the agent, unless a signal was already aborted.   *)
StartAgent(j) ==
    /\ job[j] = "granted" /\ ~FenceDue(j)
    /\ job' = [job EXCEPT ![j] = "running"]
    /\ live' = [live EXCEPT ![j] = TRUE]
    /\ UNCHANGED <<time, row, settings, pauses, waitUntil, confirmed, pulse>>

(* pulse(): the clock is read, then the row is updated.                     *)
PulseReads(j) ==
    /\ job[j] \in {"granted", "running"} /\ pulse[j] = NoPulse /\ confirmed[j] > time
    /\ pulse' = [pulse EXCEPT ![j] = time]
    /\ UNCHANGED <<time, row, settings, pauses, job, waitUntil, confirmed, live>>

LoseOwnership(j) == job' = [job EXCEPT ![j] = IF @ = "granted" THEN "over" ELSE "stopping"]

(* The update counts only for a row that is this owner's, had not expired   *)
(* at the clock that was read and is not quarantined.                       *)
PulseWrites(j) ==
    /\ pulse[j] # NoPulse /\ job[j] \in {"granted", "running", "stopping"}
    /\ IF row[j] > pulse[j] /\ row[j] < Never
       THEN /\ row' = [row EXCEPT ![j] = pulse[j] + SlotLeaseMs]
            /\ confirmed' = [confirmed EXCEPT ![j] = pulse[j] + SlotLeaseMs]
            /\ UNCHANGED job
       ELSE /\ IF job[j] = "stopping" THEN UNCHANGED job ELSE LoseOwnership(j)
            /\ UNCHANGED <<row, confirmed>>
    /\ pulse' = [pulse EXCEPT ![j] = NoPulse]
    /\ UNCHANGED <<time, settings, pauses, waitUntil, live>>

(* Mutant: a renewal that failed counts as one that was confirmed.          *)
FailureRenews(j) ==
    /\ pulse[j] # NoPulse
    /\ pulse' = [pulse EXCEPT ![j] = NoPulse]
    /\ confirmed' = [confirmed EXCEPT ![j] = pulse[j] + SlotLeaseMs]
    /\ UNCHANGED <<time, row, settings, pauses, job, waitUntil, live>>

(* A busy database proves nothing about ownership: the last confirmed       *)
(* expiry still holds.                                                      *)
PulseFails(j) ==
    /\ pulse[j] # NoPulse
    /\ pulse' = [pulse EXCEPT ![j] = NoPulse]
    /\ IF FenceDue(j) THEN LoseOwnership(j) ELSE UNCHANGED job
    /\ UNCHANGED <<time, row, settings, pauses, waitUntil, confirmed, live>>

(* The fence timer: not renewed before the fail-closed deadline.            *)
Fence(j) ==
    /\ FenceDue(j)
    /\ LoseOwnership(j)
    /\ UNCHANGED <<time, row, settings, pauses, waitUntil, confirmed, pulse, live>>

(* The run is over for any other reason: it ended, or was told to.          *)
RunEnds(j) ==
    /\ job[j] = "running"
    /\ job' = [job EXCEPT ![j] = "stopping"]
    /\ UNCHANGED <<time, row, settings, pauses, waitUntil, confirmed, pulse, live>>

(* The finally block: stop() waits for a renewal in flight, then the slot   *)
(* of a contained run is released.  A release that fails is only logged.    *)
Release(j) ==
    /\ job[j] = "stopping" /\ pulse[j] = NoPulse
    /\ live' = [live EXCEPT ![j] = FALSE]
    /\ row' \in {[row EXCEPT ![j] = NoRow], row}
    /\ job' = [job EXCEPT ![j] = "over"]
    /\ UNCHANGED <<time, settings, pauses, waitUntil, confirmed, pulse>>

(* An unconfirmed end keeps the slot without an expiry.  A row that expired *)
(* during a long termination is written again: the tree may still run.      *)
QuarantineSlot(j) ==
    /\ job[j] = "stopping" /\ pulse[j] = NoPulse
    /\ live' \in {live, [live EXCEPT ![j] = FALSE]}
    /\ row' = [row EXCEPT ![j] = Never]
    /\ job' = [job EXCEPT ![j] = "quarantined"]
    /\ UNCHANGED <<time, settings, pauses, waitUntil, confirmed, pulse>>

(* The quarantine could not be written: the result says so, the row expires.*)
QuarantineFails(j) ==
    /\ job[j] = "stopping" /\ pulse[j] = NoPulse
    /\ job' = [job EXCEPT ![j] = "unheld"]
    /\ UNCHANGED <<time, row, settings, pauses, waitUntil, confirmed, pulse, live>>

(* The bridge process dies; an agent it was already stopping is its         *)
(* supervisor's, its slot only lasts until the row expires.                 *)
BridgeLost(j) ==
    /\ job[j] \in {"waiting", "granted", "running", "stopping"}
    /\ job' = [job EXCEPT ![j] = IF @ = "stopping" THEN "unheld" ELSE "lost"]
    /\ pulse' = [pulse EXCEPT ![j] = NoPulse]
    /\ UNCHANGED <<time, row, settings, pauses, waitUntil, confirmed, live>>

AgentDies(j) ==
    /\ live[j]
    /\ live' = [live EXCEPT ![j] = FALSE]
    /\ UNCHANGED <<time, row, settings, pauses, job, waitUntil, confirmed, pulse>>

(* Mutant: a quarantined slot is reclaimed without a look at its processes. *)
ReclaimUnseen(j) ==
    /\ row[j] = Never
    /\ row' = [row EXCEPT ![j] = NoRow]
    /\ UNCHANGED <<time, settings, pauses, job, waitUntil, confirmed, pulse, live>>

(* reclaimProvenGoneProviderQuarantines: only what is proven gone.          *)
ReclaimQuarantine(j) ==
    /\ row[j] = Never /\ ~live[j]
    /\ row' = [row EXCEPT ![j] = NoRow]
    /\ job' = [job EXCEPT ![j] = "over"]
    /\ UNCHANGED <<time, settings, pauses, waitUntil, confirmed, pulse, live>>

-----------------------------------------------------------------------------
(* Pauses.                                                                  *)

(* recordProviderCooldown: an automatic pause never shortens one.           *)
Cooldown(keys, until) ==
    [k \in PauseKeys |-> IF k \in keys THEN Max2(pause[k], until) ELSE pause[k]]

(* recordRateLimitPause: jobs that trip on the same rate limit add no       *)
(* strike; a new one doubles the pause, up to its maximum; an old strike is *)
(* forgotten.  A reset time an external runner reported wins when it is     *)
(* later.  The quota group is paused until the same moment.                 *)
RateLimited(j) ==
    \E reset \in {0, CooldownMaxMs} :
    LET p == ProviderOf[j]
        m == <<p, "model">>
        recent == strikes[m].count > 0 /\ time - strikes[m].last < 2 * PauseMaxMs
        count == IF recent THEN strikes[m].count + 1 ELSE 1
        length == Min2(PauseMaxMs, Min2(CooldownMaxMs, PauseMs * 2 ^ (count - 1)))
        step == IF pause[m] > time THEN pause[m] ELSE time + length
        until == Max2(step, time + reset)
    IN
    /\ job[j] = "over" /\ confirmed[j] > 0
    /\ pause' = Cooldown({m} \cup GroupKeys(p), until)
    /\ strikes' = IF pause[m] > time THEN strikes
                  ELSE [strikes EXCEPT ![m] = [count |-> count, last |-> time]]
    /\ confirmed' = [confirmed EXCEPT ![j] = 0]
    /\ UNCHANGED <<time, row, settings, job, waitUntil, pulse, live>>

(* A hard quota with a reset time pauses the whole provider and its group.  *)
QuotaReached(j) ==
    LET p == ProviderOf[j] IN
    /\ job[j] = "over" /\ confirmed[j] > 0
    /\ pause' = Cooldown({<<p, "provider">>} \cup GroupKeys(p), time + CooldownMaxMs)
    /\ confirmed' = [confirmed EXCEPT ![j] = 0]
    /\ UNCHANGED <<time, row, settings, strikes, job, waitUntil, pulse, live>>

(* pauseProvider: an operator replaces what is there, shorter or longer.    *)
Meddle == meddled < MaxMeddling /\ meddled' = meddled + 1

PauseByOperator(k) ==
    /\ Meddle
    /\ pause' = [pause EXCEPT ![k] = time + 1]
    /\ UNCHANGED <<time, row, own, global, stored, strikes, job, waitUntil, confirmed, pulse,
                   live>>

(* resumeProvider: a model, or a provider with its models and the provider  *)
(* keys of its quota group; strikes of what is removed are forgotten.       *)
ResumeByOperator(k) ==
    LET p == k[1]
        removed == IF k \in Models THEN {k}
                   ELSE {<<p, "provider">>, <<p, "model">>} \cup GroupKeys(p)
        forgotten == IF k \in Models THEN {k} ELSE {<<p, "model">>}
    IN
    /\ Meddle
    /\ pause' = [x \in PauseKeys |-> IF x \in removed THEN 0 ELSE pause[x]]
    /\ strikes' = [m \in Models |-> IF m \in forgotten THEN [count |-> 0, last |-> 0]
                                    ELSE strikes[m]]
    /\ UNCHANGED <<time, row, own, global, stored, job, waitUntil, confirmed, pulse, live>>

-----------------------------------------------------------------------------
(* Limits.  setRuntimeConcurrency drops the stored capacity of a provider   *)
(* whose limit changes, so that a raise applies while slots are held.       *)
SetLimit(p, n) ==
    /\ own[p] # n
    /\ Meddle
    /\ own' = [own EXCEPT ![p] = n]
    /\ stored' = [stored EXCEPT ![p] = 0]
    /\ UNCHANGED <<time, row, global, pauses, job, waitUntil, confirmed, pulse, live>>

SetGlobalLimit(n) ==
    /\ global # n
    /\ Meddle
    /\ global' = n
    /\ UNCHANGED <<time, row, own, stored, pauses, job, waitUntil, confirmed, pulse, live>>

-----------------------------------------------------------------------------
(* Fence timers are prompt, and the supervisor of a lost bridge kills the   *)
(* agent before its lease ends (WithinLease of SupervisedRun).              *)
SlotTick ==
    /\ time < SlotEnd
    /\ \A j \in Jobs : ~FenceDue(j)
    /\ \A j \in Jobs : job[j] = "lost" /\ live[j] => time + 1 < confirmed[j]
    /\ time' = time + 1
    /\ UNCHANGED <<row, settings, pauses, job, waitUntil, confirmed, pulse, live>>

SlotJobStep(j) ==
    \/ AskSlot(j) \/ TakeSlot(j) \/ RefuseSlot(j) \/ CancelWait(j) \/ FailBeforeSpawn(j)
    \/ StartAgent(j) \/ PulseReads(j) \/ PulseWrites(j) \/ PulseFails(j) \/ Fence(j)
    \/ RunEnds(j) \/ Release(j) \/ QuarantineSlot(j) \/ QuarantineFails(j) \/ BridgeLost(j)
    \/ AgentDies(j) \/ ReclaimQuarantine(j) \/ RateLimited(j) \/ QuotaReached(j)

SlotOperatorStep ==
    \/ \E k \in PauseKeys : PauseByOperator(k) \/ ResumeByOperator(k)
    \/ \E p \in Providers, n \in OwnLimits \cup {0} : SetLimit(p, n)
    \/ \E n \in GlobalLimits : SetGlobalLimit(n)

SlotNext == (\E j \in Jobs : SlotJobStep(j)) \/ SlotOperatorStep \/ SlotTick
SlotSpec == SlotInit /\ [][SlotNext]_slotvars

-----------------------------------------------------------------------------
(* An agent that was neither fenced nor told to stop, of a live bridge, of  *)
(* a lost one, or left behind by a kill that could not be confirmed.        *)
Working(j) == live[j] /\ job[j] \in {"running", "lost", "quarantined"}

(* A slot is granted only while fewer agents than the limit now in force    *)
(* really run, on the provider and under the global cap: across expired     *)
(* leases, lost bridges, failed renewals, quarantines that outlived their   *)
(* lease and limits that were changed meanwhile.                            *)
GrantCountsAgents ==
    \A j \in Jobs : job[j] = "waiting" /\ job'[j] = "granted" =>
        /\ Cardinality({i \in Jobs : Working(i) /\ ProviderOf[i] = ProviderOf[j]})
             < LimitOf(ProviderOf[j])
        /\ global = 0 \/ Cardinality({i \in Jobs : Working(i)}) < global

(* An unfenced agent has its own live row: nobody takes its slot while it   *)
(* runs, whatever happened to its renewals.                                 *)
RunningHoldsSlot == \A j \in Jobs : job[j] = "running" => row[j] > time

(* A slot whose tree may still run is held until it is proven gone.         *)
QuarantineHolds == \A j \in Jobs : job[j] = "quarantined" => row[j] = Never

(* The rows of provider_leases cover every agent that may run (the pulses,  *)
(* quarantineProviderLease and reclaimProvenGoneProviderQuarantines).       *)
SlotsHeld == SlotTypeOK /\ RunningHoldsSlot /\ QuarantineHolds

(* What the bridge records by itself never shortens a pause, and the runs   *)
(* that trip on one rate limit strike it once: two parallel failures must   *)
(* not double the pause.                                                    *)
PauseOnlyGrows ==
    \A j \in Jobs : RateLimited(j) \/ QuotaReached(j) =>
        /\ \A k \in PauseKeys : pause'[k] >= pause[k]
        /\ \A m \in Models : strikes'[m] # strikes[m] => pause[m] <= time

(* Slots and pauses count what really runs (acquireProviderLease,           *)
(* quarantineProviderLease, recordProviderCooldown).                        *)
SlotsCount == [][GrantCountsAgents /\ PauseOnlyGrows]_slotvars
=============================================================================
