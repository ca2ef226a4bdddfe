--------------------------- MODULE AgentRunProofs ---------------------------
(***************************************************************************)
(* Proofs about what is under one agent run.                               *)
(*                                                                         *)
(* ProviderSlots, for every set of runs, of providers and of limits, and   *)
(* for every lease and guard time: an unfenced agent holds its slot, a     *)
(* quarantined slot stays held, and a slot is granted only under the       *)
(* limits in force.                                                        *)
(*                                                                         *)
(* SupervisedRun, for every clock bound, watchdog and lease: the agent of  *)
(* a live supervisor never outlives the durable lease, and the run keeps   *)
(* the promises of AgentLife to its caller.                                *)
(***************************************************************************)
EXTENDS ProviderSlots, SupervisedRun, FiniteSetTheorems, SequenceTheorems, TLAPS

(* The types the argument needs.                                            *)
SlotTyped ==
    /\ SlotTypeOK
    /\ time \in 1..SlotEnd
    /\ confirmed \in [Jobs -> Nat]
    /\ own \in [Providers -> OwnLimits \cup {0}] /\ global \in Nat
    /\ strikes \in [Models -> [count : Nat, last : Nat]]

(* A renewal in flight read a clock that is past, and can only extend what  *)
(* was last confirmed; a run without a slot renews nothing.                 *)
PulseExtends(j) ==
    /\ confirmed[j] <= time + SlotLeaseMs
    /\ pulse[j] # NoPulse => pulse[j] <= time /\ confirmed[j] <= pulse[j] + SlotLeaseMs
    /\ job[j] \in {"idle", "waiting"} => pulse[j] = NoPulse

(* A run that was granted a slot, or runs, owns the row it last confirmed,  *)
(* and so does an agent whose bridge is lost.  A run without an agent has   *)
(* no live tree.                                                            *)
OwnsRow(j) ==
    /\ job[j] \in {"granted", "running"} => row[j] = confirmed[j] /\ confirmed[j] > time
    /\ job[j] = "lost" /\ live[j] => row[j] = confirmed[j] /\ confirmed[j] > time
    /\ job[j] \in {"idle", "waiting", "granted"} => ~live[j]
    /\ job[j] = "quarantined" => row[j] = Never

SlotInv == SlotTyped /\ \A j \in Jobs : PulseExtends(j) /\ OwnsRow(j)

-----------------------------------------------------------------------------
(* The initial state satisfies the invariant.                               *)
LEMMA SlotInitInv == SlotInit => SlotInv
  <1> SUFFICES ASSUME SlotInit PROVE SlotInv
    OBVIOUS
  <1> USE SlotAssumption DEF SlotInit
  <1>1. SlotTyped
    BY DEF SlotTyped, SlotTypeOK, Never, NoRow, NoPulse, Phases
  <1>2. \A j \in Jobs : PulseExtends(j) /\ OwnsRow(j)
    BY DEF PulseExtends, OwnsRow, NoRow, NoPulse
  <1> QED BY <1>1, <1>2 DEF SlotInv

(* No expiry of a lease is mistaken for a quarantine.                       *)
LEMMA RowBounds ==
    /\ Never \in Nat /\ NoRow \in 0..Never /\ Never \in 0..Never
    /\ \A t \in 0..SlotEnd : t + SlotLeaseMs \in 0..Never /\ t + SlotLeaseMs < Never
  BY SlotAssumption DEF Never, NoRow

(* What the bridge records by itself keeps every pause, or makes it longer. *)
LEMMA CooldownGrows ==
    ASSUME SlotTypeOK, NEW keys, NEW until \in Int, until <= SlotEnd + CooldownMaxMs
    PROVE  /\ Cooldown(keys, until) \in [PauseKeys -> 0..(SlotEnd + CooldownMaxMs)]
           /\ \A k \in PauseKeys : Cooldown(keys, until)[k] >= pause[k]
  <1>1. ASSUME NEW k \in PauseKeys
        PROVE  /\ pause[k] \in 0..(SlotEnd + CooldownMaxMs)
               /\ Max2(pause[k], until) \in 0..(SlotEnd + CooldownMaxMs)
               /\ Max2(pause[k], until) >= pause[k]
    <2>1. pause[k] \in 0..(SlotEnd + CooldownMaxMs)
      BY DEF SlotTypeOK
    <2> QED BY <2>1, SlotAssumption DEF Max2
  <1>2. \A k \in PauseKeys : pause[k] >= pause[k]
    BY <1>1
  <1> QED BY <1>1, <1>2 DEF Cooldown

(* A pause the bridge records is no longer than the longest, and a strike   *)
(* is counted only for a model that was not paused.                         *)
LEMMA RateLimitPauses ==
    ASSUME SlotTyped, NEW j \in Jobs, RateLimited(j)
    PROVE  /\ \E keys : \E until \in Int :
                 until <= SlotEnd + CooldownMaxMs /\ pause' = Cooldown(keys, until)
           /\ strikes' \in [Models -> [count : Nat, last : Nat]]
           /\ \A m \in Models : strikes'[m] # strikes[m] => pause[m] <= time
  <1> USE SlotAssumption DEF SlotTyped, SlotTypeOK
  <1> DEFINE m == <<ProviderOf[j], "model">>
  <1>1. m \in Models /\ m \in PauseKeys
    BY DEF Models, PauseKeys
  <1>2. pause[m] \in 0..(SlotEnd + CooldownMaxMs) /\ strikes[m].count \in Nat
    BY <1>1
  <1> DEFINE count == IF strikes[m].count > 0 /\ time - strikes[m].last < 2 * PauseMaxMs
                      THEN strikes[m].count + 1 ELSE 1
             length == Min2(PauseMaxMs, Min2(CooldownMaxMs, PauseMs * 2 ^ (count - 1)))
             first == IF pause[m] > time THEN pause[m] ELSE time + length
  <1>3. count \in Nat \ {0}
    BY <1>2
  <1>4. 2 ^ (count - 1) \in Int
    <2>1. count - 1 \in Nat
      BY <1>3
    <2> QED BY <2>1
  <1>5. PauseMs * 2 ^ (count - 1) \in Int
    BY <1>4
  <1>6. length \in Int /\ length <= CooldownMaxMs
    BY <1>5 DEF Min2
  <1>7. first \in Int /\ first <= SlotEnd + CooldownMaxMs
    BY <1>2, <1>6
  <1>8. PICK reset \in {0, CooldownMaxMs} :
          /\ pause' = Cooldown({m} \cup GroupKeys(ProviderOf[j]), Max2(first, time + reset))
          /\ strikes' = IF pause[m] > time THEN strikes
                        ELSE [strikes EXCEPT ![m] = [count |-> count, last |-> time]]
    BY DEF RateLimited
  <1>9. Max2(first, time + reset) \in Int /\ Max2(first, time + reset) <= SlotEnd + CooldownMaxMs
    BY <1>7 DEF Max2
  <1>10. strikes' \in [Models -> [count : Nat, last : Nat]]
    BY <1>1, <1>3, <1>8
  <1>11. \A n \in Models : strikes'[n] # strikes[n] => pause[n] <= time
    <2>1. CASE pause[m] > time
      BY <1>8, <2>1
    <2>2. CASE pause[m] <= time
      <3>1. \A n \in Models \ {m} : strikes'[n] = strikes[n]
        BY <1>1, <1>2, <1>8, <2>2
      <3> QED BY <2>2, <3>1
    <2> QED BY <1>2, <2>1, <2>2
  <1> HIDE DEF count, length, first
  <1> QED BY <1>8, <1>9, <1>10, <1>11

(* A limit in force is a number of slots, and a configured one at least.    *)
LEMMA LimitIsNumber ==
    ASSUME NEW p \in Providers, SlotTyped
    PROVE  LimitOf(p) \in Nat /\ StoredAfter(p) \in [Providers -> OwnLimits \cup {0, EnvLimit}]
  <1> USE SlotAssumption DEF SlotTyped, SlotTypeOK
  <1>1. own[p] \in Nat
    <2>1. own[p] \in OwnLimits \cup {0}
      OBVIOUS
    <2>2. \A n \in OwnLimits \cup {0} : n \in Nat
      OBVIOUS
    <2> QED BY <2>1, <2>2, Zenon
  <1>2. LimitOf(p) \in Nat
    BY <1>1 DEF LimitOf
  <1>3. LimitOf(p) \in OwnLimits \cup {0, EnvLimit}
    BY DEF LimitOf
  <1>4. StoredAfter(p) \in [Providers -> OwnLimits \cup {0, EnvLimit}]
    BY <1>3 DEF StoredAfter
  <1> QED BY <1>2, <1>4

(* What a run asks and is refused: before it has an agent.                  *)
LEMMA AskingInv ==
    ASSUME SlotInv, NEW j \in Jobs,
           AskSlot(j) \/ TakeSlot(j) \/ RefuseSlot(j) \/ CancelWait(j) \/ FailBeforeSpawn(j)
    PROVE  SlotInv'
  <1> USE SlotAssumption DEF SlotInv, SlotTyped, SlotTypeOK, Phases, NoRow, NoPulse, settings, pauses
  <1>1. CASE AskSlot(j)
    BY <1>1 DEF AskSlot, PulseExtends, OwnsRow
  <1>2. CASE TakeSlot(j)
    <2>1. SlotTyped'
      <3>1. ProviderOf[j] \in Providers
        OBVIOUS
      <3>2. StoredAfter(ProviderOf[j]) \in [Providers -> OwnLimits \cup {0, EnvLimit}]
        BY <3>1, LimitIsNumber
      <3>3. row' \in [Jobs -> 0..Never]
        BY <1>2, RowBounds DEF TakeSlot
      <3>4. pause' \in [PauseKeys -> 0..(SlotEnd + CooldownMaxMs)]
        BY <1>2 DEF TakeSlot
      <3> QED BY <1>2, <3>2, <3>3, <3>4 DEF TakeSlot
    <2>2. \A i \in Jobs : PulseExtends(i)'
      BY <1>2 DEF TakeSlot, PulseExtends
    <2>3. \A i \in Jobs : OwnsRow(i)'
      BY <1>2 DEF TakeSlot, OwnsRow, Never
    <2> QED BY <2>1, <2>2, <2>3
  <1>3. CASE RefuseSlot(j)
    BY <1>3 DEF RefuseSlot, PulseExtends, OwnsRow
  <1>4. CASE CancelWait(j)
    BY <1>4 DEF CancelWait, PulseExtends, OwnsRow
  <1>5. CASE FailBeforeSpawn(j)
    BY <1>5, RowBounds DEF FailBeforeSpawn, PulseExtends, OwnsRow
  <1> QED BY <1>1, <1>2, <1>3, <1>4, <1>5

(* The heartbeat, its fence and the start of the agent.                     *)
LEMMA HeartbeatInv ==
    ASSUME SlotInv, NEW j \in Jobs,
           StartAgent(j) \/ PulseReads(j) \/ PulseWrites(j) \/ PulseFails(j) \/ Fence(j)
    PROVE  SlotInv'
  <1> USE SlotAssumption DEF SlotInv, SlotTyped, SlotTypeOK, Phases, NoRow, NoPulse, settings, pauses
  <1>1. CASE StartAgent(j)
    BY <1>1 DEF StartAgent, PulseExtends, OwnsRow
  <1>2. CASE PulseReads(j)
    BY <1>2 DEF PulseReads, PulseExtends, OwnsRow
  <1>3. CASE PulseWrites(j)
    <2>1. SlotTyped'
      <3>1. pulse[j] \in Nat
        BY <1>3 DEF PulseWrites
      <3>2. pulse[j] + SlotLeaseMs \in 0..Never
        BY <3>1, RowBounds
      <3>3. row' \in [Jobs -> 0..Never] /\ confirmed' \in [Jobs -> Nat]
        BY <1>3, <3>2, RowBounds DEF PulseWrites
      <3> QED BY <1>3, <3>3 DEF PulseWrites, LoseOwnership
    <2>2. \A i \in Jobs : PulseExtends(i)'
      <3>1. pulse[j] \in Nat /\ PulseExtends(j)
        BY <1>3 DEF PulseWrites
      <3>2. PulseExtends(j)'
        BY <1>3, <3>1 DEF PulseWrites, LoseOwnership, PulseExtends
      <3>3. \A i \in Jobs \ {j} : PulseExtends(i)'
        BY <1>3 DEF PulseWrites, LoseOwnership, PulseExtends
      <3> QED BY <3>2, <3>3
    <2>3. \A i \in Jobs : OwnsRow(i)'
      BY <1>3 DEF PulseWrites, LoseOwnership, PulseExtends, OwnsRow, Never
    <2> QED BY <2>1, <2>2, <2>3
  <1>4. CASE PulseFails(j)
    BY <1>4 DEF PulseFails, FenceDue, LoseOwnership, PulseExtends, OwnsRow
  <1>5. CASE Fence(j)
    BY <1>5 DEF Fence, FenceDue, LoseOwnership, PulseExtends, OwnsRow
  <1> QED BY <1>1, <1>2, <1>3, <1>4, <1>5

(* The end of a run, and what is left of it.                                *)
LEMMA EndingInv ==
    ASSUME SlotInv, NEW j \in Jobs,
           \/ RunEnds(j) \/ Release(j) \/ QuarantineSlot(j) \/ QuarantineFails(j)
           \/ BridgeLost(j) \/ AgentDies(j) \/ ReclaimQuarantine(j)
           \/ RateLimited(j) \/ QuotaReached(j)
    PROVE  SlotInv'
  <1> USE SlotAssumption DEF SlotInv, SlotTyped, SlotTypeOK, Phases, NoRow, NoPulse, settings, pauses
  <1>1. CASE RunEnds(j)
    BY <1>1 DEF RunEnds, PulseExtends, OwnsRow
  <1>2. CASE Release(j)
    BY <1>2, RowBounds DEF Release, PulseExtends, OwnsRow
  <1>3. CASE QuarantineSlot(j)
    <2>1. SlotTyped'
      BY <1>3, RowBounds DEF QuarantineSlot
    <2>2. \A i \in Jobs : PulseExtends(i)' /\ OwnsRow(i)'
      BY <1>3, RowBounds DEF QuarantineSlot, PulseExtends, OwnsRow
    <2> QED BY <2>1, <2>2
  <1>4. CASE QuarantineFails(j)
    BY <1>4 DEF QuarantineFails, PulseExtends, OwnsRow
  <1>5. CASE BridgeLost(j)
    BY <1>5 DEF BridgeLost, PulseExtends, OwnsRow
  <1>6. CASE AgentDies(j)
    BY <1>6 DEF AgentDies, PulseExtends, OwnsRow
  <1>7. CASE ReclaimQuarantine(j)
    BY <1>7, RowBounds DEF ReclaimQuarantine, PulseExtends, OwnsRow
  <1>8. CASE RateLimited(j)
    <2>1. pause' \in [PauseKeys -> 0..(SlotEnd + CooldownMaxMs)]
      BY <1>8, RateLimitPauses, CooldownGrows
    <2>2. strikes' \in [Models -> [count : Nat, last : Nat]]
      BY <1>8, RateLimitPauses
    <2>3. /\ job[j] = "over" /\ confirmed' = [confirmed EXCEPT ![j] = 0]
          /\ UNCHANGED <<time, row, settings, job, waitUntil, pulse, live>>
      BY <1>8 DEF RateLimited
    <2>4. SlotTyped'
      BY <2>1, <2>2, <2>3
    <2>5. \A i \in Jobs : PulseExtends(i)' /\ OwnsRow(i)'
      BY <2>3 DEF PulseExtends, OwnsRow
    <2> QED BY <2>4, <2>5
  <1>9. CASE QuotaReached(j)
    <2>1. time + CooldownMaxMs \in Int /\ time + CooldownMaxMs <= SlotEnd + CooldownMaxMs
      OBVIOUS
    <2>2. pause' \in [PauseKeys -> 0..(SlotEnd + CooldownMaxMs)]
      BY <1>9, <2>1, CooldownGrows DEF QuotaReached
    <2>3. SlotTyped'
      BY <1>9, <2>2 DEF QuotaReached
    <2>4. \A i \in Jobs : PulseExtends(i)' /\ OwnsRow(i)'
      BY <1>9 DEF QuotaReached, PulseExtends, OwnsRow
    <2> QED BY <2>3, <2>4
  <1> QED BY <1>1, <1>2, <1>3, <1>4, <1>5, <1>6, <1>7, <1>8, <1>9

(* Operators touch limits and pauses only.                                  *)
LEMMA OperatorInv ==
    ASSUME SlotInv, SlotOperatorStep
    PROVE  SlotInv'
  <1> USE SlotAssumption DEF SlotInv, SlotTyped, SlotTypeOK, settings, pauses
  <1>1. CASE \E k \in PauseKeys : PauseByOperator(k) \/ ResumeByOperator(k)
    <2>1. PICK k \in PauseKeys : PauseByOperator(k) \/ ResumeByOperator(k)
      BY <1>1
    <2>2. pause' \in [PauseKeys -> 0..(SlotEnd + CooldownMaxMs)]
      BY <2>1 DEF PauseByOperator, ResumeByOperator
    <2>3. strikes' \in [Models -> [count : Nat, last : Nat]]
      <3>1. [count |-> 0, last |-> 0] \in [count : Nat, last : Nat]
        OBVIOUS
      <3> QED BY <2>1, <3>1 DEF PauseByOperator, ResumeByOperator
    <2> QED BY <2>1, <2>2, <2>3 DEF PauseByOperator, ResumeByOperator, PulseExtends, OwnsRow
  <1>2. CASE \E p \in Providers, n \in OwnLimits \cup {0} : SetLimit(p, n)
    BY <1>2 DEF SetLimit, PulseExtends, OwnsRow
  <1>3. CASE \E n \in GlobalLimits : SetGlobalLimit(n)
    BY <1>3 DEF SetGlobalLimit, PulseExtends, OwnsRow
  <1> QED BY <1>1, <1>2, <1>3 DEF SlotOperatorStep

(* Time passes no fence that is due, and no kill that is due.               *)
LEMMA TickInv ==
    ASSUME SlotInv, SlotTick
    PROVE  SlotInv'
  <1> USE SlotAssumption DEF SlotInv, SlotTyped, SlotTypeOK, SlotTick, settings, pauses
  <1>1. SlotTyped'
    OBVIOUS
  <1>2. \A i \in Jobs : PulseExtends(i)'
    BY DEF PulseExtends
  <1>3. \A i \in Jobs : OwnsRow(i)'
    BY DEF OwnsRow, FenceDue
  <1> QED BY <1>1, <1>2, <1>3

LEMMA SlotStepInv == SlotInv /\ [SlotNext]_slotvars => SlotInv'
  <1> SUFFICES ASSUME SlotInv, [SlotNext]_slotvars PROVE SlotInv'
    OBVIOUS
  <1>1. CASE \E j \in Jobs : SlotJobStep(j)
    BY <1>1, AskingInv, HeartbeatInv, EndingInv DEF SlotJobStep
  <1>2. CASE SlotOperatorStep
    BY <1>2, OperatorInv
  <1>3. CASE SlotTick
    BY <1>3, TickInv
  <1>4. CASE UNCHANGED slotvars
    BY <1>4 DEF slotvars, settings, pauses, SlotInv, SlotTyped, SlotTypeOK, PulseExtends, OwnsRow
  <1> QED BY <1>1, <1>2, <1>3, <1>4 DEF SlotNext

(* The stored pulses only extend a lease, and a job acts on a row it owns   *)
(* (acquireProviderLease, renewProviderLease).                              *)
THEOREM SlotInvariant == SlotSpec => []SlotInv
  BY SlotInitInv, SlotStepInv, PTL DEF SlotSpec

(* An unfenced agent has its own live row, whatever happened to its         *)
(* renewals, and a slot whose tree may still run is held until it is proven *)
(* gone (startProviderLeaseHeartbeat, quarantineProviderLease).             *)
THEOREM SlotsCoverAgents == SlotSpec => []SlotsHeld
  <1>1. SlotInv => SlotsHeld
    BY DEF SlotInv, SlotTyped, OwnsRow, SlotsHeld, RunningHoldsSlot, QuarantineHolds
  <1> QED BY <1>1, SlotInvariant, PTL

-----------------------------------------------------------------------------
(* The agents that really run are among the rows an acquisition counts.     *)
LEMMA WorkingIsHeld ==
    ASSUME SlotInv, NEW i \in Jobs, Working(i)
    PROVE  row[i] > time
  BY SlotAssumption DEF SlotInv, SlotTyped, OwnsRow, Working, Never

(* Only TakeSlot grants a slot.                                             *)
LEMMA OnlyTakeGrants ==
    ASSUME SlotInv, [SlotNext]_slotvars, NEW j \in Jobs,
           job[j] = "waiting", job'[j] = "granted"
    PROVE  TakeSlot(j)
  <1> USE DEF SlotInv, SlotTyped, SlotTypeOK, settings, pauses
  <1>1. CASE \E i \in Jobs : SlotJobStep(i)
    <2>1. PICK i \in Jobs : SlotJobStep(i)
      BY <1>1
    <2>2. CASE TakeSlot(i)
      BY <2>2 DEF TakeSlot
    <2>3. CASE AskSlot(i) \/ RefuseSlot(i) \/ CancelWait(i) \/ FailBeforeSpawn(i)
      BY <2>3 DEF AskSlot, RefuseSlot, CancelWait, FailBeforeSpawn
    <2>4. CASE StartAgent(i) \/ PulseReads(i) \/ PulseWrites(i) \/ PulseFails(i) \/ Fence(i)
      BY <2>4 DEF StartAgent, PulseReads, PulseWrites, PulseFails, Fence, LoseOwnership
    <2>5. CASE RunEnds(i) \/ Release(i) \/ QuarantineSlot(i) \/ QuarantineFails(i)
      BY <2>5 DEF RunEnds, Release, QuarantineSlot, QuarantineFails
    <2>6. CASE BridgeLost(i) \/ AgentDies(i) \/ ReclaimQuarantine(i) \/ RateLimited(i)
               \/ QuotaReached(i)
      BY <2>6 DEF BridgeLost, AgentDies, ReclaimQuarantine, RateLimited, QuotaReached
    <2> QED BY <2>1, <2>2, <2>3, <2>4, <2>5, <2>6 DEF SlotJobStep
  <1>2. CASE SlotOperatorStep \/ SlotTick
    BY <1>2 DEF SlotOperatorStep, PauseByOperator, ResumeByOperator, SetLimit, SetGlobalLimit,
                SlotTick
  <1>3. CASE UNCHANGED slotvars
    BY <1>3 DEF slotvars
  <1> QED BY <1>1, <1>2, <1>3 DEF SlotNext

(* The limits are applied to at least the agents that run.                  *)
LEMMA GrantWithinLimits ==
    ASSUME SlotInv, [SlotNext]_slotvars
    PROVE  GrantCountsAgents
  <1> SUFFICES ASSUME NEW j \in Jobs, job[j] = "waiting", job'[j] = "granted"
               PROVE  /\ Cardinality({i \in Jobs : Working(i) /\ ProviderOf[i] = ProviderOf[j]})
                            < LimitOf(ProviderOf[j])
                      /\ global = 0 \/ Cardinality({i \in Jobs : Working(i)}) < global
    BY DEF GrantCountsAgents
  <1> DEFINE p == ProviderOf[j]
             mine == {i \in Jobs : Working(i) /\ ProviderOf[i] = p}
             all == {i \in Jobs : Working(i)}
  <1>1. FreeSlot(p)
    BY OnlyTakeGrants DEF TakeSlot
  <1>2. IsFiniteSet(Held(p)) /\ IsFiniteSet(AllHeld)
    BY SlotAssumption, FS_Subset DEF Held, AllHeld
  <1>3. mine \subseteq Held(p) /\ all \subseteq AllHeld
    BY WorkingIsHeld DEF Held, AllHeld
  <1>4. /\ Cardinality(mine) \in Nat /\ Cardinality(mine) <= Cardinality(Held(p))
        /\ Cardinality(all) \in Nat /\ Cardinality(all) <= Cardinality(AllHeld)
        /\ Cardinality(Held(p)) \in Nat /\ Cardinality(AllHeld) \in Nat
    BY <1>2, <1>3, FS_Subset, FS_CardinalityType
  <1>5. p \in Providers /\ stored[p] \in Nat /\ LimitOf(p) \in Nat
    <2>1. p \in Providers
      BY SlotAssumption
    <2>2. stored[p] \in OwnLimits \cup {0, EnvLimit}
      BY <2>1 DEF SlotInv, SlotTyped, SlotTypeOK
    <2>3. \A n \in OwnLimits \cup {0, EnvLimit} : n \in Nat
      BY SlotAssumption
    <2>4. LimitOf(p) \in Nat
      BY <2>1, LimitIsNumber DEF SlotInv
    <2> QED BY <2>1, <2>2, <2>3, <2>4, Zenon
  <1>6. EffectiveCapacity(p) \in Nat /\ EffectiveCapacity(p) <= LimitOf(p)
    BY <1>5 DEF EffectiveCapacity, Min2
  <1>7. Cardinality(mine) < LimitOf(p)
    BY <1>1, <1>4, <1>5, <1>6 DEF FreeSlot
  <1>8. global = 0 \/ Cardinality(all) < global
    BY <1>1, <1>4 DEF FreeSlot, SlotInv, SlotTyped
  <1> QED BY <1>7, <1>8

(* A rate limit never shortens a pause, and strikes only what was not       *)
(* paused; a quota pauses no less.                                          *)
LEMMA AutomaticPauses ==
    ASSUME SlotInv
    PROVE  PauseOnlyGrows
  <1> USE SlotAssumption DEF SlotInv, SlotTyped
  <1> SUFFICES ASSUME NEW j \in Jobs, RateLimited(j) \/ QuotaReached(j)
               PROVE  /\ \A k \in PauseKeys : pause'[k] >= pause[k]
                      /\ \A m \in Models : strikes'[m] # strikes[m] => pause[m] <= time
    BY DEF PauseOnlyGrows
  <1>1. CASE RateLimited(j)
    BY <1>1, RateLimitPauses, CooldownGrows
  <1>2. CASE QuotaReached(j)
    <2>1. time + CooldownMaxMs \in Int /\ time + CooldownMaxMs <= SlotEnd + CooldownMaxMs
      OBVIOUS
    <2> QED BY <1>2, <2>1, CooldownGrows DEF QuotaReached
  <1> QED BY <1>1, <1>2

(* A slot is granted only while fewer agents than the limits in force       *)
(* really run, across expired leases, lost bridges and quarantines; and     *)
(* what the bridge records by itself never shortens a pause                 *)
(* (acquireProviderLease, recordRateLimitPause).                            *)
THEOREM SlotsCountAgents == SlotSpec => SlotsCount
  <1>1. SlotInv /\ [SlotNext]_slotvars => [GrantCountsAgents /\ PauseOnlyGrows]_slotvars
    BY GrantWithinLimits, AutomaticPauses
  <1> QED BY <1>1, SlotInvariant, PTL DEF SlotSpec, SlotsCount

-----------------------------------------------------------------------------
(* What is on its way to the supervisor: no deadline beyond the durable     *)
(* lease, and no launch before the bridge sent one.                         *)
Messages ==
    [type : {"heartbeat"} \cup (IF sent THEN {"launch"} ELSE {}), deadline : 0..lease]
        \cup {[type |-> "terminate"]}

(* What is on its way to the bridge: an exit event is the last word of a    *)
(* supervisor, and one that does not admit a failed termination is true of  *)
(* the process tree.                                                        *)
Exits ==
    [type : {"exit"}, why : {"no_payload", "payload_closed", "none", "asked", "watchdog_expired"},
     confirmed : BOOLEAN, error : {"none", "expired", "spawn_failed", "termination_unconfirmed"}]
TreeOver == child = "none" \/ Contained
HonestExits ==
    {e \in Exits : sup = "done" /\ (e.error # "termination_unconfirmed" => TreeOver)}
Told ==
    {[type |-> "ready"], [type |-> "launched"], [type |-> "unconfirmed"]} \cup HonestExits

Deadlines == 0..(RunEnd + RunLeaseMs)
RunTyped ==
    /\ clock \in 0..RunEnd /\ lease \in Deadlines /\ watchdog \in Deadlines
    /\ platform \in {"posix", "win32"}
    /\ run \in {"gate", "launched", "stopping", "settled", "lost"}
    /\ gate \in [ready : BOOLEAN, persisted : BOOLEAN, failed : BOOLEAN]
    /\ verdict \in {"none", "contained", "unconfirmed"}
    /\ sup \in {"booting", "ready", "running", "killing", "done", "gone"}
    /\ child \in {"none", "alive", "exited"} /\ desc \in Descendants \cup {NoDesc}
    /\ sent \in BOOLEAN /\ proving \in BOOLEAN
    /\ reason \in {"none", "asked", "watchdog_expired"}

(* The messages and the last exit event the bridge has read.                *)
PipesSound ==
    /\ stdin \in Seq(Messages)
    /\ events \in Seq(Told)
    /\ seen \in [exit : HonestExits \cup {NoEvent}, unconfirmed : BOOLEAN]

(* A tree exists only after a launch; a contained result is given when the  *)
(* supervisor starts nothing any more.                                      *)
TreeSound ==
    /\ sup \in {"booting", "ready"} => child = "none"
    /\ sup \in {"running", "killing"} => child # "none"
    /\ child = "none" => desc = NoDesc
    /\ ~sent => child = "none"
    /\ verdict = "none" <=> run # "settled"
    /\ verdict = "contained" => sup \in {"done", "gone"}

(* The deadline the supervisor works with is within the lease.              *)
LeaseSound ==
    /\ lease <= clock + RunLeaseMs
    /\ sup = "running" => clock <= watchdog /\ watchdog <= lease

RunInv == RunTyped /\ PipesSound /\ TreeSound /\ LeaseSound

-----------------------------------------------------------------------------
(* The clock and the deadlines are numbers.                                 *)
LEMMA BoundsAreNumbers ==
    /\ RunEnd \in Nat /\ WatchdogMs \in Nat /\ RunLeaseMs \in Nat
    /\ RunEnd > 0 /\ WatchdogMs > 0 /\ RunLeaseMs > 0
  <1>1. RunEnd \in Nat \ {0} /\ WatchdogMs \in Nat \ {0} /\ RunLeaseMs \in Nat \ {0}
    BY RunAssumption, Zenon
  <1> QED BY <1>1

LEMMA ClocksAreNumbers ==
    ASSUME RunTyped
    PROVE  clock \in Nat /\ lease \in Nat /\ watchdog \in Nat
  BY BoundsAreNumbers DEF RunTyped, Deadlines

(* Sequences: a pipe of a larger set, its first element and its rest.       *)
LEMMA PipeGrows ==
    ASSUME NEW S, NEW T, S \subseteq T, NEW q \in Seq(S)
    PROVE  q \in Seq(T)
  BY SeqDef

LEMMA OneWord == ASSUME NEW S, NEW w \in S PROVE <<w>> \in Seq(S)
  OBVIOUS

LEMMA TwoWords == ASSUME NEW S, NEW v \in S, NEW w \in S PROVE <<v, w>> \in Seq(S)
  OBVIOUS

LEMMA PipeHead ==
    ASSUME NEW S, NEW q \in Seq(S), q # <<>>
    PROVE  Head(q) \in S /\ Tail(q) \in Seq(S)
  OBVIOUS

(* The processes that are left keep what was contained contained.           *)
LEMMA ContainedStays ==
    ASSUME RunInv, [RunNext]_runvars, sup = "done"
    PROVE  sup' = "done" /\ (TreeOver => TreeOver')
  <1> USE DEF RunInv, RunTyped, TreeSound, TreeOver, Contained, PipesClosed,
              GroupAbsent, NoDesc, bridgevars, supvars, treevars
  <1>1. CASE SupervisorStep
    BY <1>1 DEF SupervisorStep, ReadsStdin, WatchesChild, Terminates, SupervisorStarts,
                LaunchPayload, HandleMessage, StdinEnds, PayloadCloses, ExitCloseCheck,
                TerminatePosix, TerminateWindows, SupervisorTimer, SupervisorSignalled
  <1>2. CASE BridgeStep
    BY <1>2 DEF BridgeStep, BridgeFinish, PersistIdentity, LaunchRefused,
                ControlProtocolBroken, HeartbeatStarts, HeartbeatProven, AskToStop,
                HandleControlEvent, TerminationFallback, FinishFromControlExit,
                FinishWithoutResult
  <1>3. CASE TreeStep
    <2>1. CASE AgentSpawns \/ AgentExits
      BY <2>1 DEF AgentSpawns, AgentExits
    <2>2. CASE DescendantExits
      <3>1. ~desc'.alive
        BY <2>2 DEF DescendantExits
      <3> QED BY <2>2, <3>1 DEF DescendantExits
    <2> QED BY <1>3, <2>1, <2>2 DEF TreeStep
  <1>4. CASE SupervisorDies \/ BridgeDies \/ RunTick
    BY <1>4 DEF SupervisorDies, BridgeDies, RunTick
  <1>5. CASE UNCHANGED runvars
    BY <1>5 DEF runvars
  <1> QED BY <1>1, <1>2, <1>3, <1>4, <1>5 DEF RunNext

(* Nothing that was in a pipe becomes untrue.                               *)
LEMMA TruthGrows ==
    ASSUME RunInv, [RunNext]_runvars, sent => sent', lease <= lease', lease' \in Nat
    PROVE  Messages \subseteq Messages' /\ HonestExits \subseteq HonestExits' /\ Told \subseteq Told'
  <1>1. Messages \subseteq Messages'
    <2>1. lease \in Nat
      BY ClocksAreNumbers DEF RunInv
    <2>2. 0..lease \subseteq 0..lease'
      BY <2>1
    <2> QED BY <2>2 DEF Messages
  <1>2. HonestExits \subseteq HonestExits'
    BY ContainedStays DEF HonestExits
  <1> QED BY <1>1, <1>2 DEF Told

-----------------------------------------------------------------------------
(* What a step does to everything but the pipes.                            *)
StateSound == RunTyped /\ TreeSound /\ LeaseSound
ClockWork == clock' = clock /\ lease' = lease /\ sent' = sent

LEMMA MessageRead ==
    ASSUME NEW m \in Messages
    PROVE  /\ m.type \in {"heartbeat", "launch", "terminate"}
           /\ m.type # "terminate" => m.deadline \in 0..lease
           /\ m.type = "launch" => sent
  <1>1. CASE m = [type |-> "terminate"]
    BY <1>1
  <1>2. CASE m \in [type : {"heartbeat"} \cup (IF sent THEN {"launch"} ELSE {}), deadline : 0..lease]
    <2>1. m.type \in {"heartbeat"} \cup (IF sent THEN {"launch"} ELSE {}) /\ m.deadline \in 0..lease
      BY <1>2
    <2> QED BY <2>1
  <1> QED BY <1>1, <1>2 DEF Messages

LEMMA ReadingSteps ==
    ASSUME RunInv, ReadsStdin
    PROVE  StateSound' /\ ClockWork
  <1> USE BoundsAreNumbers, ClocksAreNumbers
      DEF RunInv, RunTyped, TreeSound, LeaseSound, StateSound, ClockWork, Deadlines,
          bridgevars, supvars, treevars
  <1>1. CASE SupervisorStarts
    BY <1>1 DEF SupervisorStarts
  <1>2. CASE LaunchPayload
    <2>1. Head(stdin) \in Messages
      BY <1>2, PipeHead DEF PipesSound, LaunchPayload
    <2>2. Head(stdin).deadline \in 0..lease /\ sent
      BY <1>2, <2>1, MessageRead DEF LaunchPayload
    <2> QED BY <1>2, <2>2 DEF LaunchPayload, Complete
  <1>3. CASE HandleMessage
    <2>1. Head(stdin) \in Messages
      BY <1>3, PipeHead DEF PipesSound, HandleMessage
    <2>2. CASE Head(stdin).type = "heartbeat"
      <3>1. Head(stdin).deadline \in 0..lease
        BY <2>1, <2>2, MessageRead
      <3> QED BY <1>3, <2>2, <3>1 DEF HandleMessage, RequestKill, Least
    <2>3. CASE Head(stdin).type = "terminate"
      BY <1>3, <2>3 DEF HandleMessage, RequestKill
    <2> QED BY <1>3, <2>2, <2>3 DEF HandleMessage
  <1>4. CASE StdinEnds
    BY <1>4 DEF StdinEnds, Complete, RequestKill
  <1> QED BY <1>1, <1>2, <1>3, <1>4 DEF ReadsStdin

LEMMA KillingSteps ==
    ASSUME RunInv, WatchesChild \/ Terminates \/ SupervisorTimer \/ SupervisorSignalled
                       \/ SupervisorDies \/ TreeStep
    PROVE  StateSound' /\ ClockWork
  <1> USE BoundsAreNumbers, ClocksAreNumbers
      DEF RunInv, RunTyped, TreeSound, LeaseSound, StateSound, ClockWork, Deadlines,
          bridgevars, supvars, treevars
  <1>1. CASE WatchesChild
    BY <1>1 DEF WatchesChild, PayloadCloses, ExitCloseCheck, RequestKill, Complete
  <1>2. CASE Terminates
    BY <1>2 DEF Terminates, TerminatePosix, TerminateWindows, KillChild, KillDesc, ReportKill,
                Complete
  <1>3. CASE SupervisorTimer
    BY <1>3 DEF SupervisorTimer, RequestKill
  <1>4. CASE SupervisorSignalled
    BY <1>4 DEF SupervisorSignalled, RequestKill, Complete
  <1>5. CASE SupervisorDies
    BY <1>5 DEF SupervisorDies
  <1>6. CASE TreeStep
    <2>1. CASE AgentSpawns
      BY <2>1 DEF AgentSpawns
    <2>2. CASE AgentExits
      BY <2>2 DEF AgentExits
    <2>3. CASE DescendantExits
      BY <2>3 DEF DescendantExits
    <2> QED BY <1>6, <2>1, <2>2, <2>3 DEF TreeStep
  <1> QED BY <1>1, <1>2, <1>3, <1>4, <1>5, <1>6

(* A step of the bridge that gives no result leaves the supervisor alone.   *)
Gates == [ready : BOOLEAN, persisted : BOOLEAN, failed : BOOLEAN]
BridgeOnly ==
    /\ UNCHANGED <<clock, platform, verdict, supvars, treevars>>
    /\ run # "settled" /\ run' \in {"gate", "launched", "stopping", "lost"}
    /\ gate' \in Gates /\ proving' \in BOOLEAN
    /\ sent' \in BOOLEAN /\ (sent => sent')
    /\ lease' \in {lease, clock + RunLeaseMs}

LEMMA BridgeKeepsState ==
    ASSUME RunInv, BridgeOnly
    PROVE  StateSound' /\ lease <= lease'
  <1> USE BoundsAreNumbers, ClocksAreNumbers
      DEF RunInv, RunTyped, TreeSound, LeaseSound, Deadlines, BridgeOnly, Gates, supvars, treevars
  <1>1. RunTyped'
    OBVIOUS
  <1>2. TreeSound'
    OBVIOUS
  <1>3. LeaseSound' /\ lease <= lease'
    OBVIOUS
  <1> QED BY <1>1, <1>2, <1>3 DEF StateSound

(* What such a step tells the supervisor.                                   *)
Tells == stdin' = stdin \/ \E m \in Messages' : stdin' = Append(stdin, m)

LEMMA TerminateIsMessage == [type |-> "terminate"] \in Messages'
  BY DEF Messages

LEMMA LaunchSteps ==
    ASSUME RunInv, NEW ready \in BOOLEAN, NEW persisted \in BOOLEAN, MaybeLaunch(ready, persisted),
           run # "settled",
           UNCHANGED <<clock, platform, lease, proving, verdict, supvars, treevars>>
    PROVE  BridgeOnly /\ Tells
  <1> DEFINE deadline == Least(clock + WatchdogMs, lease)
             opened == [gate EXCEPT !.ready = ready, !.persisted = persisted]
             closed == [ready |-> ready, persisted |-> persisted, failed |-> TRUE]
             free == run = "gate" /\ ready /\ persisted /\ ~gate.failed
  <1>1. opened \in Gates /\ closed \in Gates /\ sent \in BOOLEAN /\ proving \in BOOLEAN
            /\ run \in {"gate", "launched", "stopping", "lost"}
    BY DEF Gates, RunInv, RunTyped
  <1>2. CASE ~free
    <2>1. gate' = opened /\ UNCHANGED <<run, sent, stdin>>
      BY <1>2 DEF MaybeLaunch
    <2> QED BY <1>1, <2>1 DEF BridgeOnly, Tells
  <1>3. CASE free /\ deadline <= clock
    <2>1. gate' = closed /\ run' = "stopping" /\ sent' = sent
              /\ (stdin' = stdin \/ stdin' = Append(stdin, [type |-> "terminate"]))
      BY <1>3 DEF MaybeLaunch, RequestTermination, Send
    <2> QED BY <1>1, <2>1, TerminateIsMessage DEF BridgeOnly, Tells
  <1>4. CASE free /\ ~(deadline <= clock)
    <2> DEFINE m == [type |-> "launch", deadline |-> deadline]
    <2>1. gate' = opened /\ run' = "launched" /\ sent' = TRUE /\ lease' = lease
              /\ (stdin' = stdin \/ stdin' = Append(stdin, m))
      BY <1>4 DEF MaybeLaunch, Send
    <2>2. deadline \in 0..lease
      BY BoundsAreNumbers, ClocksAreNumbers DEF Least, RunInv
    <2>3. m \in Messages'
      BY <2>1, <2>2 DEF Messages
    <2> HIDE DEF m
    <2> QED BY <1>1, <2>1, <2>3 DEF BridgeOnly, Tells
  <1> QED BY <1>2, <1>3, <1>4

LEMMA AskingSteps ==
    ASSUME RunInv, PersistIdentity \/ LaunchRefused \/ ControlProtocolBroken \/ AskToStop
                       \/ HandleControlEvent
    PROVE  BridgeOnly /\ Tells /\ lease' = lease
  <1> USE TerminateIsMessage DEF RunInv, RunTyped, bridgevars, RequestTermination, Send, Pending
  <1>1. CASE PersistIdentity
    <2>1. gate.ready \in BOOLEAN
      OBVIOUS
    <2> QED BY <1>1, <2>1, LaunchSteps DEF PersistIdentity
  <1>2. CASE LaunchRefused
    BY <1>2 DEF LaunchRefused, BridgeOnly, Tells, Gates
  <1>3. CASE ControlProtocolBroken
    BY <1>3 DEF ControlProtocolBroken, BridgeOnly, Tells, Gates
  <1>4. CASE AskToStop
    BY <1>4 DEF AskToStop, BridgeOnly, Tells, Gates
  <1>5. CASE HandleControlEvent
    <2>1. UNCHANGED <<clock, platform, lease, proving, verdict, supvars, treevars>>
              /\ run \in {"gate", "launched", "stopping"}
      BY <1>5 DEF HandleControlEvent
    <2>2. CASE MaybeLaunch(TRUE, gate.persisted)
      <3>1. gate.persisted \in BOOLEAN
        OBVIOUS
      <3> QED BY <2>1, <2>2, <3>1, LaunchSteps
    <2>3. CASE UNCHANGED <<run, gate, sent, stdin>>
      BY <2>1, <2>3 DEF BridgeOnly, Tells, Gates
    <2> QED BY <1>5, <2>2, <2>3 DEF HandleControlEvent
  <1> QED BY <1>1, <1>2, <1>3, <1>4, <1>5

LEMMA RenewingSteps ==
    ASSUME RunInv, HeartbeatStarts \/ HeartbeatProven
    PROVE  BridgeOnly /\ Tells
  <1> USE TerminateIsMessage DEF RunInv, RunTyped, bridgevars, RequestTermination, Send
  <1>1. CASE HeartbeatStarts
    BY <1>1 DEF HeartbeatStarts, BridgeOnly, Tells, Gates
  <1>2. CASE HeartbeatProven
    <2> DEFINE m == [type |-> "heartbeat", deadline |-> Least(clock + WatchdogMs, lease')]
    <2>1. /\ proving' = FALSE /\ run \in {"launched", "stopping"}
          /\ UNCHANGED <<clock, platform, gate, sent, seen, verdict, events, supvars, treevars>>
      BY <1>2 DEF HeartbeatProven
    <2>2. \/ lease > clock /\ lease' = clock + RunLeaseMs /\ run' = run
                /\ (stdin' = stdin \/ stdin' = Append(stdin, m))
          \/ lease' = lease /\ run' \in {run, "stopping"}
                /\ (stdin' = stdin \/ stdin' = Append(stdin, [type |-> "terminate"]))
      BY <1>2 DEF HeartbeatProven
    <2>3. BridgeOnly
      BY <2>1, <2>2 DEF BridgeOnly, Gates
    <2>4. CASE lease' = clock + RunLeaseMs
      <3>1. m \in Messages'
        <4>1. Least(clock + WatchdogMs, lease') \in 0..lease'
          BY <2>4, BoundsAreNumbers, ClocksAreNumbers DEF Least
        <4> QED BY <4>1 DEF Messages
      <3> HIDE DEF m
      <3> QED BY <2>2, <2>3, <3>1 DEF Tells
    <2>5. CASE lease' = lease /\ (stdin' = stdin \/ stdin' = Append(stdin, [type |-> "terminate"]))
      BY <2>3, <2>5 DEF Tells
    <2> QED BY <2>2, <2>4, <2>5
  <1> QED BY <1>1, <1>2

LEMMA TickStep ==
    ASSUME RunInv, RunTick
    PROVE  StateSound' /\ lease' = lease /\ sent' = sent
  <1> USE BoundsAreNumbers, ClocksAreNumbers
      DEF RunInv, RunTyped, TreeSound, LeaseSound, Deadlines, bridgevars, supvars, treevars,
          RunTick, WatchdogDue
  <1>1. RunTyped'
    OBVIOUS
  <1>2. TreeSound' /\ LeaseSound'
    OBVIOUS
  <1> QED BY <1>1, <1>2 DEF StateSound

LEMMA ResultSteps ==
    ASSUME RunInv, TerminationFallback \/ FinishFromControlExit \/ FinishWithoutResult
    PROVE  StateSound' /\ ClockWork /\ stdin' = stdin /\ events' = <<>> /\ seen' = seen
  <1> USE BoundsAreNumbers, ClocksAreNumbers
      DEF RunInv, RunTyped, TreeSound, LeaseSound, StateSound, ClockWork, Deadlines,
          bridgevars, supvars, treevars, Settle
  <1>1. CASE TerminationFallback
    BY <1>1 DEF TerminationFallback
  <1>2. CASE FinishFromControlExit
    <2>1. seen.exit \in HonestExits
      BY <1>2 DEF FinishFromControlExit, PipesSound
    <2>2. sup = "done"
      BY <2>1 DEF HonestExits
    <2> QED BY <1>2, <2>2 DEF FinishFromControlExit
  <1>3. CASE FinishWithoutResult
    BY <1>3 DEF FinishWithoutResult
  <1> QED BY <1>1, <1>2, <1>3

LEMMA DyingStep ==
    ASSUME RunInv, BridgeDies
    PROVE  BridgeOnly /\ stdin' = stdin /\ events' = <<>> /\ seen' = seen
  BY DEF BridgeDies, BridgeOnly, Gates, RunInv, RunTyped

-----------------------------------------------------------------------------
(* Together: every step keeps the state sound, and no lease is shortened.   *)
LEMMA StateStep ==
    ASSUME RunInv, [RunNext]_runvars
    PROVE  StateSound' /\ lease <= lease' /\ lease' \in Nat /\ (sent => sent')
  <1>1. /\ StateSound /\ lease \in Nat
    BY ClocksAreNumbers DEF RunInv, StateSound
  <1>2. StateSound' /\ lease <= lease' /\ (sent => sent')
    <2>1. CASE SupervisorStep \/ SupervisorDies \/ TreeStep
      BY <1>1, <2>1, ReadingSteps, KillingSteps DEF SupervisorStep, ClockWork
    <2>2. CASE BridgeStep
      <3>1. CASE HandleControlEvent \/ PersistIdentity \/ LaunchRefused \/ ControlProtocolBroken
                   \/ AskToStop
        BY <3>1, AskingSteps, BridgeKeepsState DEF BridgeOnly
      <3>2. CASE HeartbeatStarts \/ HeartbeatProven
        BY <3>2, RenewingSteps, BridgeKeepsState DEF BridgeOnly
      <3>3. CASE TerminationFallback \/ FinishFromControlExit \/ FinishWithoutResult
        BY <1>1, <3>3, ResultSteps DEF ClockWork
      <3> QED BY <2>2, <3>1, <3>2, <3>3 DEF BridgeStep, BridgeFinish
    <2>3. CASE BridgeDies
      BY <2>3, DyingStep, BridgeKeepsState DEF BridgeOnly
    <2>4. CASE RunTick
      BY <1>1, <2>4, TickStep
    <2>5. CASE UNCHANGED runvars
      BY <1>1, <2>5 DEF runvars, StateSound, RunTyped, TreeSound, LeaseSound, Deadlines
    <2> QED BY <2>1, <2>2, <2>3, <2>4, <2>5 DEF RunNext
  <1>3. lease' \in Nat
    <2>1. lease' \in Deadlines
      BY <1>2 DEF StateSound, RunTyped, Deadlines
    <2> QED BY <2>1, BoundsAreNumbers DEF Deadlines
  <1> QED BY <1>2, <1>3

(* What the supervisor says is true when it says it.                        *)
LEMMA EmitSound ==
    ASSUME RunInv, Told \subseteq Told', NEW list, list \in Seq(Told'), Emit(list)
    PROVE  events' \in Seq(Told')
  <1>1. events \in Seq(Told')
    BY PipeGrows DEF RunInv, PipesSound
  <1> QED BY <1>1 DEF Emit

LEMMA ExitIsTrue ==
    ASSUME sup' = "done", NEW why \in {"no_payload", "payload_closed", "none", "asked", "watchdog_expired"},
           NEW proven \in BOOLEAN,
           NEW error \in {"none", "expired", "spawn_failed", "termination_unconfirmed"},
           error = "termination_unconfirmed" \/ TreeOver'
    PROVE  Exit(why, proven, error) \in Told'
  <1>1. Exit(why, proven, error) \in Exits /\ Exit(why, proven, error).error = error
    BY DEF Exit, Exits
  <1> QED BY <1>1 DEF Told, HonestExits

LEMMA WordIsTrue ==
    {[type |-> "ready"], [type |-> "launched"], [type |-> "unconfirmed"]} \subseteq Told'
  BY DEF Told

LEMMA ReadingTells ==
    ASSUME RunInv, ReadsStdin, Told \subseteq Told'
    PROVE  events' \in Seq(Told') /\ seen' = seen
  <1> USE DEF bridgevars, treevars
  <1>1. events \in Seq(Told')
    BY PipeGrows DEF RunInv, PipesSound
  <1>2. CASE SupervisorStarts
    <2>1. <<[type |-> "ready"]>> \in Seq(Told')
      BY WordIsTrue
    <2> QED BY <1>2, <2>1, EmitSound DEF SupervisorStarts
  <1>3. CASE LaunchPayload
    <2>1. CASE Complete(<<Exit("no_payload", FALSE, "expired")>>) /\ child' = child
      <3>1. sup' = "done" /\ TreeOver'
        BY <1>3, <2>1 DEF LaunchPayload, Complete, TreeOver, RunInv, TreeSound
      <3>2. <<Exit("no_payload", FALSE, "expired")>> \in Seq(Told')
        <4>1. Exit("no_payload", FALSE, "expired") \in Told'
          BY <3>1, ExitIsTrue
        <4> QED BY <4>1, OneWord
      <3> QED BY <1>3, <2>1, <3>2, EmitSound DEF LaunchPayload, Complete
    <2>2. CASE Complete(<<Exit("no_payload", FALSE, "spawn_failed")>>) /\ child' = child
      <3>1. sup' = "done" /\ TreeOver'
        BY <1>3, <2>2 DEF LaunchPayload, Complete, TreeOver, RunInv, TreeSound
      <3>2. <<Exit("no_payload", FALSE, "spawn_failed")>> \in Seq(Told')
        <4>1. Exit("no_payload", FALSE, "spawn_failed") \in Told'
          BY <3>1, ExitIsTrue
        <4> QED BY <4>1, OneWord
      <3> QED BY <1>3, <2>2, <3>2, EmitSound DEF LaunchPayload, Complete
    <2>3. CASE Emit(<<[type |-> "launched"]>>)
      <3>1. <<[type |-> "launched"]>> \in Seq(Told')
        BY WordIsTrue
      <3> QED BY <1>3, <2>3, <3>1, EmitSound DEF LaunchPayload
    <2> QED BY <1>3, <2>1, <2>2, <2>3 DEF LaunchPayload
  <1>4. CASE HandleMessage
    BY <1>1, <1>4 DEF HandleMessage
  <1>5. CASE StdinEnds
    <2>1. CASE sup = "ready" /\ Complete(<<Exit("no_payload", TRUE, "none")>>)
      <3>1. sup' = "done" /\ TreeOver'
        BY <1>5, <2>1 DEF StdinEnds, Complete, TreeOver, RunInv, TreeSound
      <3>2. <<Exit("no_payload", TRUE, "none")>> \in Seq(Told')
        <4>1. Exit("no_payload", TRUE, "none") \in Told'
          BY <3>1, ExitIsTrue
        <4> QED BY <4>1, OneWord
      <3> QED BY <1>5, <2>1, <3>2, EmitSound DEF StdinEnds, Complete
    <2>2. CASE events' = events
      BY <1>1, <1>5, <2>2 DEF StdinEnds
    <2> QED BY <1>5, <2>1, <2>2 DEF StdinEnds
  <1> QED BY <1>2, <1>3, <1>4, <1>5 DEF ReadsStdin

LEMMA KillingTells ==
    ASSUME RunInv, WatchesChild \/ Terminates \/ SupervisorTimer \/ SupervisorSignalled
                       \/ SupervisorDies \/ TreeStep, Told \subseteq Told'
    PROVE  events' \in Seq(Told') /\ seen' = seen /\ stdin' = stdin
  <1> USE DEF bridgevars, supvars, treevars
  <1>1. events \in Seq(Told')
    BY PipeGrows DEF RunInv, PipesSound
  <1>2. CASE PayloadCloses
    <2>1. CASE Complete(<<Exit("payload_closed", platform = "posix", "none")>>)
      <3>1. sup' = "done" /\ TreeOver'
        <4>1. CASE platform = "win32" \/ GroupAbsent
          BY <1>2, <2>1, <4>1 DEF PayloadCloses, Complete, TreeOver, Contained, PipesClosed,
                                  GroupAbsent, RunInv, RunTyped
        <4>2. CASE ~(platform = "win32" \/ GroupAbsent)
          BY <1>2, <2>1, <4>2 DEF PayloadCloses, Complete, RequestKill
        <4> QED BY <4>1, <4>2
      <3>2. <<Exit("payload_closed", platform = "posix", "none")>> \in Seq(Told')
        <4>1. Exit("payload_closed", platform = "posix", "none") \in Told'
          BY <3>1, ExitIsTrue
        <4> QED BY <4>1, OneWord
      <3> QED BY <1>2, <2>1, <3>2, EmitSound DEF PayloadCloses, Complete
    <2>2. CASE events' = events
      BY <1>1, <1>2, <2>2 DEF PayloadCloses
    <2> QED BY <1>2, <2>1, <2>2 DEF PayloadCloses
  <1>3. CASE ExitCloseCheck
    BY <1>1, <1>3 DEF ExitCloseCheck
  <1>4. ASSUME NEW proven \in BOOLEAN, NEW best \in BOOLEAN, ReportKill(proven, best),
               proven \/ best => TreeOver'
        PROVE  events' \in Seq(Told')
    <2>1. reason \in {"none", "asked", "watchdog_expired"} /\ sup' = "done"
      BY <1>4 DEF RunInv, RunTyped, ReportKill, Complete
    <2>2. CASE proven \/ best
      <3>1. <<Exit(reason, proven, "none")>> \in Seq(Told')
        <4>1. Exit(reason, proven, "none") \in Told'
          BY <1>4, <2>1, <2>2, ExitIsTrue
        <4> QED BY <4>1, OneWord
      <3> QED BY <1>4, <2>2, <3>1, EmitSound DEF ReportKill, Complete
    <2>3. CASE ~(proven \/ best)
      <3>1. Exit(reason, FALSE, "termination_unconfirmed") \in Told'
        BY <2>1, ExitIsTrue
      <3>2. <<[type |-> "unconfirmed"], Exit(reason, FALSE, "termination_unconfirmed")>> \in Seq(Told')
        <4>1. [type |-> "unconfirmed"] \in Told'
          BY WordIsTrue
        <4> QED BY <3>1, <4>1, TwoWords
      <3> QED BY <1>4, <2>3, <3>2, EmitSound DEF ReportKill, Complete
    <2> QED BY <2>2, <2>3
  <1>5. CASE TerminatePosix
    <2>1. ReportKill(GroupAbsent' /\ PipesClosed', FALSE) /\ stdin' = stdin /\ seen' = seen
      BY <1>5 DEF TerminatePosix
    <2>2. (GroupAbsent' /\ PipesClosed') => TreeOver'
      BY DEF TreeOver, Contained
    <2>3. (GroupAbsent' /\ PipesClosed') \in BOOLEAN
      BY DEF GroupAbsent, PipesClosed
    <2> QED BY <1>4, <2>1, <2>2, <2>3
  <1>6. CASE TerminateWindows
    <2>1. PICK toolOk \in BOOLEAN :
            ReportKill(FALSE, (toolOk \/ (child = "exited" /\ PipesClosed)) /\ PipesClosed')
      BY <1>6 DEF TerminateWindows
    <2>2. platform' = "win32" /\ stdin' = stdin /\ seen' = seen
      BY <1>6 DEF TerminateWindows
    <2>3. PipesClosed' => TreeOver'
      BY <2>2 DEF TreeOver, Contained
    <2> DEFINE best == (toolOk \/ (child = "exited" /\ PipesClosed)) /\ PipesClosed'
    <2>4. best \in BOOLEAN /\ (best => TreeOver')
      BY <2>3
    <2> QED BY <1>4, <2>1, <2>2, <2>4
  <1>7. CASE SupervisorTimer \/ SupervisorDies
    BY <1>1, <1>7 DEF SupervisorTimer, SupervisorDies
  <1>8. CASE SupervisorSignalled
    <2>1. CASE sup = "ready" /\ Complete(<<Exit("no_payload", TRUE, "none")>>)
      <3>1. sup' = "done" /\ TreeOver'
        BY <1>8, <2>1 DEF SupervisorSignalled, Complete, TreeOver, RunInv, TreeSound
      <3>2. <<Exit("no_payload", TRUE, "none")>> \in Seq(Told')
        <4>1. Exit("no_payload", TRUE, "none") \in Told'
          BY <3>1, ExitIsTrue
        <4> QED BY <4>1, OneWord
      <3> QED BY <1>8, <2>1, <3>2, EmitSound DEF SupervisorSignalled, Complete
    <2>2. CASE events' = events
      BY <1>1, <1>8, <2>2 DEF SupervisorSignalled
    <2> QED BY <1>8, <2>1, <2>2 DEF SupervisorSignalled
  <1>9. CASE TreeStep
    BY <1>1, <1>9 DEF TreeStep, AgentSpawns, AgentExits, DescendantExits
  <1> QED BY <1>2, <1>3, <1>5, <1>6, <1>7, <1>8, <1>9 DEF WatchesChild, Terminates

(* The bridge reads what it was told, and only the bridge does.             *)
BridgeKeepsPipes == events' \in {events, <<>>} /\ seen' = seen

LEMMA QuietSteps ==
    ASSUME PersistIdentity \/ LaunchRefused \/ ControlProtocolBroken \/ AskToStop
              \/ HeartbeatStarts \/ HeartbeatProven
    PROVE  BridgeKeepsPipes
  BY DEF PersistIdentity, LaunchRefused, ControlProtocolBroken, AskToStop, HeartbeatStarts,
         HeartbeatProven, BridgeKeepsPipes

LEMMA EventRead ==
    ASSUME RunInv, HandleControlEvent, Told \subseteq Told', HonestExits \subseteq HonestExits'
    PROVE  /\ events' \in Seq(Told')
           /\ seen' \in [exit : HonestExits' \cup {NoEvent}, unconfirmed : BOOLEAN]
  <1>1. /\ events # <<>> /\ events' = Tail(events)
        /\ \/ seen' = seen
           \/ Head(events).type = "exit" /\ seen' = [seen EXCEPT !.exit = Head(events)]
           \/ seen' = [seen EXCEPT !.unconfirmed = TRUE]
    BY DEF HandleControlEvent
  <1>2. Head(events) \in Told /\ events' \in Seq(Told)
    BY <1>1, PipeHead DEF RunInv, PipesSound
  <1>3. events' \in Seq(Told')
    BY <1>2, PipeGrows
  <1>4. seen \in [exit : HonestExits' \cup {NoEvent}, unconfirmed : BOOLEAN]
    BY DEF RunInv, PipesSound
  <1>5. Head(events).type = "exit" => Head(events) \in HonestExits'
    BY <1>2 DEF Told
  <1> QED BY <1>1, <1>3, <1>4, <1>5

LEMMA PipeStep ==
    ASSUME RunInv, [RunNext]_runvars
    PROVE  PipesSound'
  <1> DEFINE Said == stdin' \in Seq(Messages')
             Heard == events' \in Seq(Told')
             Read == seen' \in [exit : HonestExits' \cup {NoEvent}, unconfirmed : BOOLEAN]
  <1>1. /\ Messages \subseteq Messages' /\ HonestExits \subseteq HonestExits'
        /\ Told \subseteq Told'
    BY StateStep, TruthGrows
  <1>2. stdin \in Seq(Messages) /\ events \in Seq(Told)
            /\ seen \in [exit : HonestExits \cup {NoEvent}, unconfirmed : BOOLEAN]
    BY DEF RunInv, PipesSound
  <1>3. stdin \in Seq(Messages')
    BY <1>1, <1>2, PipeGrows
  <1>4. \A q \in {events, <<>>} : q \in Seq(Told')
    <2>1. events \in Seq(Told')
      BY <1>1, <1>2, PipeGrows
    <2>2. <<>> \in Seq(Told')
      BY EmptySeq
    <2> QED BY <2>1, <2>2
  <1>5. seen \in [exit : HonestExits' \cup {NoEvent}, unconfirmed : BOOLEAN]
    BY <1>1, <1>2
  <1>6. Tells => Said
    BY <1>3 DEF Tells
  <1>7. BridgeKeepsPipes => Heard /\ Read
    BY <1>4, <1>5 DEF BridgeKeepsPipes
  <1>8. CASE ReadsStdin
    <2>1. Heard /\ Read
      BY <1>1, <1>5, <1>8, ReadingTells
    <2>2. stdin' = stdin \/ (stdin # <<>> /\ stdin' = Tail(stdin))
      <3>1. CASE SupervisorStarts
        BY <3>1 DEF SupervisorStarts
      <3>2. CASE LaunchPayload
        BY <3>2 DEF LaunchPayload
      <3>3. CASE HandleMessage
        BY <3>3 DEF HandleMessage
      <3>4. CASE StdinEnds
        BY <3>4 DEF StdinEnds
      <3> QED BY <1>8, <3>1, <3>2, <3>3, <3>4 DEF ReadsStdin
    <2>3. Said
      <3>1. CASE stdin' = stdin
        BY <1>3, <3>1
      <3>2. CASE stdin # <<>> /\ stdin' = Tail(stdin)
        BY <1>3, <3>2, PipeHead
      <3> QED BY <2>2, <3>1, <3>2
    <2> QED BY <2>1, <2>3 DEF PipesSound
  <1>9. CASE WatchesChild \/ Terminates \/ SupervisorTimer \/ SupervisorSignalled
                \/ SupervisorDies \/ TreeStep
    BY <1>1, <1>3, <1>5, <1>9, KillingTells DEF PipesSound
  <1>10. CASE BridgeStep
    <2>1. CASE HandleControlEvent
      BY <1>1, <1>6, <2>1, AskingSteps, EventRead DEF PipesSound
    <2>2. CASE PersistIdentity \/ LaunchRefused \/ ControlProtocolBroken \/ AskToStop
      BY <1>6, <1>7, <2>2, AskingSteps, QuietSteps DEF PipesSound
    <2>3. CASE HeartbeatStarts \/ HeartbeatProven
      BY <1>6, <1>7, <2>3, RenewingSteps, QuietSteps DEF PipesSound
    <2>4. CASE TerminationFallback \/ FinishFromControlExit \/ FinishWithoutResult
      BY <1>3, <1>7, <2>4, ResultSteps DEF PipesSound, BridgeKeepsPipes
    <2> QED BY <1>10, <2>1, <2>2, <2>3, <2>4 DEF BridgeStep, BridgeFinish
  <1>11. CASE BridgeDies
    BY <1>3, <1>7, <1>11, DyingStep DEF PipesSound, BridgeKeepsPipes
  <1>12. CASE RunTick
    BY <1>3, <1>7, <1>12 DEF RunTick, bridgevars, PipesSound, BridgeKeepsPipes
  <1>13. CASE UNCHANGED runvars
    BY <1>3, <1>7, <1>13 DEF runvars, PipesSound, BridgeKeepsPipes
  <1> QED BY <1>8, <1>9, <1>10, <1>11, <1>12, <1>13 DEF RunNext, SupervisorStep

-----------------------------------------------------------------------------
LEMMA RunInitInv == RunInit => RunInv
  <1> SUFFICES ASSUME RunInit PROVE RunInv
    OBVIOUS
  <1> USE BoundsAreNumbers DEF RunInit
  <1>1. RunTyped
    <2>1. clock \in 0..RunEnd /\ lease \in Deadlines /\ watchdog \in Deadlines
      BY DEF Deadlines
    <2> QED BY <2>1 DEF RunTyped
  <1>2. PipesSound
    BY DEF PipesSound
  <1>3. TreeSound /\ LeaseSound
    BY DEF TreeSound, LeaseSound
  <1> QED BY <1>1, <1>2, <1>3 DEF RunInv

LEMMA RunStepInv == RunInv /\ [RunNext]_runvars => RunInv'
  BY StateStep, PipeStep DEF RunInv, StateSound

(* What is in either pipe is true or within the lease, whoever dies and     *)
(* whatever is late (the control channel of bin/process-supervisor.js).     *)
THEOREM RunInvariant == RunSpec => []RunInv
  BY RunInitInv, RunStepInv, PTL DEF RunSpec

(* Under a live supervisor the agent never outlives the durable lease the   *)
(* bridge proved (launchPayload, the heartbeats, the watchdog).             *)
THEOREM LeaseCoversAgent == RunSpec => []AgentCovered
  <1>1. RunInv => AgentCovered
    <2> SUFFICES ASSUME RunInv PROVE AgentCovered
      OBVIOUS
    <2>1. RunTypeOK
      BY DEF RunInv, RunTyped, RunTypeOK, Deadlines
    <2>2. WithinLease
      BY ClocksAreNumbers DEF RunInv, LeaseSound, WithinLease
    <2> QED BY <2>1, <2>2 DEF AgentCovered
  <1> QED BY <1>1, RunInvariant, PTL

-----------------------------------------------------------------------------
(* The refinement of AgentLife.  The tree as the caller sees it.            *)
Tree == IF child = "none" THEN "none" ELSE IF Contained THEN "gone" ELSE "alive"

(* A tree that is gone stays gone: only a live child has descendants.       *)
LEMMA TreeSteps ==
    ASSUME RunInv, TreeStep \/ Terminates
    PROVE  /\ verdict' = verdict
           /\ Tree' = Tree \/ (Tree = "alive" /\ Tree' = "gone")
  <1> USE DEF RunInv, RunTyped, TreeSound, Tree, Contained, PipesClosed, GroupAbsent, bridgevars,
              Descendants, NoDesc
  <1>1. CASE AgentSpawns
    BY <1>1 DEF AgentSpawns
  <1>2. CASE AgentExits
    BY <1>2 DEF AgentExits
  <1>3. CASE DescendantExits
    BY <1>3 DEF DescendantExits
  <1>4. CASE TerminatePosix
    BY <1>4 DEF TerminatePosix, KillChild, KillDesc
  <1>5. CASE TerminateWindows
    BY <1>5 DEF TerminateWindows, KillChild, KillDesc
  <1> QED BY <1>1, <1>2, <1>3, <1>4, <1>5 DEF TreeStep, Terminates

(* A result given as contained is given for a tree that is gone or was      *)
(* never started.                                                           *)
LEMMA ResultIsTrue ==
    ASSUME RunInv, TerminationFallback \/ FinishFromControlExit \/ FinishWithoutResult
    PROVE  /\ Tree' = Tree /\ verdict = "none"
           /\ verdict' = "unconfirmed" \/ (verdict' = "contained" /\ Tree # "alive")
  <1> USE DEF RunInv, TreeSound, Tree, treevars, Settle
  <1>1. CASE TerminationFallback
    BY <1>1 DEF TerminationFallback, Contained, PipesClosed, GroupAbsent
  <1>2. CASE FinishFromControlExit
    <2>1. seen.exit \in HonestExits
      BY <1>2 DEF FinishFromControlExit, PipesSound
    <2>2. seen.exit.error # "termination_unconfirmed" => TreeOver
      BY <2>1 DEF HonestExits
    <2>3. Tree' = Tree /\ verdict = "none" /\ verdict' \in {"unconfirmed", "contained"}
      BY <1>2 DEF FinishFromControlExit, Contained, PipesClosed, GroupAbsent
    <2>4. verdict' = "contained" => Tree # "alive"
      BY <1>2, <2>2 DEF FinishFromControlExit, ExitUnconfirmed, TreeOver
    <2> QED BY <2>3, <2>4
  <1>3. CASE FinishWithoutResult
    BY <1>3 DEF FinishWithoutResult, Contained, PipesClosed, GroupAbsent
  <1> QED BY <1>1, <1>2, <1>3

(* Every step is one of AgentLife or none.                                  *)
LEMMA LifeStep == RunInv /\ [RunNext]_runvars => [Life!LifeNext]_(Life!lifevars)
  <1> SUFFICES ASSUME RunInv, [RunNext]_runvars
               PROVE  \/ Tree' = Tree /\ verdict' = verdict
                      \/ Tree = "none" /\ verdict # "contained" /\ Tree' = "alive"
                            /\ verdict' = verdict
                      \/ Tree = "alive" /\ Tree' = "gone" /\ verdict' = verdict
                      \/ /\ verdict = "none" /\ Tree' = Tree
                         /\ verdict' = "unconfirmed" \/ (Tree # "alive" /\ verdict' = "contained")
    BY DEF Life!LifeNext, Life!lifevars, Life!Start, Life!End, Life!Report, Tree
  <1> DEFINE Same == Tree' = Tree /\ verdict' = verdict
  <1> USE DEF bridgevars, supvars, treevars, Tree, Contained, PipesClosed, GroupAbsent
  <1>1. CASE LaunchPayload
    <2>1. CASE UNCHANGED child
      BY <1>1, <2>1 DEF LaunchPayload
    <2>2. CASE child' = "alive"
      BY <1>1, <2>2 DEF LaunchPayload, RunInv, TreeSound
    <2> QED BY <1>1, <2>1, <2>2 DEF LaunchPayload
  <1>2. CASE TreeStep \/ Terminates
    BY <1>2, TreeSteps
  <1>3. CASE TerminationFallback \/ FinishFromControlExit \/ FinishWithoutResult
    BY <1>3, ResultIsTrue
  <1>4. CASE SupervisorStarts \/ HandleMessage \/ StdinEnds
    BY <1>4 DEF SupervisorStarts, HandleMessage, StdinEnds
  <1>5. CASE WatchesChild \/ SupervisorTimer \/ SupervisorSignalled \/ SupervisorDies
    BY <1>5 DEF WatchesChild, PayloadCloses, ExitCloseCheck, SupervisorTimer,
                SupervisorSignalled, SupervisorDies
  <1>6. CASE PersistIdentity \/ LaunchRefused \/ ControlProtocolBroken \/ AskToStop
                \/ HandleControlEvent \/ HeartbeatStarts \/ HeartbeatProven
    <2>1. BridgeOnly
      BY <1>6, AskingSteps, RenewingSteps
    <2> QED BY <2>1 DEF BridgeOnly
  <1>7. CASE BridgeDies
    BY <1>7, DyingStep DEF BridgeOnly
  <1>8. CASE RunTick \/ UNCHANGED runvars
    BY <1>8 DEF RunTick, runvars
  <1> QED BY <1>1, <1>2, <1>3, <1>4, <1>5, <1>6, <1>7, <1>8
          DEF RunNext, SupervisorStep, ReadsStdin, BridgeStep, BridgeFinish

(* The run keeps its word to its caller: one life of the tree, one result,  *)
(* and a contained result only for a tree that is gone and stays gone       *)
(* (runSpawnCommand, the handling of processTreeUnconfirmed).               *)
THEOREM KeepsPromise == RunSpec => KeepsItsWord
  <1>1. RunInit => Life!LifeInit
    BY DEF RunInit, Life!LifeInit
  <1> QED BY <1>1, LifeStep, RunInvariant, PTL DEF RunSpec, KeepsItsWord, Life!LifeSpec
=============================================================================
