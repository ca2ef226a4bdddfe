---------------------------- MODULE CallsProofs ----------------------------
(***************************************************************************)
(* Proofs about what surrounds an agent run: a job or a parallel call      *)
(* accepts only what its members wrote (JobGroup), a retry policy makes    *)
(* one chain of jobs within its limits (RetryChain), and the calls on a    *)
(* pipeline remove no source that was not integrated and named, and go by  *)
(* what the row says when they write to it (Pipelines).                    *)
(***************************************************************************)
EXTENDS JobGroup, RetryChain, Pipelines, TLAPS

-----------------------------------------------------------------------------
(* A job and its group.                                                     *)
Before == {"asked", "prepared", "atLocked", "setup"}
Holding == {"atLocked", "setup", "atReady", "running", "atAgents", "early", "captured", "atValidated",
            "judged", "atFinished"}
GroupTyped ==
    /\ phase \in [Members -> Steps]
    /\ arrived \in [Barriers -> SUBSET Members]
    /\ lock \in [Members -> {"none", "held", "released", "expiring", "quarantined"}]
    /\ agent \in [Members -> {"none", "alive", "dead"}]
    /\ disk \in [Members \cup {"checkout"} -> SUBSET Files]
    /\ base \in [Members -> SUBSET Files] /\ changed \in [Members -> SUBSET Files]
    /\ passes \in [Members -> 0..FixPasses]
    /\ wrote \in [Members -> SUBSET Files]
    /\ failed \in [Members -> BOOLEAN] /\ doubtful \in [Members -> BOOLEAN]
    /\ removed \in [Members -> BOOLEAN]
    /\ single \in BOOLEAN /\ isolated \in BOOLEAN /\ stopped \in BOOLEAN

(* No agent runs before every member of its group has its snapshot, and no  *)
(* snapshot shows anything an agent wrote.                                  *)
SetUpFirst(m) ==
    /\ base[m] = {}
    /\ phase[m] \in Before => m \notin arrived["ready"]
    /\ phase[m] \in Before \cup {"atReady"} => agent[m] = "none"
    /\ agent[m] = "none" => wrote[m] = {}
    /\ agent[m] # "none" => arrived["ready"] = Members
    /\ role[m] # "writer" => wrote[m] = {}

(* An agent that may be alive after its run is doubted and failed, and its  *)
(* lock and its worktree stay.                                              *)
AgentHeld(m) ==
    /\ phase[m] = "running" => agent[m] = "alive"
    /\ phase[m] \in Holding \ (Before \cup {"atReady"}) => agent[m] # "none"
    /\ agent[m] = "alive" /\ phase[m] # "running" => doubtful[m] /\ failed[m]
    /\ phase[m] \in Holding => lock[m] = "held"
    /\ agent[m] # "none" /\ phase[m] # "over" => lock[m] = "held"
    /\ agent[m] = "alive" => lock[m] \notin {"none", "released"} /\ ~removed[m]
    /\ removed[m] => phase[m] \in {"failing", "releasing", "over"} /\ disk[m] = {}
    /\ phase[m] = "failing" => failed[m]

(* What a tree holds was written by a member that works in it.              *)
DiskIsWritten ==
    \A t \in Members \cup {"checkout"} : \A f \in disk[t] :
        \E m \in Members : Tree(m) = t /\ f \in wrote[m]

(* Where the evaluation of a member that has not failed stands.             *)
Own(m) == wrote[m] \subseteq changed[m] \cap Allowed(m)
Judged(m) ==
    /\ wrote[m] \subseteq disk[Tree(m)]
    /\ phase[m] \in {"captured", "judged", "atFinished", "releasing", "over"} /\ ~failed[m] => Own(m)
    /\ phase[m] \in {"captured", "atValidated"} /\ ~failed[m] => changed[m] \subseteq Allowed(m)
    /\ phase[m] = "atValidated" /\ ~Gated(m) /\ ~failed[m] => Own(m)

GroupInv ==
    /\ GroupTyped /\ DiskIsWritten
    /\ \A m \in Members : SetUpFirst(m) /\ AgentHeld(m) /\ Judged(m)

-----------------------------------------------------------------------------
LEMMA GroupInitInv == GroupInit => GroupInv
  <1> SUFFICES ASSUME GroupInit PROVE GroupInv
    OBVIOUS
  <1> USE DEF GroupInit
  <1>1. \A m \in Members : phase[m] \in {"asked", "over"} /\ phase \in [Members -> {"asked", "over"}]
    OBVIOUS
  <1>2. GroupTyped
    <2>1. phase \in [Members -> Steps]
      BY <1>1 DEF Steps
    <2>2. arrived \in [Barriers -> SUBSET Members]
      OBVIOUS
    <2>3. passes \in [Members -> 0..FixPasses]
      BY GroupAssumption
    <2> QED BY <2>1, <2>2, <2>3 DEF GroupTyped
  <1>3. DiskIsWritten
    BY DEF DiskIsWritten
  <1>4. \A m \in Members : SetUpFirst(m)
    BY <1>1 DEF SetUpFirst, Before, Barriers
  <1>5. \A m \in Members : AgentHeld(m)
    BY <1>1 DEF AgentHeld, Holding
  <1>6. \A m \in Members : Judged(m)
    BY <1>1 DEF Judged, Own
  <1> QED BY <1>2, <1>3, <1>4, <1>5, <1>6 DEF GroupInv

LEMMA TreesAreTrees ==
    ASSUME NEW m \in Members, NEW n \in Members \ {m}
    PROVE  Tree(m) \in {m, "checkout"} /\ Tree(m) # n
  BY GroupAssumption DEF Tree

(* A step of one member leaves the others as they are, but for what it      *)
(* writes into a tree they share.                                           *)
Apart(m) ==
    /\ UNCHANGED <<single, role, isolated>>
    /\ \A n \in Members \ {m} :
         /\ phase'[n] = phase[n] /\ lock'[n] = lock[n] /\ agent'[n] = agent[n]
         /\ doubtful'[n] = doubtful[n] /\ wrote'[n] = wrote[n] /\ base'[n] = base[n]
         /\ changed'[n] = changed[n] /\ failed'[n] = failed[n] /\ removed'[n] = removed[n]
         /\ n \in arrived'["ready"] <=> n \in arrived["ready"]
         /\ disk'[n] = disk[n]
    /\ arrived["ready"] \subseteq arrived'["ready"] /\ arrived'["ready"] \subseteq Members
    /\ \A t \in Members \cup {"checkout"} : disk[t] \subseteq disk'[t]

LEMMA OthersApart ==
    ASSUME GroupInv, NEW m \in Members, Apart(m), NEW n \in Members \ {m}
    PROVE  SetUpFirst(n)' /\ AgentHeld(n)' /\ Judged(n)'
  <1>1. Tree(n)' = Tree(n) /\ Allowed(n)' = Allowed(n) /\ Gated(n)' = Gated(n)
            /\ Tree(n) \in Members \cup {"checkout"}
    BY DEF Apart, Tree, Allowed, Gated
  <1>2. SetUpFirst(n)'
    <2>1. SetUpFirst(n)
      BY DEF GroupInv
    <2>2. arrived["ready"] = Members => arrived'["ready"] = Members
      BY DEF Apart
    <2>3. role' = role
      BY DEF Apart
    <2> QED BY <2>1, <2>2, <2>3 DEF SetUpFirst, Apart
  <1>3. AgentHeld(n)'
    BY DEF GroupInv, AgentHeld, Apart
  <1>4. Judged(n)'
    <2>1. Judged(n)
      BY DEF GroupInv
    <2>2. disk[Tree(n)] \subseteq disk'[Tree(n)] /\ wrote'[n] = wrote[n] /\ changed'[n] = changed[n]
            /\ phase'[n] = phase[n] /\ failed'[n] = failed[n]
      BY <1>1 DEF Apart
    <2> QED BY <1>1, <2>1, <2>2 DEF Judged, Own
  <1> QED BY <1>2, <1>3, <1>4

(* One member moves and writes nothing.                                     *)
LEMMA MemberMoves ==
    ASSUME GroupInv, NEW m \in Members, Apart(m), UNCHANGED <<disk, wrote>>, GroupTyped',
           SetUpFirst(m)', AgentHeld(m)', Judged(m)'
    PROVE  GroupInv'
  <1>1. DiskIsWritten'
    BY DEF GroupInv, DiskIsWritten, Apart, Tree
  <1> QED BY <1>1, OthersApart DEF GroupInv

(* A member that goes on, arrives at a barrier or fails.                    *)
LEMMA FailTypes ==
    ASSUME GroupInv, NEW m \in Members, Fail(m)
    PROVE  /\ phase' = [phase EXCEPT ![m] = "failing"] /\ failed' = [failed EXCEPT ![m] = TRUE]
           /\ arrived' = [arrived EXCEPT !["finished"] = @ \cup {m}]
           /\ phase' \in [Members -> Steps] /\ failed' \in [Members -> BOOLEAN]
           /\ arrived' \in [Barriers -> SUBSET Members]
           /\ arrived'["ready"] = arrived["ready"]
  BY DEF Fail, Go, Arrive, GroupInv, GroupTyped, Steps, Barriers

LEMMA StartingCall ==
    ASSUME GroupInv, Prepare \/ RefuseCall
    PROVE  GroupInv'
  <1>1. /\ UNCHANGED <<setup, disk, wrote, changed, passes, doubtful, arrived, lock, agent, base, removed,
                       stopped>>
        /\ \A m \in Members : phase[m] \in {"asked", "over"} /\ phase'[m] \in {"prepared", "over"}
                                /\ (phase[m] = "over" => phase'[m] = "over")
        /\ phase' \in [Members -> Steps]
    BY DEF Prepare, RefuseCall, Asked, results, Steps
  <1>2. failed' \in [Members -> BOOLEAN]
    <2>1. CASE failed' = failed
      BY <2>1 DEF GroupInv, GroupTyped
    <2>2. CASE failed' = [m \in Members |-> phase[m] = "asked"]
      BY <2>2
    <2> QED BY <2>1, <2>2 DEF Prepare, RefuseCall, results
  <1>3. \A m \in Members : agent[m] = "none" /\ wrote[m] = {}
    <2>1. PICK m \in Members : phase[m] = "asked"
      BY DEF Prepare, RefuseCall, Asked
    <2>2. arrived["ready"] # Members
      BY <2>1 DEF GroupInv, SetUpFirst, Before
    <2> QED BY <2>2 DEF GroupInv, SetUpFirst
  <1>4. GroupTyped'
    BY <1>1, <1>2 DEF GroupInv, GroupTyped, setup
  <1>5. DiskIsWritten'
    BY <1>1 DEF GroupInv, DiskIsWritten, Tree, setup
  <1>6. ASSUME NEW m \in Members PROVE SetUpFirst(m)' /\ AgentHeld(m)' /\ Judged(m)'
    <2>1. SetUpFirst(m)'
      BY <1>1, <1>3 DEF GroupInv, SetUpFirst, Before, setup
    <2>2. AgentHeld(m)'
      BY <1>1, <1>3 DEF GroupInv, AgentHeld, Holding
    <2>3. Judged(m)'
      BY <1>1, <1>3 DEF Judged, Own
    <2> QED BY <2>1, <2>2, <2>3
  <1> QED BY <1>4, <1>5, <1>6 DEF GroupInv

LEMMA FailStep ==
    ASSUME GroupInv, NEW m \in Members, Fail(m), phase[m] \in (Holding \ {"running"}) \cup {"prepared"},
           UNCHANGED <<setup, disk, wrote, changed, passes, doubtful, base, agent, lock>>,
           removed' = removed \/ (phase[m] = "setup"
               /\ removed' = [removed EXCEPT ![m] = isolated /\ role[m] = "writer"])
    PROVE  GroupInv'
  <1>p. /\ phase'[m] = "failing" /\ failed'[m] = TRUE
        /\ \A n \in Members \ {m} : phase'[n] = phase[n] /\ failed'[n] = failed[n]
        /\ arrived'["ready"] = arrived["ready"] /\ stopped' = TRUE
    <2>1. /\ phase' = [phase EXCEPT ![m] = "failing"] /\ failed' = [failed EXCEPT ![m] = TRUE]
          /\ arrived'["ready"] = arrived["ready"]
      BY FailTypes
    <2>2. phase \in [Members -> Steps] /\ failed \in [Members -> BOOLEAN]
      BY DEF GroupInv, GroupTyped
    <2>3. stopped' = TRUE
      BY DEF Fail
    <2> QED BY <2>1, <2>2, <2>3
  <1>a. removed \in [Members -> BOOLEAN]
    BY DEF GroupInv, GroupTyped
  <1>q. /\ removed' \in [Members -> BOOLEAN] /\ \A n \in Members \ {m} : removed'[n] = removed[n]
        /\ removed' = removed \/ phase[m] = "setup"
    <2>1. CASE removed' = removed
      BY <1>a, <2>1
    <2>2. CASE phase[m] = "setup" /\ removed' = [removed EXCEPT ![m] = isolated /\ role[m] = "writer"]
      BY <1>a, <2>2
    <2> QED BY <2>1, <2>2
  <1>2. GroupTyped'
    BY <1>p, <1>q, FailTypes DEF GroupInv, GroupTyped, setup
  <1>3. Apart(m)
    BY <1>p, <1>q DEF Apart, GroupInv, GroupTyped, setup, Barriers
  <1>4. SetUpFirst(m)'
    BY <1>p, <1>q DEF GroupInv, SetUpFirst, Before, setup
  <1>5. phase[m] = "setup" => disk[m] = {} /\ agent[m] = "none"
    BY TreesAreTrees DEF GroupInv, SetUpFirst, DiskIsWritten, Before
  <1>6. lock[m] = "held" \/ agent[m] = "none"
    BY DEF GroupInv, AgentHeld, SetUpFirst, Before
  <1>7. removed'[m] => removed[m] \/ phase[m] = "setup"
    BY <1>q
  <1>8. agent[m] = "alive" => phase[m] = "running" \/ doubtful[m]
    BY DEF GroupInv, AgentHeld
  <1>9. AgentHeld(m)'
    <2>1. AgentHeld(m)
      BY DEF GroupInv
    <2>2. agent'[m] = agent[m] /\ lock'[m] = lock[m] /\ disk'[m] = disk[m] /\ doubtful'[m] = doubtful[m]
      OBVIOUS
    <2>3. phase[m] # "running" /\ ~removed[m]
      BY <2>1 DEF AgentHeld, Holding
    <2> QED BY <1>p, <1>q, <1>5, <1>6, <1>7, <1>8, <2>1, <2>2, <2>3 DEF AgentHeld, Holding
  <1>10. Judged(m)'
    BY <1>p, <1>q DEF GroupInv, Judged, Tree, setup
  <1> QED BY <1>2, <1>3, <1>4, <1>9, <1>10, MemberMoves

(* How a member goes on and arrives.                                        *)
LEMMA Goings ==
    ASSUME GroupInv, NEW m \in Members, NEW p \in Steps, Go(m, p)
    PROVE  /\ phase' \in [Members -> Steps] /\ phase'[m] = p
           /\ \A n \in Members \ {m} : phase'[n] = phase[n]
  BY DEF Go, GroupInv, GroupTyped

LEMMA Arrivals ==
    ASSUME GroupInv, NEW m \in Members, NEW b \in Barriers, Arrive(m, b)
    PROVE  /\ arrived' \in [Barriers -> SUBSET Members]
           /\ arrived["ready"] \subseteq arrived'["ready"] /\ arrived'["ready"] \subseteq Members
           /\ \A n \in Members \ {m} : n \in arrived'["ready"] <=> n \in arrived["ready"]
           /\ b # "ready" => arrived'["ready"] = arrived["ready"]
  BY DEF Arrive, GroupInv, GroupTyped, Barriers

(* A member goes on to another place, before its evaluation.                *)
LEMMA BarrierSteps ==
    ASSUME GroupInv, NEW m \in Members, AcquireLock(m) \/ PassLocked(m) \/ SetUp(m) \/ StartRun(m)
    PROVE  GroupInv'
  <1>1. UNCHANGED <<setup, disk, wrote, changed, passes, doubtful>>
    BY DEF AcquireLock, PassLocked, SetUp, StartRun, setup, results
  <1>2. CASE Fail(m) /\ UNCHANGED <<base, agent, lock>>
    <2>1. phase[m] \in (Holding \ {"running"}) \cup {"prepared"}
      BY DEF AcquireLock, PassLocked, SetUp, StartRun, Holding
    <2>2. removed' = removed \/ (phase[m] = "setup"
               /\ removed' = [removed EXCEPT ![m] = isolated /\ role[m] = "writer"])
      BY DEF AcquireLock, PassLocked, SetUp, StartRun
    <2> QED BY <1>1, <1>2, <2>1, <2>2, FailStep
  <1>3. CASE /\ phase[m] = "prepared" /\ Go(m, "atLocked") /\ Arrive(m, "locked")
             /\ lock' = [lock EXCEPT ![m] = "held"]
             /\ UNCHANGED <<base, agent, failed, stopped, removed>>
    <2>1. /\ lock' \in [Members -> {"none", "held", "released", "expiring", "quarantined"}]
          /\ lock'[m] = "held" /\ \A n \in Members \ {m} : lock'[n] = lock[n]
      BY <1>3 DEF GroupInv, GroupTyped
    <2>2. GroupTyped' /\ Apart(m) /\ phase'[m] = "atLocked" /\ arrived'["ready"] = arrived["ready"]
      BY <1>1, <1>3, <2>1, Goings, Arrivals DEF GroupInv, GroupTyped, Apart, setup, Steps, Barriers
    <2>3. SetUpFirst(m)' /\ AgentHeld(m)' /\ Judged(m)'
      BY <1>1, <1>3, <2>1, <2>2 DEF GroupInv, SetUpFirst, AgentHeld, Judged, Before, Holding, Tree, setup
    <2> QED BY <1>1, <2>2, <2>3, MemberMoves
  <1>4. CASE /\ phase[m] = "atLocked" /\ Go(m, "setup")
             /\ UNCHANGED <<base, agent, lock, arrived, failed, stopped, removed>>
    <2>1. GroupTyped' /\ Apart(m) /\ phase'[m] = "setup"
      BY <1>1, <1>4, Goings DEF GroupInv, GroupTyped, Apart, setup, Steps, Barriers
    <2>2. SetUpFirst(m)' /\ AgentHeld(m)' /\ Judged(m)'
      BY <1>1, <1>4, <2>1 DEF GroupInv, SetUpFirst, AgentHeld, Judged, Before, Holding, Tree, setup
    <2> QED BY <1>1, <2>1, <2>2, MemberMoves
  <1>5. CASE /\ phase[m] = "setup" /\ base' = [base EXCEPT ![m] = disk[Tree(m)]]
             /\ Go(m, "atReady") /\ Arrive(m, "ready")
             /\ UNCHANGED <<agent, lock, failed, stopped, removed>>
    <2>1. \A n \in Members : wrote[n] = {} /\ agent[n] = "none"
      BY <1>5 DEF GroupInv, SetUpFirst, Before
    <2>2. disk[Tree(m)] = {}
      <3>1. Tree(m) \in Members \cup {"checkout"}
        BY DEF Tree
      <3> QED BY <2>1, <3>1 DEF GroupInv, DiskIsWritten
    <2>3. base' \in [Members -> SUBSET Files] /\ base'[m] = {}
              /\ \A n \in Members \ {m} : base'[n] = base[n]
      BY <1>5, <2>2 DEF GroupInv, GroupTyped
    <2>4. GroupTyped' /\ Apart(m) /\ phase'[m] = "atReady"
      BY <1>1, <1>5, <2>3, Goings, Arrivals DEF GroupInv, GroupTyped, Apart, setup, Steps, Barriers
    <2>5. SetUpFirst(m)' /\ AgentHeld(m)' /\ Judged(m)'
      BY <1>1, <1>5, <2>1, <2>3, <2>4
         DEF GroupInv, SetUpFirst, AgentHeld, Judged, Before, Holding, Tree, setup
    <2> QED BY <1>1, <2>4, <2>5, MemberMoves
  <1>6. CASE /\ phase[m] = "atReady" /\ Open("ready") /\ ~stopped /\ Go(m, "running")
             /\ agent' = [agent EXCEPT ![m] = "alive"]
             /\ UNCHANGED <<base, lock, arrived, failed, stopped, removed>>
    <2>1. /\ agent' \in [Members -> {"none", "alive", "dead"}] /\ agent'[m] = "alive"
          /\ \A n \in Members \ {m} : agent'[n] = agent[n]
          /\ arrived["ready"] = Members
      BY <1>6 DEF GroupInv, GroupTyped, Open
    <2>2. GroupTyped' /\ Apart(m) /\ phase'[m] = "running"
      BY <1>1, <1>6, <2>1, Goings DEF GroupInv, GroupTyped, Apart, setup, Steps, Barriers
    <2>3. SetUpFirst(m)' /\ AgentHeld(m)' /\ Judged(m)'
      BY <1>1, <1>6, <2>1, <2>2
         DEF GroupInv, SetUpFirst, AgentHeld, Judged, Before, Holding, Tree, setup
    <2> QED BY <1>1, <2>2, <2>3, MemberMoves
  <1> QED BY <1>2, <1>3, <1>4, <1>5, <1>6 DEF AcquireLock, PassLocked, SetUp, StartRun, results

(* What a live agent or a gate writes stands in the tree of its member.     *)
LEMMA WritesStep ==
    ASSUME GroupInv, NEW m \in Members, NEW fs \in SUBSET Files, Apart(m), GroupTyped',
           disk' = [disk EXCEPT ![Tree(m)] = @ \cup fs], wrote'[m] = wrote[m] \cup fs,
           SetUpFirst(m)', AgentHeld(m)', Judged(m)'
    PROVE  GroupInv'
  <1>1. \A n \in Members : Tree(n)' = Tree(n) /\ Tree(n) \in Members \cup {"checkout"}
    BY DEF Apart, Tree
  <1>2. disk \in [Members \cup {"checkout"} -> SUBSET Files]
    BY DEF GroupInv, GroupTyped
  <1>3. ASSUME NEW t \in Members \cup {"checkout"}, NEW f \in disk'[t]
        PROVE  \E n \in Members : Tree(n) = t /\ f \in wrote'[n]
    <2>1. CASE f \in disk[t]
      <3>1. PICK n \in Members : Tree(n) = t /\ f \in wrote[n]
        BY <2>1 DEF GroupInv, DiskIsWritten
      <3> QED BY <3>1 DEF Apart
    <2>2. CASE f \notin disk[t]
      BY <1>1, <1>2, <1>3, <2>2
    <2> QED BY <2>1, <2>2
  <1>4. DiskIsWritten'
    BY <1>1, <1>3 DEF DiskIsWritten
  <1> QED BY <1>4, OthersApart DEF GroupInv

LEMMA AgentStep ==
    ASSUME GroupInv, NEW m \in Members, NEW f \in {m, "stray"}, AgentWrites(m, f)
    PROVE  GroupInv'
  <1>1. UNCHANGED <<setup, phase, arrived, stopped, lock, agent, doubtful, base, results>>
    BY DEF AgentWrites
  <1>2. /\ wrote' \in [Members -> SUBSET Files] /\ wrote'[m] = wrote[m] \cup {f}
        /\ \A n \in Members \ {m} : wrote'[n] = wrote[n]
        /\ {f} \in SUBSET Files /\ agent[m] = "alive" /\ role[m] = "writer"
        /\ disk' = [disk EXCEPT ![Tree(m)] = @ \cup {f}]
    BY DEF AgentWrites, GroupInv, GroupTyped, Files
  <1>3. disk \in [Members \cup {"checkout"} -> SUBSET Files]
    BY DEF GroupInv, GroupTyped
  <1>4. /\ disk' \in [Members \cup {"checkout"} -> SUBSET Files]
        /\ \A t \in Members \cup {"checkout"} : disk[t] \subseteq disk'[t]
        /\ \A n \in Members \ {m} : disk'[n] = disk[n]
        /\ Tree(m) \in {m, "checkout"} /\ f \in disk'[Tree(m)] /\ Tree(m)' = Tree(m)
    <2>1. Tree(m) \in {m, "checkout"} /\ \A n \in Members \ {m} : Tree(m) # n
      BY GroupAssumption DEF Tree
    <2> QED BY <1>1, <1>2, <1>3, <2>1 DEF Tree, setup
  <1>5. GroupTyped' /\ Apart(m)
    BY <1>1, <1>2, <1>4 DEF GroupInv, GroupTyped, Apart, setup, results, Barriers
  <1>6. SetUpFirst(m)'
    BY <1>1, <1>2 DEF GroupInv, SetUpFirst, setup
  <1>7. AgentHeld(m)'
    BY <1>1, <1>2 DEF GroupInv, AgentHeld, results
  <1>8. Judged(m)'
    BY <1>1, <1>2, <1>4 DEF GroupInv, AgentHeld, Judged, results
  <1> QED BY <1>2, <1>5, <1>6, <1>7, <1>8, WritesStep

LEMMA EndStep ==
    ASSUME GroupInv, NEW m \in Members, AgentEnds(m)
    PROVE  GroupInv'
  <1>1. /\ UNCHANGED <<setup, stopped, lock, disk, wrote, base, changed, passes, removed>>
        /\ phase[m] = "running" /\ Go(m, "atAgents") /\ Arrive(m, "agents")
    BY DEF AgentEnds
  <1>2. PICK outcome \in {"ok", "error", "unconfirmed"} :
          /\ agent' \in IF outcome = "unconfirmed" THEN {agent, [agent EXCEPT ![m] = "dead"]}
                        ELSE {[agent EXCEPT ![m] = "dead"]}
          /\ doubtful' = [doubtful EXCEPT ![m] = outcome = "unconfirmed"]
          /\ failed' = [failed EXCEPT ![m] = outcome # "ok" \/ lost[m]]
    BY DEF AgentEnds
  <1>3. /\ agent \in [Members -> {"none", "alive", "dead"}]
        /\ doubtful \in [Members -> BOOLEAN] /\ failed \in [Members -> BOOLEAN]
    BY DEF GroupInv, GroupTyped
  <1>4. /\ agent' \in [Members -> {"none", "alive", "dead"}]
        /\ \A n \in Members \ {m} : agent'[n] = agent[n]
        /\ agent'[m] = "dead" \/ (agent'[m] = agent[m] /\ outcome = "unconfirmed")
    BY <1>2, <1>3
  <1>5. /\ doubtful' \in [Members -> BOOLEAN] /\ failed' \in [Members -> BOOLEAN]
        /\ \A n \in Members \ {m} : doubtful'[n] = doubtful[n] /\ failed'[n] = failed[n]
        /\ outcome = "unconfirmed" => doubtful'[m] /\ failed'[m]
    BY <1>2, <1>3
  <1>6. GroupTyped' /\ Apart(m) /\ phase'[m] = "atAgents" /\ arrived'["ready"] = arrived["ready"]
    BY <1>1, <1>4, <1>5, Goings, Arrivals DEF GroupInv, GroupTyped, Apart, setup, Steps, Barriers
  <1>7. SetUpFirst(m)'
    BY <1>1, <1>4, <1>6 DEF GroupInv, SetUpFirst, AgentHeld, Before, setup
  <1>8. AgentHeld(m)'
    BY <1>1, <1>4, <1>5, <1>6 DEF GroupInv, AgentHeld, Holding
  <1>9. Judged(m)'
    BY <1>1, <1>6 DEF GroupInv, Judged, Tree, setup
  <1> QED BY <1>1, <1>6, <1>7, <1>8, <1>9, MemberMoves

LEMMA PassStep ==
    ASSUME GroupInv, NEW m \in Members, PassAgents(m)
    PROVE  GroupInv'
  <1>1. /\ UNCHANGED <<setup, stopped, lock, agent, doubtful, disk, wrote, base, results>>
        /\ phase[m] = "atAgents" /\ Go(m, "early") /\ Arrive(m, "validated")
    BY DEF PassAgents
  <1>2. GroupTyped' /\ Apart(m) /\ phase'[m] = "early" /\ arrived'["ready"] = arrived["ready"]
    BY <1>1, Goings, Arrivals DEF GroupInv, GroupTyped, Apart, setup, results, Steps, Barriers
  <1>3. SetUpFirst(m)' /\ AgentHeld(m)' /\ Judged(m)'
    BY <1>1, <1>2
       DEF GroupInv, SetUpFirst, AgentHeld, Judged, Before, Holding, Tree, setup, results
  <1> QED BY <1>1, <1>2, <1>3, MemberMoves

(* What the first capture accepts is all that its member wrote so far.      *)
LEMMA SeenIsWritten ==
    ASSUME GroupInv, NEW m \in Members
    PROVE  wrote[m] \subseteq Seen(m) /\ Seen(m) \in SUBSET Files
  <1>1. disk[Tree(m)] \in SUBSET Files
    BY DEF GroupInv, GroupTyped, Tree
  <1> QED BY <1>1 DEF GroupInv, SetUpFirst, Judged, Seen

LEMMA CaptureStep ==
    ASSUME GroupInv, NEW m \in Members, Capture(m)
    PROVE  GroupInv'
  <1>1. UNCHANGED <<setup, lock, agent, doubtful, disk, wrote, base, passes, removed>>
            /\ phase[m] \in {"atAgents", "early"}
    BY DEF Capture
  <1>2. CASE Fail(m) /\ UNCHANGED changed
    BY <1>1, <1>2, FailStep DEF Holding
  <1>3. CASE /\ changed' = [changed EXCEPT ![m] = Seen(m)]
             /\ failed' = [failed EXCEPT ![m] = @ \/ ~(Seen(m) \subseteq Allowed(m)) \/ lost[m]]
             /\ Go(m, "captured") /\ UNCHANGED <<arrived, stopped>>
    <2>1. /\ changed' \in [Members -> SUBSET Files] /\ changed'[m] = Seen(m)
          /\ \A n \in Members \ {m} : changed'[n] = changed[n]
      BY <1>3, SeenIsWritten DEF GroupInv, GroupTyped
    <2>2. failed \in [Members -> BOOLEAN]
      BY DEF GroupInv, GroupTyped
    <2>3. /\ failed' \in [Members -> BOOLEAN] /\ \A n \in Members \ {m} : failed'[n] = failed[n]
          /\ failed[m] => failed'[m]
          /\ ~failed'[m] => Seen(m) \subseteq Allowed(m)
      BY <1>3, <2>2
    <2>4. GroupTyped' /\ Apart(m) /\ phase'[m] = "captured"
      BY <1>1, <1>3, <2>1, <2>3, Goings DEF GroupInv, GroupTyped, Apart, setup, Steps, Barriers
    <2>5. SetUpFirst(m)' /\ AgentHeld(m)'
      BY <1>1, <1>3, <2>3, <2>4 DEF GroupInv, SetUpFirst, AgentHeld, Before, Holding, setup
    <2>6. Judged(m)'
      BY <1>1, <1>3, <2>1, <2>3, <2>4, SeenIsWritten DEF GroupInv, Judged, Own, Tree, Allowed, setup
    <2> QED BY <1>1, <2>4, <2>5, <2>6, MemberMoves
  <1> QED BY <1>2, <1>3 DEF Capture

LEMMA GateStep ==
    ASSUME GroupInv, NEW m \in Members, RunGate(m)
    PROVE  GroupInv'
  <1>1. /\ UNCHANGED <<setup, stopped, lock, agent, base, changed, passes, removed>>
        /\ phase[m] = "captured" /\ Go(m, "atValidated") /\ Arrive(m, "validated")
    BY DEF RunGate
  <1>2. phase'[m] = "atValidated" /\ arrived'["ready"] = arrived["ready"]
    BY <1>1, Goings, Arrivals DEF Steps, Barriers
  <1>3. CASE Gated(m) /\ ~failed[m]
    <2>1. PICK ok \in BOOLEAN, fs \in {{}, {"stray"}} :
            /\ disk' = [disk EXCEPT ![Tree(m)] = @ \cup fs]
            /\ wrote' = [wrote EXCEPT ![m] = @ \cup fs]
            /\ failed' = [failed EXCEPT ![m] = ~ok]
            /\ doubtful' \in (IF ok THEN {doubtful} ELSE {doubtful, [doubtful EXCEPT ![m] = TRUE]})
      BY <1>3 DEF RunGate
    <2>2. /\ wrote' \in [Members -> SUBSET Files] /\ wrote'[m] = wrote[m] \cup fs /\ fs \in SUBSET Files
          /\ \A n \in Members \ {m} : wrote'[n] = wrote[n]
          /\ failed' \in [Members -> BOOLEAN] /\ \A n \in Members \ {m} : failed'[n] = failed[n]
      BY <2>1 DEF GroupInv, GroupTyped, Files
    <2>3. /\ doubtful' \in [Members -> BOOLEAN] /\ \A n \in Members \ {m} : doubtful'[n] = doubtful[n]
      BY <2>1 DEF GroupInv, GroupTyped
    <2>4. /\ disk' \in [Members \cup {"checkout"} -> SUBSET Files]
          /\ \A t \in Members \cup {"checkout"} : disk[t] \subseteq disk'[t]
          /\ \A n \in Members \ {m} : disk'[n] = disk[n]
          /\ Tree(m) \in {m, "checkout"} /\ fs \subseteq disk'[Tree(m)] /\ Tree(m)' = Tree(m)
      <3>1. Tree(m) \in {m, "checkout"} /\ \A n \in Members \ {m} : Tree(m) # n
        BY GroupAssumption DEF Tree
      <3>2. disk \in [Members \cup {"checkout"} -> SUBSET Files]
        BY DEF GroupInv, GroupTyped
      <3> QED BY <1>1, <2>1, <2>2, <3>1, <3>2 DEF Tree, setup
    <2>5. role[m] = "writer" /\ agent[m] # "alive" /\ ~removed[m] /\ changed[m] \subseteq Allowed(m)
      BY <1>1, <1>3 DEF GroupInv, AgentHeld, Gated, Judged
    <2>6. agent[m] # "none"
      BY <1>1 DEF GroupInv, AgentHeld, Holding, Before
    <2>7. GroupTyped' /\ Apart(m)
      BY <1>1, <2>2, <2>3, <2>4, Goings, Arrivals
         DEF GroupInv, GroupTyped, Apart, setup, Steps, Barriers
    <2>8. SetUpFirst(m)' /\ AgentHeld(m)'
      BY <1>1, <1>2, <2>2, <2>5, <2>6 DEF GroupInv, SetUpFirst, AgentHeld, Before, Holding, setup
    <2>9. Judged(m)'
      BY <1>1, <1>2, <1>3, <2>2, <2>4, <2>5 DEF GroupInv, Judged, Own, Tree, Allowed, Gated, setup
    <2> QED BY <2>1, <2>2, <2>7, <2>8, <2>9, WritesStep
  <1>4. CASE ~(Gated(m) /\ ~failed[m])
    <2>1. UNCHANGED <<disk, wrote, failed, doubtful>>
      BY <1>4 DEF RunGate
    <2>2. GroupTyped' /\ Apart(m)
      BY <1>1, <2>1, Goings, Arrivals DEF GroupInv, GroupTyped, Apart, setup, Steps, Barriers
    <2>3. SetUpFirst(m)' /\ AgentHeld(m)'
      BY <1>1, <1>2, <2>1 DEF GroupInv, SetUpFirst, AgentHeld, Before, Holding, setup
    <2>4. Judged(m)'
      BY <1>1, <1>2, <1>4, <2>1 DEF GroupInv, Judged, Own, Tree, Allowed, Gated, setup
    <2> QED BY <2>1, <2>2, <2>3, <2>4, MemberMoves
  <1> QED BY <1>3, <1>4

(* What a gate wrote is found by the second look.                           *)
LEMMA FinishStep ==
    ASSUME GroupInv, NEW m \in Members, FinishEvaluation(m)
    PROVE  GroupInv'
  <1>1. UNCHANGED <<setup, lock, agent, doubtful, disk, wrote, base, passes, removed>>
            /\ phase[m] = "atValidated"
    BY DEF FinishEvaluation
  <1>2. CASE Fail(m)
    <2>1. changed' = changed
      BY <1>2 DEF FinishEvaluation, Fail, Go, GroupInv, GroupTyped
    <2> QED BY <1>1, <1>2, <2>1, FailStep DEF Holding
  <1> DEFINE late == IF Gated(m) THEN Seen(m) \ changed[m] ELSE {}
  <1>3. CASE /\ changed' = [changed EXCEPT ![m] = @ \cup late]
             /\ failed' = [failed EXCEPT ![m] = @ \/ late # {}]
             /\ Go(m, "judged") /\ UNCHANGED <<arrived, stopped>>
    <2>1. late \in SUBSET Files
      BY SeenIsWritten
    <2>2. /\ changed' \in [Members -> SUBSET Files] /\ changed'[m] = changed[m] \cup late
          /\ \A n \in Members \ {m} : changed'[n] = changed[n]
      BY <1>3, <2>1 DEF GroupInv, GroupTyped
    <2>3. failed \in [Members -> BOOLEAN]
      BY DEF GroupInv, GroupTyped
    <2>4. /\ failed' \in [Members -> BOOLEAN] /\ \A n \in Members \ {m} : failed'[n] = failed[n]
          /\ failed[m] => failed'[m]
          /\ ~failed'[m] => ~failed[m] /\ late = {}
      BY <1>3, <2>3
    <2>5. ~failed'[m] => Own(m)
      BY <1>1, <2>4, SeenIsWritten DEF GroupInv, Judged, Own
    <2> HIDE DEF late
    <2>6. GroupTyped' /\ Apart(m) /\ phase'[m] = "judged"
      BY <1>1, <1>3, <2>2, <2>4, Goings DEF GroupInv, GroupTyped, Apart, setup, Steps, Barriers
    <2>7. SetUpFirst(m)' /\ AgentHeld(m)'
      BY <1>1, <1>3, <2>4, <2>6 DEF GroupInv, SetUpFirst, AgentHeld, Before, Holding, setup
    <2>8. Judged(m)'
      BY <1>1, <1>3, <2>2, <2>4, <2>5, <2>6 DEF GroupInv, Judged, Own, Tree, Allowed, setup
    <2> QED BY <1>1, <2>6, <2>7, <2>8, MemberMoves
  <1> QED BY <1>2, <1>3 DEF FinishEvaluation

LEMMA FixStep ==
    ASSUME GroupInv, NEW m \in Members, FixPass(m)
    PROVE  GroupInv'
  <1>1. /\ UNCHANGED <<setup, arrived, stopped, lock, doubtful, disk, wrote, base, changed, removed>>
        /\ phase[m] = "judged" /\ Go(m, "running") /\ agent[m] = "dead"
        /\ agent' = [agent EXCEPT ![m] = "alive"] /\ failed' = [failed EXCEPT ![m] = FALSE]
        /\ passes' = [passes EXCEPT ![m] = @ + 1] /\ passes[m] < FixPasses
    BY DEF FixPass
  <1>2. passes' \in [Members -> 0..FixPasses]
    BY <1>1, GroupAssumption DEF GroupInv, GroupTyped
  <1>3. /\ agent' \in [Members -> {"none", "alive", "dead"}] /\ agent'[m] = "alive"
        /\ failed' \in [Members -> BOOLEAN]
        /\ \A n \in Members \ {m} : agent'[n] = agent[n] /\ failed'[n] = failed[n]
    BY <1>1 DEF GroupInv, GroupTyped
  <1>4. GroupTyped' /\ Apart(m) /\ phase'[m] = "running"
    BY <1>1, <1>2, <1>3, Goings DEF GroupInv, GroupTyped, Apart, setup, Steps, Barriers
  <1>5. SetUpFirst(m)' /\ AgentHeld(m)' /\ Judged(m)'
    BY <1>1, <1>3, <1>4
       DEF GroupInv, SetUpFirst, AgentHeld, Judged, Before, Holding, Tree, setup
  <1> QED BY <1>1, <1>4, <1>5, MemberMoves

LEMMA OutcomeStep ==
    ASSUME GroupInv, NEW m \in Members, Outcome(m)
    PROVE  GroupInv'
  <1>1. /\ UNCHANGED <<setup, stopped, lock, agent, doubtful, disk, wrote, base, changed, passes, removed>>
        /\ phase[m] = "judged" /\ Go(m, "atFinished") /\ Arrive(m, "finished")
        /\ failed' \in {failed, [failed EXCEPT ![m] = TRUE]}
    BY DEF Outcome
  <1>2. /\ failed' \in [Members -> BOOLEAN] /\ (failed[m] => failed'[m])
        /\ \A n \in Members \ {m} : failed'[n] = failed[n]
    BY <1>1 DEF GroupInv, GroupTyped
  <1>3. GroupTyped' /\ Apart(m) /\ phase'[m] = "atFinished" /\ arrived'["ready"] = arrived["ready"]
    BY <1>1, <1>2, Goings, Arrivals DEF GroupInv, GroupTyped, Apart, setup, Steps, Barriers
  <1>4. SetUpFirst(m)' /\ AgentHeld(m)'
    BY <1>1, <1>2, <1>3 DEF GroupInv, SetUpFirst, AgentHeld, Before, Holding, setup
  <1>5. Judged(m)'
    BY <1>1, <1>2, <1>3 DEF GroupInv, Judged, Own, Tree, Allowed, setup
  <1> QED BY <1>1, <1>3, <1>4, <1>5, MemberMoves

LEMMA CleanupStep ==
    ASSUME GroupInv, NEW m \in Members, Cleanup(m)
    PROVE  GroupInv'
  <1>1. /\ UNCHANGED <<setup, arrived, stopped, lock, agent, doubtful, disk, wrote, base, changed, failed, passes>>
        /\ phase[m] \in {"atFinished", "failing"} /\ Go(m, "releasing")
    BY DEF Cleanup
  <1>2. removed' = [removed EXCEPT ![m] =
           @ \/ /\ phase[m] = "atFinished" /\ Tree(m) = m /\ ~doubtful[m]
                /\ disk[m] = {} /\ changed[m] = {} /\ ~TreeRejected(m)]
    BY DEF Cleanup
  <1>3. removed \in [Members -> BOOLEAN]
    BY DEF GroupInv, GroupTyped
  <1>4. /\ removed' \in [Members -> BOOLEAN] /\ \A n \in Members \ {m} : removed'[n] = removed[n]
        /\ removed'[m] => removed[m] \/ (phase[m] = "atFinished" /\ ~doubtful[m] /\ disk[m] = {})
    BY <1>2, <1>3
  <1>5. GroupTyped' /\ Apart(m) /\ phase'[m] = "releasing"
    BY <1>1, <1>4, Goings DEF GroupInv, GroupTyped, Apart, setup, Steps, Barriers
  <1>6. SetUpFirst(m)' /\ AgentHeld(m)'
    BY <1>1, <1>4, <1>5 DEF GroupInv, SetUpFirst, AgentHeld, Before, Holding, setup
  <1>7. Judged(m)'
    BY <1>1, <1>5 DEF GroupInv, AgentHeld, Judged, Own, Tree, Allowed, setup
  <1> QED BY <1>1, <1>5, <1>6, <1>7, MemberMoves

LEMMA ReleaseLockStep ==
    ASSUME GroupInv, NEW m \in Members, ReleaseLock(m)
    PROVE  GroupInv'
  <1>1. /\ UNCHANGED <<setup, arrived, stopped, agent, doubtful, disk, wrote, base, results>>
        /\ phase[m] = "releasing" /\ Go(m, "over")
    BY DEF ReleaseLock
  <1>2. PICK kept \in {"expiring", IF doubtful[m] THEN "quarantined" ELSE "released"} :
          lock' = [lock EXCEPT ![m] = IF @ = "held" THEN kept ELSE @]
    BY DEF ReleaseLock
  <1>3. /\ lock' \in [Members -> {"none", "held", "released", "expiring", "quarantined"}]
        /\ \A n \in Members \ {m} : lock'[n] = lock[n]
        /\ lock'[m] = lock[m] \/ lock'[m] = "expiring" \/ lock'[m] = "quarantined" \/ ~doubtful[m]
    BY <1>2 DEF GroupInv, GroupTyped
  <1>4. GroupTyped' /\ Apart(m) /\ phase'[m] = "over"
    BY <1>1, <1>3, Goings DEF GroupInv, GroupTyped, Apart, setup, results, Steps, Barriers
  <1>5. SetUpFirst(m)' /\ Judged(m)'
    BY <1>1, <1>4 DEF GroupInv, SetUpFirst, Judged, Own, Before, Tree, Allowed, setup, results
  <1>6. AgentHeld(m)'
    BY <1>1, <1>3, <1>4 DEF GroupInv, AgentHeld, Before, Holding, results
  <1> QED BY <1>1, <1>4, <1>5, <1>6, MemberMoves DEF results

(* Steps of the whole group.                                                *)
LEMMA WholeSteps ==
    ASSUME GroupInv,
           VerifyGroup \/ Abort \/ (\E m \in Members : LockLost(m)) \/ UNCHANGED jobgroupvars
    PROVE  GroupInv'
  <1>1. /\ UNCHANGED <<setup, phase, arrived, lock, agent, doubtful, disk, wrote, base, changed, passes, removed>>
        /\ stopped' \in BOOLEAN
    BY DEF VerifyGroup, Abort, LockLost, jobgroupvars, setup, results, GroupInv, GroupTyped
  <1>2. failed \in [Members -> BOOLEAN]
    BY DEF GroupInv, GroupTyped
  <1>3. failed' \in [Members -> BOOLEAN] /\ \A m \in Members : failed[m] => failed'[m]
    <2>1. CASE VerifyGroup
      <3>1. PICK broken \in SUBSET {Tree(m) : m \in Members} :
              failed' = [m \in Members |->
                \/ failed[m]
                \/ phase[m] = "atFinished" /\ (Tree(m) \in broken \/ TreeRejected(Tree(m)))]
        BY <2>1 DEF VerifyGroup
      <3> QED BY <1>2, <3>1
    <2>2. CASE ~VerifyGroup
      BY <1>2, <2>2 DEF Abort, LockLost, jobgroupvars, results
    <2> QED BY <2>1, <2>2
  <1>4. GroupTyped' /\ DiskIsWritten'
    BY <1>1, <1>3 DEF GroupInv, GroupTyped, DiskIsWritten, Tree, setup
  <1>5. ASSUME NEW m \in Members PROVE SetUpFirst(m)' /\ AgentHeld(m)' /\ Judged(m)'
    BY <1>1, <1>3
       DEF GroupInv, SetUpFirst, AgentHeld, Judged, Own, Before, Holding, Tree, Allowed, Gated, setup
  <1> QED BY <1>4, <1>5 DEF GroupInv

LEMMA GroupStepInv == GroupInv /\ [GroupNext]_jobgroupvars => GroupInv'
  <1> SUFFICES ASSUME GroupInv, [GroupNext]_jobgroupvars PROVE GroupInv'
    OBVIOUS
  <1>1. ASSUME NEW m \in Members, MemberStep(m) PROVE GroupInv'
    BY <1>1, BarrierSteps, EndStep, PassStep, CaptureStep, GateStep, FinishStep, FixStep, OutcomeStep,
       CleanupStep, ReleaseLockStep DEF MemberStep
  <1> QED BY <1>1, StartingCall, AgentStep, WholeSteps DEF GroupNext

(* What a call reports is what its members did, and the lock and the        *)
(* worktree of an agent that may be alive stay: for any number of members,  *)
(* gates and fix passes (evaluateAgentRun, releaseAcquiredLock).            *)
THEOREM CallsReportTheirOwn == GroupSpec => []GroupSound
  <1>1. GroupInv => GroupSound
    <2> SUFFICES ASSUME GroupInv PROVE GroupSound
      OBVIOUS
    <2>1. GroupTypeOK
      BY DEF GroupInv, GroupTyped, GroupTypeOK
    <2>2. AcceptedIsOwn
      BY DEF GroupInv, Judged, Own, AcceptedIsOwn, Accepted
    <2>3. SuccessAccounted
      <3> SUFFICES ASSUME \A m \in Members : Accepted(m), NEW t \in {Tree(m) : m \in Members},
                          NEW f \in disk[t]
                   PROVE  \E n \in Members : Tree(n) = t /\ f \in Allowed(n)
        BY DEF SuccessAccounted
      <3>1. t \in Members \cup {"checkout"}
        BY DEF Tree
      <3>2. PICK n \in Members : Tree(n) = t /\ f \in wrote[n]
        BY <3>1 DEF GroupInv, DiskIsWritten
      <3> QED BY <2>2, <3>2 DEF AcceptedIsOwn
    <2>4. BaselineClean
      BY DEF GroupInv, SetUpFirst, BaselineClean
    <2>5. LiveTreeHeld /\ OutputKept
      BY DEF GroupInv, AgentHeld, LiveTreeHeld, OutputKept
    <2> QED BY <2>1, <2>2, <2>3, <2>4, <2>5 DEF GroupSound
  <1> QED BY <1>1, GroupInitInv, GroupStepInv, PTL DEF GroupSpec

-----------------------------------------------------------------------------
(* The retry policy.                                                        *)
Errors == {"none", "real", "slot", "pauses", "limited", "infra", "fatal"}
Rows ==
    [status : {"none", "queued", "completed", "failed", "interrupted", "cancelled"},
     model : PolicyModels, err : Errors, attempt : Nat, slot : Nat, pauses : Nat, infra : Nat,
     seq : Nat, from : 0..MaxJobs, as : 0..MaxJobs, outcome : {"none", "requeued", "ended"},
     deferred : BOOLEAN, orphan : BOOLEAN, hops : Nat, spent : Nat]
Decisions ==
    [at : {"idle", "requeue", "enqueue", "mark", "settle"}, job : Chain, model : PolicyModels]
Budget == [attempts : Nat \ {0}, slot : Nat, pauses : Nat, infra : Nat]

RetryTyped ==
    /\ budget \in Budget /\ jobs \in [Chain -> Rows]
    /\ decision \in [Deciders -> Decisions] /\ drops \in 0..MaxDrops

(* Every automatic requeue is counted once, and in a count that has a limit.*)
Counted(j) ==
    /\ jobs[j].attempt \in 1..budget.attempts /\ jobs[j].slot <= budget.slot
    /\ jobs[j].pauses <= budget.pauses /\ jobs[j].infra <= budget.infra
    /\ jobs[j].hops = (jobs[j].attempt - 1) + jobs[j].slot + jobs[j].pauses + jobs[j].infra
    /\ jobs[j].spent < jobs[j].attempt

(* The rows are one chain: each key once, and the next one from its job.    *)
Linked(j) ==
    /\ jobs[j].from # 0 =>
         /\ jobs[j].status # "none" /\ jobs[j].from \in Chain
         /\ jobs[j].seq = jobs[jobs[j].from].seq + 1 /\ jobs[jobs[j].from].status # "none"
    /\ \A k \in Chain : jobs[j].status # "none" /\ jobs[k].status # "none" /\ jobs[j].seq = jobs[k].seq
                          => j = k

(* What was decided about an ended job still holds of it.                   *)
Affords(j) == Eligible(j) /\ (WaitOf(j) # "none" \/ jobs[j].attempt < budget.attempts)
StillDue(d) ==
    decision[d].at \in {"requeue", "enqueue"} =>
        /\ jobs[decision[d].job].status \in {"failed", "interrupted", "cancelled"}
        /\ d # Operator => Affords(decision[d].job)

RetryInv ==
    /\ RetryTyped /\ (\A j \in Chain : Counted(j) /\ Linked(j)) /\ \A d \in Deciders : StillDue(d)

-----------------------------------------------------------------------------
LEMMA FirstRow ==
    /\ NoRetryJob \in Rows /\ Undecided \in Decisions
    /\ NoRetryJob.status = "none" /\ NoRetryJob.from = 0
  BY RetryAssumption DEF NoRetryJob, Rows, Undecided, Decisions, PolicyModels, Chain, Errors

LEMMA RetryInitInv == RetryInit => RetryInv
  <1> SUFFICES ASSUME RetryInit PROVE RetryInv
    OBVIOUS
  <1> USE DEF RetryInit
  <1>1. budget \in Budget /\ drops \in 0..MaxDrops
    BY RetryAssumption DEF Budget
  <1>2. decision \in [Deciders -> Decisions] /\ \A d \in Deciders : decision[d].at = "idle"
    BY FirstRow DEF Undecided
  <1>3. \A j \in Chain : jobs[j] = IF j = 1 THEN [NoRetryJob EXCEPT !.status = "queued"] ELSE NoRetryJob
    OBVIOUS
  <1>4. [NoRetryJob EXCEPT !.status = "queued"] \in Rows
    BY FirstRow DEF Rows
  <1>5. jobs \in [Chain -> Rows]
    BY <1>4, FirstRow
  <1>6. \A j \in Chain :
          /\ jobs[j].status # "none" => j = 1
          /\ jobs[j].from = 0 /\ jobs[j].attempt = 1 /\ jobs[j].slot = 0 /\ jobs[j].pauses = 0
          /\ jobs[j].infra = 0 /\ jobs[j].hops = 0 /\ jobs[j].spent = 0
    BY <1>3 DEF NoRetryJob
  <1>7. \A j \in Chain : Counted(j) /\ Linked(j)
    BY <1>1, <1>6 DEF Counted, Linked, Budget
  <1> QED BY <1>1, <1>2, <1>5, <1>7 DEF RetryInv, RetryTyped, StillDue

(* A row that keeps its counts, its key and its failure.                    *)
KeepsRow(j) ==
    /\ jobs'[j].attempt = jobs[j].attempt /\ jobs'[j].slot = jobs[j].slot
    /\ jobs'[j].pauses = jobs[j].pauses /\ jobs'[j].infra = jobs[j].infra
    /\ jobs'[j].hops = jobs[j].hops /\ jobs'[j].spent = jobs[j].spent
    /\ jobs'[j].seq = jobs[j].seq /\ jobs'[j].from = jobs[j].from
    /\ jobs'[j].status = "none" <=> jobs[j].status = "none"
    /\ jobs[j].status \in {"failed", "interrupted", "cancelled"} =>
         jobs'[j].status = jobs[j].status /\ jobs'[j].err = jobs[j].err

LEMMA RowsKept ==
    ASSUME RetryInv, \A j \in Chain : KeepsRow(j), budget' = budget, RetryTyped',
           \A d \in Deciders : decision'[d].at \in {"requeue", "enqueue"} =>
               \/ decision[d].at \in {"requeue", "enqueue"} /\ decision'[d].job = decision[d].job
               \/ /\ jobs[decision'[d].job].status \in {"failed", "interrupted", "cancelled"}
                  /\ d # Operator => Affords(decision'[d].job)
    PROVE  RetryInv'
  <1>1. ASSUME NEW j \in Chain PROVE Counted(j)' /\ Linked(j)'
    BY DEF RetryInv, Counted, Linked, KeepsRow
  <1>2. ASSUME NEW j \in Chain, jobs[j].status \in {"failed", "interrupted", "cancelled"}
        PROVE  Affords(j) => Affords(j)'
    <2>1. KeepsRow(j)
      OBVIOUS
    <2>2. WaitOf(j)' = WaitOf(j)
      BY <1>2, <2>1 DEF KeepsRow, WaitOf
    <2> QED BY <1>2, <2>1, <2>2 DEF Affords, Eligible, KeepsRow
  <1>3. ASSUME NEW d \in Deciders PROVE StillDue(d)'
    <2> SUFFICES ASSUME decision'[d].at \in {"requeue", "enqueue"} PROVE StillDue(d)'
      BY DEF StillDue
    <2>1. PICK j \in Chain : j = decision'[d].job
      BY DEF RetryTyped, Decisions
    <2>2. jobs[j].status \in {"failed", "interrupted", "cancelled"} /\ (d # Operator => Affords(j))
      <3>1. CASE decision[d].at \in {"requeue", "enqueue"} /\ decision'[d].job = decision[d].job
        <4>1. decision[d].job = j /\ StillDue(d)
          BY <2>1, <3>1 DEF RetryInv
        <4> QED BY <3>1, <4>1 DEF StillDue
      <3>2. CASE /\ jobs[decision'[d].job].status \in {"failed", "interrupted", "cancelled"}
                 /\ d # Operator => Affords(decision'[d].job)
        BY <2>1, <3>2
      <3> QED BY <3>1, <3>2
    <2>3. jobs'[j].status = jobs[j].status
      BY <2>2 DEF KeepsRow
    <2>4. d # Operator => Affords(j)'
      BY <1>2, <2>2
    <2>5. Affords(j)' => Affords(decision[d].job)'
      BY <2>1 DEF Affords, Eligible, WaitOf
    <2> QED BY <2>1, <2>2, <2>3, <2>4, <2>5 DEF StillDue
  <1> QED BY <1>1, <1>3 DEF RetryInv

LEMMA DecisionGoes ==
    ASSUME RetryInv, NEW d \in Deciders, NEW at \in {"idle", "enqueue", "mark", "settle"}, Goes(d, at)
    PROVE  /\ decision' \in [Deciders -> Decisions] /\ decision'[d].at = at
           /\ at # "idle" => decision'[d].job = decision[d].job
           /\ \A e \in Deciders \ {d} : decision'[e] = decision[e]
  <1>1. decision \in [Deciders -> Decisions] /\ decision[d] \in Decisions
    BY DEF RetryInv, RetryTyped
  <1>2. decision' = [decision EXCEPT ![d] = IF at = "idle" THEN Undecided ELSE [decision[d] EXCEPT !.at = at]]
    BY DEF Goes
  <1>3. decision'[d] = IF at = "idle" THEN Undecided ELSE [decision[d] EXCEPT !.at = at]
    BY <1>1, <1>2
  <1>4. decision'[d] \in Decisions /\ decision'[d].at = at /\ (at # "idle" => decision'[d].job = decision[d].job)
    <2>1. CASE at = "idle"
      BY <1>3, <2>1, FirstRow DEF Undecided
    <2>2. CASE at # "idle"
      BY <1>1, <1>3, <2>2 DEF Decisions
    <2> QED BY <2>1, <2>2
  <1>5. decision' \in [Deciders -> Decisions] /\ \A e \in Deciders \ {d} : decision'[e] = decision[e]
    BY <1>1, <1>2, <1>4
  <1> QED BY <1>4, <1>5

(* A decision goes on while every row keeps its place in the chain.         *)
LEMMA GoingOn ==
    ASSUME RetryInv, NEW d \in Deciders, NEW at \in {"idle", "enqueue", "mark", "settle"}, Goes(d, at),
           at = "enqueue" => decision[d].at = "requeue",
           jobs' \in [Chain -> Rows], \A j \in Chain : KeepsRow(j), budget' = budget,
           drops' \in 0..MaxDrops
    PROVE  RetryInv'
  <1>1. RetryTyped'
    BY DecisionGoes DEF RetryInv, RetryTyped
  <1> QED BY <1>1, DecisionGoes, RowsKept

LEMMA RowChange ==
    ASSUME RetryInv, NEW j \in Chain, NEW put \in Rows, jobs' = [jobs EXCEPT ![j] = put]
    PROVE  /\ jobs' \in [Chain -> Rows] /\ jobs'[j] = put /\ \A k \in Chain \ {j} : jobs'[k] = jobs[k]
           /\ jobs \in [Chain -> Rows] /\ \A k \in Chain \ {j} : KeepsRow(k)
  <1>1. jobs \in [Chain -> Rows]
    BY DEF RetryInv, RetryTyped
  <1> QED BY <1>1 DEF KeepsRow

LEMMA EndingSteps ==
    ASSUME RetryInv, NEW j \in Chain, JobEnds(j) \/ OrphanDies(j) \/ RequeueByHand(j)
    PROVE  RetryInv'
  <1>1. jobs[j] \in Rows /\ jobs \in [Chain -> Rows] /\ UNCHANGED <<budget, drops>>
    BY DEF RetryInv, RetryTyped, JobEnds, OrphanDies, RequeueByHand
  <1>2. CASE JobEnds(j)
    <2>1. PICK how \in {"completed", "cancelled", "failed", "interrupted"}, error \in Errors,
               alive \in BOOLEAN : Ends(j, how, error, alive)
      BY <1>2 DEF JobEnds, Errors
    <2> DEFINE put == [jobs[j] EXCEPT !.status = how, !.err = error, !.orphan = alive]
    <2>2. put \in Rows /\ jobs' = [jobs EXCEPT ![j] = put]
      BY <1>1, <2>1 DEF Ends, Rows
    <2>3. jobs[j].status = "queued" /\ UNCHANGED decision
      BY <1>2 DEF JobEnds
    <2>4. KeepsRow(j)
      <3>1. jobs'[j] = put
        BY <2>2, RowChange
      <3> QED BY <1>1, <2>3, <3>1 DEF KeepsRow, Rows
    <2>5. jobs' \in [Chain -> Rows] /\ \A k \in Chain : KeepsRow(k)
      BY <2>2, <2>4, RowChange
    <2>6. RetryTyped'
      BY <1>1, <2>3, <2>5 DEF RetryInv, RetryTyped
    <2> QED BY <1>1, <2>3, <2>5, <2>6, RowsKept
  <1>3. CASE OrphanDies(j)
    <2> DEFINE put == [jobs[j] EXCEPT !.orphan = FALSE]
    <2>1. put \in Rows /\ jobs' = [jobs EXCEPT ![j] = put] /\ UNCHANGED decision
      BY <1>1, <1>3 DEF OrphanDies, Rows
    <2>2. KeepsRow(j)
      <3>1. jobs'[j] = put
        BY <2>1, RowChange
      <3> QED BY <1>1, <3>1 DEF KeepsRow, Rows
    <2>3. jobs' \in [Chain -> Rows] /\ \A k \in Chain : KeepsRow(k)
      BY <2>1, <2>2, RowChange
    <2>4. RetryTyped'
      BY <1>1, <2>1, <2>3 DEF RetryInv, RetryTyped
    <2> QED BY <1>1, <2>1, <2>3, <2>4, RowsKept
  <1>4. CASE RequeueByHand(j)
    <2>1. PICK m \in PolicyModels :
            decision' = [decision EXCEPT ![Operator] = [at |-> "requeue", job |-> j, model |-> m]]
      BY <1>4 DEF RequeueByHand
    <2>2. UNCHANGED jobs /\ jobs[j].status \in {"failed", "interrupted", "cancelled"}
      BY <1>4 DEF RequeueByHand
    <2>3. [at |-> "requeue", job |-> j, model |-> m] \in Decisions
      BY DEF Decisions
    <2>4. decision' \in [Deciders -> Decisions] /\ \A e \in Deciders \ {Operator} : decision'[e] = decision[e]
      BY <2>1, <2>3 DEF RetryInv, RetryTyped
    <2>5. decision'[Operator].job = j
      BY <2>1 DEF RetryInv, RetryTyped, Deciders
    <2>6. RetryTyped'
      BY <1>1, <2>2, <2>4 DEF RetryInv, RetryTyped
    <2>7. \A k \in Chain : KeepsRow(k)
      BY <2>2 DEF KeepsRow
    <2> QED BY <1>1, <2>2, <2>4, <2>5, <2>6, <2>7, RowsKept
  <1> QED BY <1>2, <1>3, <1>4

LEMMA DecideStep ==
    ASSUME RetryInv, NEW d \in Deciders, NEW j \in Chain, Decide(d, j)
    PROVE  RetryInv'
  <1>1. UNCHANGED <<budget, jobs, drops>> /\ d \in Bridges
    BY DEF Decide
  <1> DEFINE hopeless == \/ (jobs[j].status = "interrupted" /\ ~resume) \/ ~Eligible(j)
                         \/ (WaitOf(j) = "none" /\ jobs[j].attempt >= budget.attempts)
  <1>2. PICK new \in Decisions : /\ decision' = [decision EXCEPT ![d] = new] /\ new.job = j
                                 /\ new.at \in {"settle", "requeue"}
                                 /\ new.at = "requeue" => Retriable(j) /\ Affords(j)
    <2>1. CASE ~hopeless
      <3>1. PICK m \in PolicyModels :
              decision' = [decision EXCEPT ![d] = [at |-> "requeue", job |-> j, model |-> m]]
        BY <2>1 DEF Decide, NextModels
      <3>2. Retriable(j) /\ Affords(j)
        <4>1. jobs[j].attempt \in Nat /\ budget.attempts \in Nat
          BY DEF RetryInv, RetryTyped, Rows, Budget
        <4> QED BY <2>1, <4>1 DEF Decide, Due, Affords
      <3>3. [at |-> "requeue", job |-> j, model |-> m] \in Decisions
        BY DEF Decisions
      <3> QED BY <3>1, <3>2, <3>3
    <2>2. CASE hopeless
      <3>1. decision' = [decision EXCEPT ![d] = [Undecided EXCEPT !.at = "settle", !.job = j]]
        BY <2>2 DEF Decide
      <3>2. /\ [Undecided EXCEPT !.at = "settle", !.job = j] \in Decisions
            /\ [Undecided EXCEPT !.at = "settle", !.job = j].job = j
            /\ [Undecided EXCEPT !.at = "settle", !.job = j].at = "settle"
        BY FirstRow DEF Decisions
      <3> QED BY <3>1, <3>2
    <2> QED BY <2>1, <2>2
  <1>4. /\ decision' \in [Deciders -> Decisions] /\ \A e \in Deciders \ {d} : decision'[e] = decision[e]
        /\ decision'[d] = new
    BY <1>2 DEF RetryInv, RetryTyped
  <1>5. RetryTyped'
    BY <1>1, <1>4 DEF RetryInv, RetryTyped
  <1>6. \A k \in Chain : KeepsRow(k)
    BY <1>1 DEF KeepsRow
  <1>7. \A e \in Deciders : decision'[e].at \in {"requeue", "enqueue"} =>
           \/ decision[e].at \in {"requeue", "enqueue"} /\ decision'[e].job = decision[e].job
           \/ /\ jobs[decision'[e].job].status \in {"failed", "interrupted", "cancelled"}
              /\ e # Operator => Affords(decision'[e].job)
    <2> SUFFICES ASSUME decision'[d].at \in {"requeue", "enqueue"}
                 PROVE  /\ jobs[decision'[d].job].status \in {"failed", "interrupted", "cancelled"}
                        /\ Affords(decision'[d].job)
      BY <1>4
    <2>1. new.at = "requeue" /\ new.job = j
      BY <1>2, <1>4
    <2> QED BY <1>2, <1>4, <2>1 DEF Retriable
  <1> QED BY <1>1, <1>5, <1>6, <1>7, RowsKept

(* A note on an ended row: its successor, its outcome, a deferral.          *)
Noted(j) ==
    \/ jobs' = jobs
    \/ jobs' = [jobs EXCEPT ![j].deferred = TRUE]
    \/ \E k \in Chain : jobs' = [jobs EXCEPT ![j] = [@ EXCEPT !.as = k, !.outcome = "requeued", !.deferred = FALSE]]
    \/ jobs' = [jobs EXCEPT ![j] = [@ EXCEPT !.outcome = "ended", !.deferred = FALSE]]

LEMMA NotesKeep ==
    ASSUME RetryInv, NEW j \in Chain, Noted(j)
    PROVE  jobs' \in [Chain -> Rows] /\ \A k \in Chain : KeepsRow(k)
  <1>1. jobs \in [Chain -> Rows] /\ jobs[j] \in Rows
    BY DEF RetryInv, RetryTyped
  <1>2. CASE jobs' = jobs
    BY <1>1, <1>2 DEF KeepsRow
  <1>3. ASSUME NEW put \in Rows, jobs' = [jobs EXCEPT ![j] = put],
               \E k \in 0..MaxJobs, o \in {"none", "requeued", "ended"}, b \in BOOLEAN :
                 put = [jobs[j] EXCEPT !.as = k, !.outcome = o, !.deferred = b]
        PROVE  jobs' \in [Chain -> Rows] /\ \A k \in Chain : KeepsRow(k)
    <2>1. jobs'[j] = put
      BY <1>3, RowChange
    <2>2. KeepsRow(j)
      BY <1>1, <1>3, <2>1 DEF KeepsRow, Rows
    <2> QED BY <1>3, <2>2, RowChange
  <1>4. ASSUME NEW k \in 0..MaxJobs, NEW o \in {"none", "requeued", "ended"}, NEW b \in BOOLEAN
        PROVE  [jobs[j] EXCEPT !.as = k, !.outcome = o, !.deferred = b] \in Rows
    BY <1>1 DEF Rows
  <1>5. CASE jobs' = [jobs EXCEPT ![j].deferred = TRUE]
    <2> DEFINE put == [jobs[j] EXCEPT !.as = jobs[j].as, !.outcome = jobs[j].outcome, !.deferred = TRUE]
    <2>1. put = [jobs[j] EXCEPT !.deferred = TRUE] /\ jobs[j].as \in 0..MaxJobs
              /\ jobs[j].outcome \in {"none", "requeued", "ended"}
      BY <1>1 DEF Rows
    <2>2. put \in Rows /\ jobs' = [jobs EXCEPT ![j] = put]
      BY <1>4, <1>5, <2>1
    <2> QED BY <1>3, <2>1, <2>2
  <1>6. CASE \E k \in Chain : jobs' = [jobs EXCEPT ![j] = [@ EXCEPT !.as = k, !.outcome = "requeued", !.deferred = FALSE]]
    <2>1. PICK k \in Chain :
            jobs' = [jobs EXCEPT ![j] = [jobs[j] EXCEPT !.as = k, !.outcome = "requeued", !.deferred = FALSE]]
      BY <1>6
    <2>2. k \in 0..MaxJobs
      BY RetryAssumption DEF Chain
    <2> QED BY <1>3, <1>4, <2>1, <2>2
  <1>7. CASE jobs' = [jobs EXCEPT ![j] = [@ EXCEPT !.outcome = "ended", !.deferred = FALSE]]
    <2> DEFINE put == [jobs[j] EXCEPT !.as = jobs[j].as, !.outcome = "ended", !.deferred = FALSE]
    <2>1. put = [jobs[j] EXCEPT !.outcome = "ended", !.deferred = FALSE] /\ jobs[j].as \in 0..MaxJobs
      BY <1>1 DEF Rows
    <2>2. put \in Rows /\ jobs' = [jobs EXCEPT ![j] = put]
      BY <1>4, <1>7, <2>1
    <2> QED BY <1>3, <2>1, <2>2
  <1> QED BY <1>2, <1>5, <1>6, <1>7 DEF Noted

LEMMA NotingSteps ==
    ASSUME RetryInv, NEW d \in Deciders,
           \/ Requeue(d) \/ Mark(d) \/ Settle(d) \/ DropDecision(d)
           \/ Enqueue(d) /\ jobs' = jobs
    PROVE  RetryInv'
  <1>1. PICK j \in Chain : j = decision[d].job
    BY DEF RetryInv, RetryTyped, Decisions
  <1>2. UNCHANGED budget /\ drops' \in 0..MaxDrops
    <2>1. drops \in 0..MaxDrops /\ MaxDrops \in Nat
      BY RetryAssumption DEF RetryInv, RetryTyped
    <2>2. UNCHANGED budget /\ (drops' = drops \/ (drops' = drops + 1 /\ drops < MaxDrops))
      BY DEF Requeue, Mark, Settle, DropDecision, Enqueue
    <2> QED BY <2>1, <2>2
  <1>3. Noted(j)
    <2>1. CASE Mark(d)
      BY <1>1, <2>1 DEF Mark, Noted, WithKey
    <2> QED BY <1>1, <2>1 DEF Requeue, Settle, DropDecision, Noted
  <1>4. \E at \in {"idle", "enqueue", "mark", "settle"} :
           Goes(d, at) /\ (at = "enqueue" => decision[d].at = "requeue")
    BY DEF Requeue, Mark, Settle, DropDecision, Enqueue
  <1> QED BY <1>2, <1>3, <1>4, NotesKeep, GoingOn

(* The wait that a failure counts as has room for one more.                 *)
LEMMA OneMore ==
    ASSUME RetryInv, NEW j \in Chain, Affords(j)
    PROVE  /\ NextCounts(j).attempt \in 1..budget.attempts /\ NextCounts(j).slot \in 0..budget.slot
           /\ NextCounts(j).pauses \in 0..budget.pauses /\ NextCounts(j).infra \in 0..budget.infra
           /\ jobs[j].hops + 1 = (NextCounts(j).attempt - 1) + NextCounts(j).slot
                                   + NextCounts(j).pauses + NextCounts(j).infra
           /\ jobs[j].spent + (IF jobs[j].err = "real" THEN 1 ELSE 0) < NextCounts(j).attempt
  <1>1. jobs[j] \in Rows /\ Counted(j) /\ budget \in Budget
    BY DEF RetryInv, RetryTyped
  <1>2. /\ WaitOf(j) \in {"none", "slot", "pauses", "infra"}
        /\ WaitOf(j) = "slot" => jobs[j].slot < budget.slot
        /\ WaitOf(j) = "pauses" => jobs[j].pauses < budget.pauses
        /\ WaitOf(j) = "infra" => jobs[j].infra < budget.infra
        /\ jobs[j].err = "real" => WaitOf(j) = "none"
    BY DEF WaitOf
  <1>3. WaitOf(j) = "none" => jobs[j].attempt < budget.attempts
    BY DEF Affords
  <1> QED BY <1>1, <1>2, <1>3 DEF NextCounts, Counted, Rows, Budget

(* The row that a requeue inserts.                                          *)
NewRow(model, attempt, slot, pauses, infra, seq, from, hops, spent) ==
    [status |-> "queued", model |-> model, err |-> "none", attempt |-> attempt, slot |-> slot,
     pauses |-> pauses, infra |-> infra, seq |-> seq, from |-> from, as |-> 0,
     outcome |-> "none", deferred |-> FALSE, orphan |-> FALSE, hops |-> hops, spent |-> spent]

LEMMA NewRowIsRow ==
    \A model \in PolicyModels, attempt, slot, pauses, infra, seq, hops, spent \in Nat, from \in 0..MaxJobs :
      NewRow(model, attempt, slot, pauses, infra, seq, from, hops, spent) \in Rows
  <1>1. 0 \in 0..MaxJobs
    BY RetryAssumption
  <1> QED BY <1>1 DEF NewRow, Rows, Errors

LEMMA InsertStep ==
    ASSUME RetryInv, NEW d \in Deciders, Enqueue(d), jobs' # jobs
    PROVE  RetryInv'
  <1>1. PICK j \in Chain : j = decision[d].job
    BY DEF RetryInv, RetryTyped, Decisions
  <1>2. /\ decision[d].at = "enqueue" /\ WithKey(jobs[j].seq + 1) = {} /\ InsertJob(d, j) /\ Goes(d, "mark")
        /\ UNCHANGED <<budget, drops>>
    BY <1>1 DEF Enqueue
  <1>3. jobs \in [Chain -> Rows] /\ jobs[j] \in Rows /\ decision[d].model \in PolicyModels /\ budget \in Budget
    BY DEF RetryInv, RetryTyped, Decisions
  <1>4. jobs[j].status \in {"failed", "interrupted", "cancelled"} /\ (d # Operator => Affords(j))
    BY <1>1, <1>2 DEF RetryInv, StillDue
  <1>5. PICK k \in FreeRows, put \in Rows :
          /\ jobs' = [jobs EXCEPT ![k] = put]
          /\ put.status = "queued" /\ put.seq = jobs[j].seq + 1 /\ put.from = j
          /\ put.attempt \in 1..budget.attempts /\ put.slot <= budget.slot
          /\ put.pauses <= budget.pauses /\ put.infra <= budget.infra /\ put.spent < put.attempt
          /\ put.hops = (put.attempt - 1) + put.slot + put.pauses + put.infra
    <2>0. jobs[j].seq + 1 \in Nat /\ j \in 0..MaxJobs
      BY <1>3 DEF Rows, Chain
    <2>1. CASE d = Operator
      <3>1. /\ FirstCounts.attempt = 1 /\ FirstCounts.slot = 0 /\ FirstCounts.pauses = 0
            /\ FirstCounts.infra = 0
        BY DEF FirstCounts
      <3>2. PICK k \in FreeRows : jobs' = [jobs EXCEPT ![k] =
                NewRow(decision[d].model, 1, 0, 0, 0, jobs[j].seq + 1, j, 0, 0)]
        BY <1>2, <2>1, <3>1 DEF InsertJob, NewRow
      <3>r. PICK put : put = NewRow(decision[d].model, 1, 0, 0, 0, jobs[j].seq + 1, j, 0, 0)
        OBVIOUS
      <3>m. put \in Rows
        BY <1>3, <2>0, <3>r, NewRowIsRow
      <3>3. /\ put.status = "queued" /\ put.seq = jobs[j].seq + 1 /\ put.from = j
            /\ put.attempt = 1 /\ put.slot = 0 /\ put.pauses = 0 /\ put.infra = 0
            /\ put.hops = 0 /\ put.spent = 0
        BY <3>r DEF NewRow
      <3>5. put.attempt \in 1..budget.attempts
        BY <1>3, <3>3 DEF Budget
      <3>6. put.slot <= budget.slot /\ put.pauses <= budget.pauses /\ put.infra <= budget.infra
        BY <1>3, <3>3 DEF Budget
      <3>7. jobs' = [jobs EXCEPT ![k] = put]
        BY <3>2, <3>r
      <3>8. put.spent < put.attempt /\ put.hops = (put.attempt - 1) + put.slot + put.pauses + put.infra
        BY <3>3
      <3>9. put.status = "queued" /\ put.seq = jobs[j].seq + 1 /\ put.from = j
        BY <3>3
      <3> QED BY <3>m, <3>5, <3>6, <3>7, <3>8, <3>9
    <2>2. CASE d # Operator
      <3> DEFINE counts == NextCounts(j)
                 sum == jobs[j].spent + (IF jobs[j].err = "real" THEN 1 ELSE 0)
      <3>1. /\ counts.attempt \in 1..budget.attempts /\ counts.slot \in 0..budget.slot
            /\ counts.pauses \in 0..budget.pauses /\ counts.infra \in 0..budget.infra
            /\ jobs[j].hops + 1 = (counts.attempt - 1) + counts.slot + counts.pauses + counts.infra
            /\ sum < counts.attempt
        BY <1>4, <2>2, OneMore
      <3>2. jobs[j].hops + 1 \in Nat /\ sum \in Nat
        BY <1>3 DEF Rows
      <3>3. PICK k \in FreeRows : jobs' = [jobs EXCEPT ![k] =
              NewRow(decision[d].model, counts.attempt, counts.slot, counts.pauses, counts.infra,
                     jobs[j].seq + 1, j, jobs[j].hops + 1, sum)]
        BY <1>2, <2>2 DEF InsertJob, NewRow
      <3>r. PICK put : put = NewRow(decision[d].model, counts.attempt, counts.slot, counts.pauses,
                                    counts.infra, jobs[j].seq + 1, j, jobs[j].hops + 1, sum)
        OBVIOUS
      <3> HIDE DEF counts, sum
      <3>4. counts.attempt \in Nat /\ counts.slot \in Nat /\ counts.pauses \in Nat /\ counts.infra \in Nat
        BY <1>3, <3>1 DEF Budget
      <3>m. put \in Rows
        BY <1>3, <2>0, <3>2, <3>4, <3>r, NewRowIsRow
      <3>5. /\ put.status = "queued" /\ put.seq = jobs[j].seq + 1 /\ put.from = j
            /\ put.attempt = counts.attempt /\ put.slot = counts.slot /\ put.pauses = counts.pauses
            /\ put.infra = counts.infra /\ put.hops = jobs[j].hops + 1 /\ put.spent = sum
        BY <3>r DEF NewRow
      <3>6. /\ put.attempt \in 1..budget.attempts /\ put.slot <= budget.slot
            /\ put.pauses <= budget.pauses /\ put.infra <= budget.infra
        BY <1>3, <3>1, <3>5 DEF Budget
      <3> QED BY <3>1, <3>3, <3>r, <3>m, <3>5, <3>6
    <2> QED BY <2>1, <2>2
  <1>7. k \in Chain /\ jobs[k].status = "none"
    BY DEF FreeRows
  <1>8. /\ jobs' \in [Chain -> Rows] /\ jobs'[k] = put
        /\ \A i \in Chain \ {k} : jobs'[i] = jobs[i] /\ KeepsRow(i)
    BY <1>5, <1>7, RowChange
  <1>9. RetryTyped'
    BY <1>2, <1>8, DecisionGoes DEF RetryInv, RetryTyped
  <1>10. \A i \in Chain : jobs[i].status # "none" => jobs[i].seq # jobs[j].seq + 1
    BY <1>2 DEF WithKey
  <1>11. j # k /\ j # 0
    BY <1>4, <1>7, RetryAssumption DEF Chain
  <1>12. ASSUME NEW i \in Chain PROVE Counted(i)' /\ Linked(i)'
    <2>1. Counted(i) /\ Linked(i)
      BY DEF RetryInv
    <2>2. Counted(i)'
      BY <1>2, <1>5, <1>8, <2>1 DEF Counted
    <2>3. Linked(i)'
      <3>1. CASE i = k
        BY <1>4, <1>5, <1>8, <1>10, <1>11, <3>1 DEF Linked
      <3>2. CASE i # k
        BY <1>5, <1>7, <1>8, <1>10, <2>1, <3>2 DEF Linked
      <3> QED BY <3>1, <3>2
    <2> QED BY <2>2, <2>3
  <1>13. ASSUME NEW e \in Deciders PROVE StillDue(e)'
    <2> SUFFICES ASSUME decision'[e].at \in {"requeue", "enqueue"} PROVE StillDue(e)'
      BY DEF StillDue
    <2>1. decision'[e] = decision[e]
      BY <1>2, DecisionGoes
    <2>2. PICK i \in Chain : i = decision[e].job
      BY DEF RetryInv, RetryTyped, Decisions
    <2>3. jobs[i].status \in {"failed", "interrupted", "cancelled"} /\ (e # Operator => Affords(i))
      BY <2>1, <2>2 DEF RetryInv, StillDue
    <2>4. jobs'[i] = jobs[i]
      BY <1>7, <1>8, <2>3
    <2>5. (e # Operator => Affords(i)') /\ (Affords(i)' => Affords(decision[e].job)')
      BY <1>2, <2>1, <2>2, <2>3, <2>4 DEF Affords, Eligible, WaitOf
    <2> QED BY <2>1, <2>2, <2>3, <2>4, <2>5 DEF StillDue
  <1> QED BY <1>9, <1>12, <1>13 DEF RetryInv

LEMMA RetryStepInv == RetryInv /\ [RetryNext]_retryvars => RetryInv'
  <1> SUFFICES ASSUME RetryInv, [RetryNext]_retryvars PROVE RetryInv'
    OBVIOUS
  <1>1. CASE UNCHANGED retryvars
    BY <1>1 DEF retryvars, RetryInv, RetryTyped, Counted, Linked, StillDue, Affords, Eligible, WaitOf
  <1>2. ASSUME NEW d \in Deciders, DecisionStep(d) \/ DropDecision(d) PROVE RetryInv'
    BY <1>2, NotingSteps, InsertStep DEF DecisionStep
  <1> QED BY <1>1, <1>2, EndingSteps, DecideStep DEF RetryNext

(* However decisions race, are repeated or cut off, a job under a policy    *)
(* has one successor, and a chain of automatic requeues is within the       *)
(* limits of the policy (applyQueueRetryPolicy, requeueQueueJob).           *)
THEOREM ChainsAreBounded == RetrySpec => []ChainBounded
  <1>1. RetryInv => ChainBounded
    <2> SUFFICES ASSUME RetryInv PROVE ChainBounded
      OBVIOUS
    <2>1. RetryTypeOK
      <3>1. ASSUME NEW j \in Chain, NEW w \in Waits PROVE jobs[j][w] \in 0..budget[w]
        BY DEF RetryInv, RetryTyped, Counted, Waits, Rows, Budget
      <3>2. ASSUME NEW j \in Chain
            PROVE  /\ jobs[j].status \in {"none", "queued", "completed", "failed", "interrupted", "cancelled"}
                   /\ jobs[j].attempt \in 1..budget.attempts /\ jobs[j].spent < jobs[j].attempt
                   /\ jobs[j].as \in 0..MaxJobs /\ jobs[j].model \in PolicyModels
        BY DEF RetryInv, RetryTyped, Counted, Rows
      <3>3. drops \in 0..MaxDrops /\ \A d \in Deciders :
              decision[d].at \in {"idle", "requeue", "enqueue", "mark", "settle"} /\ decision[d].job \in Chain
        BY DEF RetryInv, RetryTyped, Decisions
      <3> QED BY <3>1, <3>2, <3>3 DEF RetryTypeOK
    <2>2. OneSuccessor
      <3> SUFFICES ASSUME NEW j \in Chain, NEW k \in Chain, jobs[j].from = jobs[k].from, jobs[j].from # 0
                   PROVE  j = k
        BY DEF OneSuccessor
      <3>1. jobs[j].seq = jobs[k].seq /\ jobs[j].status # "none" /\ jobs[k].status # "none"
        BY DEF RetryInv, Linked
      <3> QED BY <3>1 DEF RetryInv, Linked
    <2>3. WithinBudget
      BY DEF RetryInv, RetryTyped, Counted, Rows, Budget, WithinBudget
    <2> QED BY <2>1, <2>2, <2>3 DEF ChainBounded
  <1> QED BY <1>1, RetryInitInv, RetryStepInv, PTL DEF RetrySpec

-----------------------------------------------------------------------------
(* Calls on a pipeline.  A call works with a record object of its own        *)
(* process; what keeps the clean-up right is that every version of the row,  *)
(* the stored one and those in memory, asks only for items that are merged   *)
(* and names only sources a user permitted (PlHonest), that versions of one  *)
(* generation have one owner (PlFenced), and that a process runs one         *)
(* finalizer and one recovery of a pipeline at a time (PlAlone).  What keeps *)
(* a write in order is that an object of the row's revision has the row's    *)
(* content (Synced, in PlOrder), unless it was brought there unread.         *)
Versions == [merged : SUBSET PlItems, edits : Int]
PlRows == [status : Statuses, rev : Nat, gen : Nat, owner : PlBridges,
           item : [PlItems -> ItemStatuses], by : [PlItems -> Nat],
           asked : SUBSET PlItems, auth : SUBSET PlItems, authAt : Versions, outcome : [PlItems -> Outcomes]]
PlPositions == {"idle", "claim", "opened", "write", "activate", "check", "lock", "prepare", "apply", "unwind",
                "policy", "capture", "validate", "gates", "recheck", "sources", "remove", "resume", "done"}
PlPatches == {"", "refresh", "reconcile", "reserve", "result", "abandon", "finalizing", "defer", "set",
              "authorize", "finish", "retain", "note"}
PlVerdicts == {"failed", "awaiting_integration", "awaiting_finalization"}
PlValues == {"", "cleanup", "retry", "blocked", "refused", "applied", "applied_and_asked"} \cup PlVerdicts
PlTurns == [pc : PlPositions, obj : Int, patch : PlPatches, value : PlValues, locked : BOOLEAN,
            ver : Versions, saw : Versions, out : [PlItems -> Outcomes]]
PlJournal == {"none", "prepared", "committed", "undone", "quarantined"}
PlObjects == 0..Len(plan)

PlTyped ==
    /\ plan \in Seq(PlCalls)
    /\ row \in PlRows /\ heap \in [PlObjects -> PlRows]
    /\ leased \in BOOLEAN /\ instance \subseteq PlBridges /\ running \subseteq PlBridges
    /\ runs \in [PlBridges -> {NoObject} \cup PlObjects]
    /\ call \in [Ids -> PlTurns] /\ journal \in [Ids -> PlJournal]
    /\ merged \subseteq PlItems /\ edits \in Nat
    /\ source \in [PlItems -> {"kept", "edited", "removed"}]

Under(c) == call[c].pc \notin {"idle", "done"}
Late(c) == call[c].pc \notin {"idle", "claim", "opened", "done"}
Judging(c) == \/ call[c].pc \in {"policy", "capture", "validate", "gates", "recheck", "sources"}
              \/ call[c].pc = "write" /\ call[c].patch \in {"finalizing", "authorize"}

PlCallSound(c) ==
    /\ Under(c) => call[c].obj \in PlObjects
    /\ call[c].pc = "write" /\ call[c].patch = "set" => call[c].value \in PlVerdicts
    /\ Judging(c) => Kind(c) = "finalize"
    /\ call[c].pc = "remove" => Kind(c) \in {"finalize", "recover"}
    /\ call[c].value = "applied_and_asked" => plan[c].item \in merged
    /\ \A i \in PlItems : call[c].out[i] = "authorized" =>
         i \in merged /\ (call[c].pc = "remove" => i \in permitted)

PlFenced ==
    /\ \A o \in PlObjects : heap[o].gen <= row.gen /\ (heap[o].gen = row.gen => heap[o].owner = row.owner)
    /\ \A o, p \in PlObjects : heap[o].gen = heap[p].gen => heap[o].owner = heap[p].owner

PlAlone ==
    /\ \A c, d \in Ids : Kind(c) = "finalize" /\ Kind(d) = "finalize" /\ At(c) = At(d) /\ Late(c) /\ Late(d) => c = d
    /\ \A c, d \in Ids : Kind(c) = "recover" /\ Kind(d) = "recover" /\ At(c) = At(d) /\ Under(c) /\ Under(d) => c = d

AskedAndNamed(r) == r.asked \subseteq merged /\ r.auth \subseteq permitted
PlHonest == AskedAndNamed(row) /\ \A o \in PlObjects : AskedAndNamed(heap[o])

PlInv == PlTyped /\ (\A c \in Ids : PlCallSound(c)) /\ PlFenced /\ PlAlone /\ PlHonest /\ RemovedIsPermitted

USE DEF NoObject

LEMMA PlIdle == IdleCall \in PlTurns /\ NoVersion \in Versions
<1>1. NoVersion \in Versions
  BY DEF NoVersion, Versions
<1>2. QED
  BY <1>1 DEF IdleCall, PlTurns, PlPositions, PlPatches, PlValues, PlVerdicts, Outcomes

LEMMA PlInitInv == PipelinesInit /\ PlAssumption => PlInv
<1> SUFFICES ASSUME PipelinesInit, PlAssumption PROVE PlInv
  OBVIOUS
<1>1. plan \in Seq(PlCalls) /\ plan # <<>> /\ 1 \in Ids /\ \A c \in Ids : plan[c] \in PlCalls
  BY DEF PipelinesInit, PlAssumption, Ids
<1>2. plan[1].at \in PlBridges
  BY <1>1 DEF PlCalls
<1>3. row \in PlRows /\ row.asked = {} /\ row.auth = {}
  BY <1>2, PlIdle DEF PipelinesInit, PlRows, Statuses, FrozenStatuses, Closed, ItemStatuses, Outcomes
<1>4. PlTyped
  <2>1. Len(plan) \in Nat
    BY <1>1
  <2>2. heap \in [PlObjects -> PlRows] /\ runs \in [PlBridges -> {NoObject} \cup PlObjects]
    BY <1>3, <2>1 DEF PipelinesInit, PlObjects
  <2>3. call \in [Ids -> PlTurns] /\ journal \in [Ids -> PlJournal]
    BY PlIdle DEF PipelinesInit, PlJournal
  <2>4. QED
    BY <1>1, <1>3, <2>2, <2>3 DEF PipelinesInit, PlTyped
<1>5. \A c \in Ids : /\ call[c].pc = "idle" /\ call[c].patch = "" /\ call[c].value = ""
                     /\ \A i \in PlItems : call[c].out[i] = "none"
  BY DEF PipelinesInit, IdleCall
<1>6. \A c \in Ids : PlCallSound(c)
  BY <1>5 DEF PlCallSound, Under, Judging
<1>7. PlFenced
  BY <1>3 DEF PipelinesInit, PlFenced, PlObjects, PlRows
<1>8. PlAlone
  BY <1>5 DEF PlAlone, Under, Late
<1>9. PlHonest
  BY <1>3 DEF PipelinesInit, PlHonest, AskedAndNamed, PlObjects
<1>10. RemovedIsPermitted
  BY DEF PipelinesInit, RemovedIsPermitted
<1>11. QED
  BY <1>4, <1>6, <1>7, <1>8, <1>9, <1>10 DEF PlInv

(* What a step of one call does to the calls.                               *)
PlTurnTaken(c) ==
    /\ plan' = plan /\ call' = [call EXCEPT ![c] = call'[c]] /\ call'[c] \in PlTurns /\ PlCallSound(c)'
    /\ merged \subseteq merged' /\ permitted \subseteq permitted'
    /\ Under(c)' /\ ~Under(c) /\ Kind(c) = "recover" => ~RecoveryRuns(At(c))
    /\ Late(c)' /\ ~Late(c) /\ Kind(c) = "finalize" => ~Finalizing(At(c))

LEMMA PlCallsStay ==
    ASSUME PlInv, NEW c \in Ids, PlTurnTaken(c)
    PROVE  call' \in [Ids -> PlTurns] /\ Ids' = Ids /\ (\A d \in Ids : PlCallSound(d))' /\ PlAlone'
<1>1. Ids' = Ids /\ PlObjects' = PlObjects /\ (\A d \in Ids : Kind(d)' = Kind(d) /\ At(d)' = At(d))
  BY DEF PlTurnTaken, Ids, Kind, At, PlObjects
<1>2. call \in [Ids -> PlTurns] /\ call' \in [Ids -> PlTurns]
  BY DEF PlInv, PlTyped, PlTurnTaken
<1>3. \A d \in Ids \ {c} : call'[d] = call[d]
  BY <1>2 DEF PlTurnTaken
<1>4. ASSUME NEW d \in Ids, d # c PROVE PlCallSound(d)'
  <2>1. call'[d] = call[d] /\ PlCallSound(d) /\ plan' = plan
        /\ merged \subseteq merged' /\ permitted \subseteq permitted'
    BY <1>3, <1>4 DEF PlInv, PlTurnTaken
  <2>2. QED
    BY <2>1, <1>1 DEF PlCallSound, Under, Judging
<1>5. \A d \in Ids \ {c} : Under(d)' = Under(d) /\ Late(d)' = Late(d)
  BY <1>3 DEF Under, Late
<1>6. \A d \in Ids \ {c} : Kind(d) = "recover" /\ At(d) = At(c) /\ Under(d) => RecoveryRuns(At(c))
  BY DEF RecoveryRuns, Under
<1>7. \A d \in Ids \ {c} : Kind(d) = "finalize" /\ At(d) = At(c) /\ Late(d) => Finalizing(At(c))
  <2>1. \A d \in Ids : call[d].pc # "read"
    BY <1>2 DEF PlTurns, PlPositions
  <2>2. QED
    BY <2>1 DEF Finalizing, Late
<1>8. PlAlone'
  BY <1>1, <1>5, <1>6, <1>7 DEF PlInv, PlAlone, PlTurnTaken
<1>9. QED
  BY <1>1, <1>2, <1>4, <1>8 DEF PlTurnTaken

(* What the steps that leave the records alone keep.                        *)
PlRecordsStay == UNCHANGED <<plan, row, heap, runs, leased, instance, running, permitted, edits>>
PlQuietTurn(c) ==
    /\ PlRecordsStay /\ PlTurnTaken(c) /\ merged' \subseteq PlItems /\ journal' \in [Ids -> PlJournal]
    /\ source' \in [PlItems -> {"kept", "edited", "removed"}]
    /\ \A i \in PlItems : source'[i] = "removed" => source[i] = "removed" \/ i \in merged \cap permitted

LEMMA PlRecordsKept ==
    ASSUME PlInv, PlRecordsStay, merged \subseteq merged'
    PROVE  PlFenced' /\ PlHonest'
<1>1. PlFenced'
  BY DEF PlInv, PlFenced, PlRecordsStay, PlObjects
<1>2. PlHonest'
  BY DEF PlInv, PlHonest, AskedAndNamed, PlRecordsStay, PlObjects
<1>3. QED
  BY <1>1, <1>2

LEMMA PlQuietKeeps ==
    ASSUME PlInv, NEW c \in Ids, PlQuietTurn(c)
    PROVE  PlInv'
<1>1. /\ call' \in [Ids -> PlTurns] /\ Ids' = Ids /\ (\A d \in Ids : PlCallSound(d))' /\ PlAlone'
  BY PlCallsStay DEF PlQuietTurn
<1>2. PlFenced' /\ PlHonest'
  BY PlRecordsKept DEF PlQuietTurn, PlTurnTaken
<1>3. PlTyped'
  BY <1>1 DEF PlInv, PlTyped, PlQuietTurn, PlRecordsStay, PlObjects
<1>4. RemovedIsPermitted'
  BY DEF PlInv, RemovedIsPermitted, PlQuietTurn, PlRecordsStay, PlTurnTaken
<1>5. QED
  BY <1>1, <1>2, <1>3, <1>4 DEF PlInv

(* The three ways in which a step moves its call on.                        *)
PlFits(c, n) ==
    /\ n \in PlTurns
    /\ n.pc \in {"idle", "done"} \/ n.obj = call[c].obj
    /\ n.pc = "write" /\ n.patch = "set" => n.value \in PlVerdicts
    /\ \/ n.pc \in {"policy", "capture", "validate", "gates", "recheck", "sources"}
       \/ n.pc = "write" /\ n.patch \in {"finalizing", "authorize"}
       => Kind(c) = "finalize"
    /\ n.pc = "remove" => Kind(c) \in {"finalize", "recover"}
    /\ n.value = "applied_and_asked" => plan[c].item \in merged'
    /\ \A i \in PlItems : n.out[i] = "authorized" => i \in merged /\ (n.pc = "remove" => i \in permitted')
    /\ Kind(c) = "finalize" => Late(c) \/ n.pc \in {"idle", "claim", "opened", "done"} \/ ~Finalizing(At(c))

LEMMA PlFitTurn ==
    ASSUME PlInv, NEW c \in Ids, Under(c), NEW n, PlFits(c, n), call' = [call EXCEPT ![c] = n],
           plan' = plan, merged \subseteq merged', permitted \subseteq permitted'
    PROVE  PlTurnTaken(c)
<1>1. call \in [Ids -> PlTurns] /\ call[c].obj \in PlObjects
  BY DEF PlInv, PlTyped, PlCallSound
<1>2. call'[c] = n /\ call' = [call EXCEPT ![c] = call'[c]]
  BY <1>1
<1>3. Kind(c)' = Kind(c) /\ PlObjects' = PlObjects
  BY DEF Kind, PlObjects
<1>4. PlCallSound(c)'
  BY <1>1, <1>2, <1>3 DEF PlFits, PlCallSound, Under, Judging
<1>5. Late(c)' /\ ~Late(c) /\ Kind(c) = "finalize" => ~Finalizing(At(c))
  BY <1>2 DEF PlFits, Late
<1>6. QED
  BY <1>2, <1>4, <1>5 DEF PlTurnTaken, PlFits

LEMMA PlFitting ==
    ASSUME PlInv, NEW c \in Ids, Under(c), NEW n, PlFits(c, n), call' = [call EXCEPT ![c] = n],
           PlRecordsStay, merged \subseteq merged', merged' \subseteq PlItems, journal' \in [Ids -> PlJournal],
           source' \in [PlItems -> {"kept", "edited", "removed"}],
           \A i \in PlItems : source'[i] = "removed" => source[i] = "removed" \/ i \in merged \cap permitted
    PROVE  PlQuietTurn(c)
<1>1. plan' = plan /\ permitted \subseteq permitted'
  BY DEF PlRecordsStay
<1>2. PlTurnTaken(c)
  BY <1>1, PlFitTurn
<1>3. QED
  BY <1>2 DEF PlQuietTurn

LEMMA PlTurnOf ==
    ASSUME PlInv, NEW c \in Ids
    PROVE  /\ call[c] \in PlTurns
           /\ plan[c] \in PlCalls
           /\ [IdleCall EXCEPT !.pc = "done"] \in PlTurns
           /\ \A pc \in PlPositions : [call[c] EXCEPT !.pc = pc] \in PlTurns
           /\ \A patch \in PlPatches, value \in PlValues :
                [call[c] EXCEPT !.pc = "write", !.patch = patch, !.value = value] \in PlTurns
<1>1. call[c] \in PlTurns /\ plan[c] \in PlCalls
  BY DEF PlInv, PlTyped, Ids
<1>2. QED
  BY <1>1, PlIdle DEF PlTurns, PlPositions

LEMMA PlEnds ==
    ASSUME PlInv, NEW c \in Ids, EndCall(c)
    PROVE  \E n : PlFits(c, n) /\ call' = [call EXCEPT ![c] = n]
<1>1. DEFINE n == [IdleCall EXCEPT !.pc = "done"]
<1>2. n \in PlTurns /\ n.pc = "done" /\ n.value = "" /\ \A i \in PlItems : n.out[i] = "none"
  BY PlTurnOf DEF IdleCall
<1>3. call' = [call EXCEPT ![c] = n]
  BY DEF EndCall
<1> HIDE DEF n
<1>4. PlFits(c, n)
  BY <1>2 DEF PlFits
<1>5. QED
  BY <1>3, <1>4

LEMMA PlGoes ==
    ASSUME PlInv, NEW c \in Ids, NEW pc \in PlPositions, PlGo(c, pc), merged \subseteq merged',
           pc \in {"policy", "capture", "validate", "gates", "recheck", "sources"} => Kind(c) = "finalize",
           pc \notin {"remove", "write"},
           Kind(c) = "finalize" => Late(c) \/ pc \in {"idle", "claim", "opened", "done"} \/ ~Finalizing(At(c))
    PROVE  \E n : PlFits(c, n) /\ call' = [call EXCEPT ![c] = n]
<1>1. DEFINE n == [call[c] EXCEPT !.pc = pc]
<1>2. /\ n \in PlTurns /\ n.pc = pc /\ n.value = call[c].value /\ n.out = call[c].out /\ n.obj = call[c].obj
  BY PlTurnOf DEF PlTurns
<1>3. call' = [call EXCEPT ![c] = n]
  BY DEF PlGo, PlInv, PlTyped
<1> HIDE DEF n
<1>4. PlFits(c, n)
  BY <1>2 DEF PlFits, PlInv, PlCallSound
<1>5. QED
  BY <1>3, <1>4

LEMMA PlWritesNext ==
    ASSUME PlInv, NEW c \in Ids, NEW patch \in PlPatches, NEW value \in PlValues,
           WriteNext(c, patch, value), merged \subseteq merged',
           patch = "set" => value \in PlVerdicts,
           patch \in {"finalizing", "authorize"} => Kind(c) = "finalize",
           value = "applied_and_asked" => plan[c].item \in merged',
           Kind(c) = "finalize" => Late(c) \/ ~Finalizing(At(c))
    PROVE  \E n : PlFits(c, n) /\ call' = [call EXCEPT ![c] = n]
<1>1. DEFINE n == [call[c] EXCEPT !.pc = "write", !.patch = patch, !.value = value]
<1>2. /\ n \in PlTurns /\ n.pc = "write" /\ n.patch = patch /\ n.value = value
      /\ n.out = call[c].out /\ n.obj = call[c].obj
  BY PlTurnOf DEF PlTurns
<1>3. call' = [call EXCEPT ![c] = n]
  BY DEF WriteNext, PlInv, PlTyped
<1> HIDE DEF n
<1>4. PlFits(c, n)
  BY <1>2 DEF PlFits, PlInv, PlCallSound
<1>5. QED
  BY <1>3, <1>4

LEMMA PlQuietly ==
    ASSUME PlInv, NEW c \in Ids, Under(c), \E n : PlFits(c, n) /\ call' = [call EXCEPT ![c] = n],
           UNCHANGED <<durable, outside, heap, runs, journal, merged, source>>
    PROVE  PlQuietTurn(c)
<1>1. PICK n : PlFits(c, n) /\ call' = [call EXCEPT ![c] = n]
  OBVIOUS
<1>2. PlRecordsStay /\ journal' = journal /\ merged' = merged /\ source' = source
  BY DEF PlRecordsStay, durable, outside
<1>3. QED
  BY <1>1, <1>2, PlFitting DEF PlInv, PlTyped

LEMMA PlStartPipelineQuiet ==
    ASSUME PlInv, NEW c \in Ids, StartPipeline(c)
    PROVE  PlQuietTurn(c)
<1>1. Under(c) /\ UNCHANGED <<durable, outside, heap, runs, journal, merged, source>> /\ merged \subseteq merged'
  BY DEF StartPipeline, Under
<1>2. Kind(c) = "finalize" => Late(c) \/ ~Finalizing(At(c))
  BY DEF StartPipeline, Late
<1>3. \E n : PlFits(c, n) /\ call' = [call EXCEPT ![c] = n]
  BY <1>1, <1>2, PlEnds, PlGoes, PlWritesNext
    DEF StartPipeline, PlPositions, PlPatches, PlValues, PlVerdicts, PlInv, PlCallSound, Judging
<1>4. QED
  BY <1>1, <1>3, PlQuietly

LEMMA PlBeginCallQuiet ==
    ASSUME PlInv, NEW c \in Ids, BeginCall(c)
    PROVE  PlQuietTurn(c)
<1>1. Under(c) /\ UNCHANGED <<durable, outside, heap, runs, journal, merged, source>> /\ merged \subseteq merged'
  BY DEF BeginCall, Under
<1>2. Kind(c) = "finalize" => Late(c) \/ ~Finalizing(At(c))
  BY DEF BeginCall, Late
<1>3. \E n : PlFits(c, n) /\ call' = [call EXCEPT ![c] = n]
  BY <1>1, <1>2, PlEnds, PlGoes, PlWritesNext
    DEF BeginCall, PlPositions, PlPatches, PlValues, PlVerdicts, PlInv, PlCallSound, Judging
<1>4. QED
  BY <1>1, <1>3, PlQuietly

LEMMA PlCheckItemQuiet ==
    ASSUME PlInv, NEW c \in Ids, CheckItem(c)
    PROVE  PlQuietTurn(c)
<1>1. Under(c) /\ UNCHANGED <<durable, outside, heap, runs, journal, merged, source>> /\ merged \subseteq merged'
  BY DEF CheckItem, Under
<1>2. Kind(c) = "finalize" => Late(c) \/ ~Finalizing(At(c))
  BY DEF CheckItem, Late
<1>3. \E n : PlFits(c, n) /\ call' = [call EXCEPT ![c] = n]
  BY <1>1, <1>2, PlEnds, PlGoes, PlWritesNext
    DEF CheckItem, PlPositions, PlPatches, PlValues, PlVerdicts, PlInv, PlCallSound, Judging
<1>4. QED
  BY <1>1, <1>3, PlQuietly

LEMMA PlCheckAbandonQuiet ==
    ASSUME PlInv, NEW c \in Ids, CheckAbandon(c)
    PROVE  PlQuietTurn(c)
<1>1. Under(c) /\ UNCHANGED <<durable, outside, heap, runs, journal, merged, source>> /\ merged \subseteq merged'
  BY DEF CheckAbandon, Under
<1>2. Kind(c) = "finalize" => Late(c) \/ ~Finalizing(At(c))
  BY DEF CheckAbandon, Late
<1>3. \E n : PlFits(c, n) /\ call' = [call EXCEPT ![c] = n]
  BY <1>1, <1>2, PlEnds, PlGoes, PlWritesNext
    DEF CheckAbandon, PlPositions, PlPatches, PlValues, PlVerdicts, PlInv, PlCallSound, Judging
<1>4. QED
  BY <1>1, <1>3, PlQuietly

LEMMA PlCheckFinalizationQuiet ==
    ASSUME PlInv, NEW c \in Ids, CheckFinalization(c)
    PROVE  PlQuietTurn(c)
<1>1. Under(c) /\ UNCHANGED <<durable, outside, heap, runs, journal, merged, source>> /\ merged \subseteq merged'
  BY DEF CheckFinalization, Under
<1>2. Kind(c) = "finalize" => Late(c) \/ ~Finalizing(At(c))
  BY DEF CheckFinalization, Late
<1>3. \E n : PlFits(c, n) /\ call' = [call EXCEPT ![c] = n]
  BY <1>1, <1>2, PlEnds, PlGoes, PlWritesNext
    DEF CheckFinalization, PlPositions, PlPatches, PlValues, PlVerdicts, PlInv, PlCallSound, Judging
<1>4. QED
  BY <1>1, <1>3, PlQuietly

LEMMA PlCheckPolicyQuiet ==
    ASSUME PlInv, NEW c \in Ids, CheckPolicy(c)
    PROVE  PlQuietTurn(c)
<1>1. Under(c) /\ UNCHANGED <<durable, outside, heap, runs, journal, merged, source>> /\ merged \subseteq merged'
  BY DEF CheckPolicy, Under
<1>2. Kind(c) = "finalize" => Late(c) \/ ~Finalizing(At(c))
  BY DEF CheckPolicy, Late
<1>3. \E n : PlFits(c, n) /\ call' = [call EXCEPT ![c] = n]
  BY <1>1, <1>2, PlEnds, PlGoes, PlWritesNext
    DEF CheckPolicy, PlPositions, PlPatches, PlValues, PlVerdicts, PlInv, PlCallSound, Judging
<1>4. QED
  BY <1>1, <1>3, PlQuietly

LEMMA PlRecheckTargetQuiet ==
    ASSUME PlInv, NEW c \in Ids, RecheckTarget(c)
    PROVE  PlQuietTurn(c)
<1>1. Under(c) /\ UNCHANGED <<durable, outside, heap, runs, journal, merged, source>> /\ merged \subseteq merged'
  BY DEF RecheckTarget, Under
<1>2. Kind(c) = "finalize" => Late(c) \/ ~Finalizing(At(c))
  BY DEF RecheckTarget, Late
<1>3. \E n : PlFits(c, n) /\ call' = [call EXCEPT ![c] = n]
  BY <1>1, <1>2, PlEnds, PlGoes, PlWritesNext
    DEF RecheckTarget, PlPositions, PlPatches, PlValues, PlVerdicts, PlInv, PlCallSound, Judging
<1>4. QED
  BY <1>1, <1>3, PlQuietly

LEMMA PlLockRepositoryQuiet ==
    ASSUME PlInv, NEW c \in Ids, LockRepository(c)
    PROVE  PlQuietTurn(c)
<1> call[c] \in PlTurns /\ plan[c] \in PlCalls /\ call \in [Ids -> PlTurns] /\ journal \in [Ids -> PlJournal]
  BY PlTurnOf DEF PlInv, PlTyped
<1>1. Under(c) /\ UNCHANGED <<durable, outside, heap, runs, merged, source>> /\ merged \subseteq merged'
  BY DEF LockRepository, Under
<1>2. Kind(c) = "finalize" => Late(c) \/ ~Finalizing(At(c))
  BY DEF LockRepository, Late
<1>3. journal' \in [Ids -> PlJournal]
  BY DEF LockRepository, RecoverOpen, PlJournal
<1>4. \E n : PlFits(c, n) /\ call' = [call EXCEPT ![c] = n]
  <2>1. CASE call' = [call EXCEPT ![c].pc = "prepare", ![c].locked = TRUE]
    <3> DEFINE n == [call[c] EXCEPT !.pc = "prepare", !.locked = TRUE]
    <3>1. /\ n \in PlTurns /\ n.obj = call[c].obj /\ n.pc = "prepare" /\ n.value = call[c].value
          /\ n.out = call[c].out /\ call' = [call EXCEPT ![c] = n]
      BY <2>1 DEF PlTurns, PlPositions
    <3> HIDE DEF n
    <3>2. PlFits(c, n)
      BY <1>1, <1>2, <3>1 DEF PlFits, PlInv, PlCallSound
    <3>3. QED
      BY <3>1, <3>2
  <2>2. CASE \E value \in {"retry", "blocked", "refused"} : WriteNext(c, "result", value)
    BY <1>1, <1>2, <2>2, PlWritesNext DEF PlPositions, PlPatches, PlValues, PlVerdicts
  <2>3. QED
    BY <2>1, <2>2 DEF LockRepository
<1>5. QED
  BY <1>1, <1>3, <1>4, PlFitting DEF PlInv, PlTyped, PlRecordsStay, durable, outside


LEMMA PlPrepareOperationQuiet ==
    ASSUME PlInv, NEW c \in Ids, PrepareOperation(c)
    PROVE  PlQuietTurn(c)
<1> call[c] \in PlTurns /\ plan[c] \in PlCalls /\ call \in [Ids -> PlTurns] /\ journal \in [Ids -> PlJournal]
  BY PlTurnOf DEF PlInv, PlTyped
<1>1. Under(c) /\ UNCHANGED <<durable, outside, heap, runs, merged, source>> /\ merged \subseteq merged'
  BY DEF PrepareOperation, Under
<1>2. Kind(c) = "finalize" => Late(c) \/ ~Finalizing(At(c))
  BY DEF PrepareOperation, Late
<1>3. journal' \in [Ids -> PlJournal]
  BY DEF PrepareOperation, PlJournal, PlInv, PlTyped
<1>4. \E n : PlFits(c, n) /\ call' = [call EXCEPT ![c] = n]
  <2>1. CASE WriteNext(c, "reserve", "")
    BY <1>1, <1>2, <2>1, PlEnds, PlGoes, PlWritesNext
      DEF PrepareOperation, PlPositions, PlPatches, PlValues, PlVerdicts, PlInv, PlCallSound, Judging
  <2>2. CASE call' = [call EXCEPT ![c].pc = "write", ![c].patch = "result", ![c].locked = FALSE,
                        ![c].value = IF call[c].locked THEN "refused" ELSE "retry"]
    <3> DEFINE n == [call[c] EXCEPT !.pc = "write", !.patch = "result", !.locked = FALSE,
                                !.value = IF call[c].locked THEN "refused" ELSE "retry"]
    <3>1. n \in PlTurns /\ n.obj = call[c].obj /\ call' = [call EXCEPT ![c] = n]
      BY <2>2 DEF PrepareOperation, PlTurns, PlPositions, PlPatches, PlValues, PlVerdicts, PlInv, PlTyped
    <3>2. n.out = call[c].out /\ n.pc = "write" /\ n.patch = "result" /\ n.value \in {"refused", "retry"}
      BY <2>2 DEF PrepareOperation, PlTurns
    <3> HIDE DEF n
    <3>3. PlFits(c, n)
      BY <1>1, <1>2, <2>2, <3>1, <3>2 DEF PrepareOperation, PlFits, PlInv, PlCallSound, Judging
    <3>4. QED
      BY <3>1, <3>3
  <2>3. QED
    BY <2>1, <2>2 DEF PrepareOperation
<1>5. QED
  BY <1>1, <1>3, <1>4, PlFitting DEF PlInv, PlTyped, PlRecordsStay, durable, outside


LEMMA PlApplyPatchQuiet ==
    ASSUME PlInv, NEW c \in Ids, ApplyPatch(c)
    PROVE  PlQuietTurn(c)
<1> call[c] \in PlTurns /\ plan[c] \in PlCalls /\ call \in [Ids -> PlTurns] /\ journal \in [Ids -> PlJournal]
  BY PlTurnOf DEF PlInv, PlTyped
<1>1. Under(c) /\ UNCHANGED <<durable, outside, heap, runs, source>> /\ merged \subseteq merged'
  BY DEF ApplyPatch, Under
<1>2. Kind(c) = "finalize" => Late(c) \/ ~Finalizing(At(c))
  BY DEF ApplyPatch, Late
<1>3. journal' \in [Ids -> PlJournal] /\ merged' \subseteq PlItems
  BY DEF ApplyPatch, PlJournal, PlCalls, PlInv, PlTyped
<1>4. \E n : PlFits(c, n) /\ call' = [call EXCEPT ![c] = n]
  <2>1. CASE PlGo(c, "unwind")
    BY <1>1, <1>2, <2>1, PlEnds, PlGoes, PlWritesNext
      DEF ApplyPatch, PlPositions, PlPatches, PlValues, PlVerdicts, PlInv, PlCallSound, Judging
  <2>2. ASSUME NEW asked \in BOOLEAN, merged' = merged \cup {plan[c].item},
               call' = [call EXCEPT ![c].pc = "write", ![c].patch = "result", ![c].locked = FALSE,
                                    ![c].value = IF asked THEN "applied_and_asked" ELSE "applied"]
        PROVE  \E n : PlFits(c, n) /\ call' = [call EXCEPT ![c] = n]
    <3> DEFINE n == [call[c] EXCEPT !.pc = "write", !.patch = "result", !.locked = FALSE,
                                !.value = IF asked THEN "applied_and_asked" ELSE "applied"]
    <3>1. n \in PlTurns /\ n.obj = call[c].obj /\ call' = [call EXCEPT ![c] = n]
      BY <2>2 DEF ApplyPatch, PlTurns, PlPositions, PlPatches, PlValues, PlVerdicts, PlInv, PlTyped
    <3>2. n.out = call[c].out /\ n.pc = "write" /\ n.patch = "result"
      BY <2>2 DEF ApplyPatch, PlTurns
    <3> HIDE DEF n
    <3>3. PlFits(c, n)
      BY <1>1, <1>2, <2>2, <3>1, <3>2 DEF ApplyPatch, PlFits, PlInv, PlCallSound, Judging
    <3>4. QED
      BY <3>1, <3>3
  <2>3. QED
    BY <2>1, <2>2 DEF ApplyPatch
<1>5. QED
  BY <1>1, <1>3, <1>4, PlFitting DEF PlInv, PlTyped, PlRecordsStay, durable, outside


LEMMA PlUnwindOperationQuiet ==
    ASSUME PlInv, NEW c \in Ids, UnwindOperation(c)
    PROVE  PlQuietTurn(c)
<1> call[c] \in PlTurns /\ plan[c] \in PlCalls /\ call \in [Ids -> PlTurns] /\ journal \in [Ids -> PlJournal]
  BY PlTurnOf DEF PlInv, PlTyped
<1>1. Under(c) /\ UNCHANGED <<durable, outside, heap, runs, merged, source>> /\ merged \subseteq merged'
  BY DEF UnwindOperation, Under
<1>2. Kind(c) = "finalize" => Late(c) \/ ~Finalizing(At(c))
  BY DEF UnwindOperation, Late
<1>3. journal' \in [Ids -> PlJournal]
  BY DEF UnwindOperation, PlJournal, PlInv, PlTyped
<1>4. \E n : PlFits(c, n) /\ call' = [call EXCEPT ![c] = n]
  <2>1. CASE TRUE
    <3> DEFINE n == [call[c] EXCEPT !.pc = "write", !.patch = "result", !.value = "retry", !.locked = FALSE]
    <3>1. n \in PlTurns /\ n.obj = call[c].obj /\ call' = [call EXCEPT ![c] = n]
      BY <2>1 DEF UnwindOperation, PlTurns, PlPositions, PlPatches, PlValues, PlVerdicts, PlInv, PlTyped
    <3>2. n.out = call[c].out /\ n.pc = "write" /\ n.patch = "result" /\ n.value = "retry"
      BY <2>1 DEF UnwindOperation, PlTurns
    <3> HIDE DEF n
    <3>3. PlFits(c, n)
      BY <1>1, <1>2, <2>1, <3>1, <3>2 DEF UnwindOperation, PlFits, PlInv, PlCallSound, Judging
    <3>4. QED
      BY <3>1, <3>3
  <2>2. QED
    BY <2>1 DEF UnwindOperation
<1>5. QED
  BY <1>1, <1>3, <1>4, PlFitting DEF PlInv, PlTyped, PlRecordsStay, durable, outside


LEMMA PlOpenFinalizationQuiet ==
    ASSUME PlInv, NEW c \in Ids, OpenFinalization(c)
    PROVE  PlQuietTurn(c)
<1> call[c] \in PlTurns /\ plan[c] \in PlCalls /\ call \in [Ids -> PlTurns] /\ journal \in [Ids -> PlJournal]
  BY PlTurnOf DEF PlInv, PlTyped
<1>1. Under(c) /\ UNCHANGED <<durable, outside, heap, runs, journal, merged, source>> /\ merged \subseteq merged'
  BY DEF OpenFinalization, Under
<1>3. journal' \in [Ids -> PlJournal]
  BY DEF OpenFinalization, PlJournal, PlInv, PlTyped
<1>4. \E n : PlFits(c, n) /\ call' = [call EXCEPT ![c] = n]
  <2>1. CASE EndCall(c)
    BY <1>1, <2>1, PlEnds, PlGoes, PlWritesNext
      DEF OpenFinalization, PlPositions, PlPatches, PlValues, PlVerdicts, PlInv, PlCallSound, Judging
  <2>2. CASE ~Finalizing(At(c)) /\ call' = [call EXCEPT ![c].pc = "write", ![c].patch = "reconcile", ![c].locked = TRUE]
    <3> DEFINE n == [call[c] EXCEPT !.pc = "write", !.patch = "reconcile", !.locked = TRUE]
    <3>1. n \in PlTurns /\ n.obj = call[c].obj /\ call' = [call EXCEPT ![c] = n]
      BY <2>2 DEF OpenFinalization, PlTurns, PlPositions, PlPatches, PlValues, PlVerdicts, PlInv, PlTyped
    <3>2. n.out = call[c].out /\ n.pc = "write" /\ n.patch = "reconcile" /\ n.value = call[c].value
      BY <2>2 DEF OpenFinalization, PlTurns
    <3> HIDE DEF n
    <3>3. PlFits(c, n)
      BY <1>1, <2>2, <3>1, <3>2 DEF OpenFinalization, PlFits, PlInv, PlCallSound, Judging
    <3>4. QED
      BY <3>1, <3>3
  <2>3. QED
    BY <2>1, <2>2 DEF OpenFinalization
<1>5. QED
  BY <1>1, <1>3, <1>4, PlFitting DEF PlInv, PlTyped, PlRecordsStay, durable, outside


LEMMA PlCaptureTargetQuiet ==
    ASSUME PlInv, NEW c \in Ids, CaptureTarget(c)
    PROVE  PlQuietTurn(c)
<1> call[c] \in PlTurns /\ plan[c] \in PlCalls /\ call \in [Ids -> PlTurns] /\ journal \in [Ids -> PlJournal]
  BY PlTurnOf DEF PlInv, PlTyped
<1> Version \in Versions
  BY DEF PlInv, PlTyped, Version, Versions
<1>1. Under(c) /\ UNCHANGED <<durable, outside, heap, runs, journal, merged, source>> /\ merged \subseteq merged'
  BY DEF CaptureTarget, Under
<1>2. Kind(c) = "finalize" => Late(c) \/ ~Finalizing(At(c))
  BY DEF CaptureTarget, Late
<1>3. journal' \in [Ids -> PlJournal]
  BY DEF CaptureTarget, PlJournal, PlInv, PlTyped
<1>4. \E n : PlFits(c, n) /\ call' = [call EXCEPT ![c] = n]
  <2>1. CASE TRUE
    <3> DEFINE n == [call[c] EXCEPT !.pc = "validate", !.ver = Version]
    <3>1. n \in PlTurns /\ n.obj = call[c].obj /\ call' = [call EXCEPT ![c] = n]
      BY <2>1 DEF CaptureTarget, PlTurns, PlPositions, PlPatches, PlValues, PlVerdicts, PlInv, PlTyped
    <3>2. n.out = call[c].out /\ n.pc = "validate" /\ n.value = call[c].value
      BY <2>1 DEF CaptureTarget, PlTurns
    <3> HIDE DEF n
    <3>3. PlFits(c, n)
      BY <1>1, <1>2, <2>1, <3>1, <3>2 DEF CaptureTarget, PlFits, PlInv, PlCallSound, Judging
    <3>4. QED
      BY <3>1, <3>3
  <2>2. QED
    BY <2>1 DEF CaptureTarget
<1>5. QED
  BY <1>1, <1>3, <1>4, PlFitting DEF PlInv, PlTyped, PlRecordsStay, durable, outside


LEMMA PlValidateQuiet ==
    ASSUME PlInv, NEW c \in Ids, Validate(c)
    PROVE  PlQuietTurn(c)
<1> call[c] \in PlTurns /\ plan[c] \in PlCalls /\ call \in [Ids -> PlTurns] /\ journal \in [Ids -> PlJournal]
  BY PlTurnOf DEF PlInv, PlTyped
<1>1. Under(c) /\ UNCHANGED <<durable, outside, heap, runs, journal, merged, source>> /\ merged \subseteq merged'
  BY DEF Validate, Under
<1>2. Kind(c) = "finalize" => Late(c) \/ ~Finalizing(At(c))
  BY DEF Validate, Late
<1>3. journal' \in [Ids -> PlJournal]
  BY DEF Validate, PlJournal, PlInv, PlTyped
<1>4. \E n : PlFits(c, n) /\ call' = [call EXCEPT ![c] = n]
  <2>1. CASE PlGo(c, "gates")
    BY <1>1, <1>2, <2>1, PlEnds, PlGoes, PlWritesNext
      DEF Validate, PlPositions, PlPatches, PlValues, PlVerdicts, PlInv, PlCallSound, Judging
  <2>2. CASE WriteNext(c, "set", "failed")
    BY <1>1, <1>2, <2>2, PlEnds, PlGoes, PlWritesNext
      DEF Validate, PlPositions, PlPatches, PlValues, PlVerdicts, PlInv, PlCallSound, Judging
  <2>3. CASE WriteNext(c, "defer", "")
    BY <1>1, <1>2, <2>3, PlEnds, PlGoes, PlWritesNext
      DEF Validate, PlPositions, PlPatches, PlValues, PlVerdicts, PlInv, PlCallSound, Judging
  <2>4. QED
    BY <2>1, <2>2, <2>3 DEF Validate
<1>5. QED
  BY <1>1, <1>3, <1>4, PlFitting DEF PlInv, PlTyped, PlRecordsStay, durable, outside


LEMMA PlRunGatesQuiet ==
    ASSUME PlInv, NEW c \in Ids, RunGates(c)
    PROVE  PlQuietTurn(c)
<1> call[c] \in PlTurns /\ plan[c] \in PlCalls /\ call \in [Ids -> PlTurns] /\ journal \in [Ids -> PlJournal]
  BY PlTurnOf DEF PlInv, PlTyped
<1> Version \in Versions
  BY DEF PlInv, PlTyped, Version, Versions
<1>1. Under(c) /\ UNCHANGED <<durable, outside, heap, runs, journal, merged, source>> /\ merged \subseteq merged'
  BY DEF RunGates, Under
<1>2. Kind(c) = "finalize" => Late(c) \/ ~Finalizing(At(c))
  BY DEF RunGates, Late
<1>3. journal' \in [Ids -> PlJournal]
  BY DEF RunGates, PlJournal, PlInv, PlTyped
<1>4. \E n : PlFits(c, n) /\ call' = [call EXCEPT ![c] = n]
  <2>1. CASE call' = [call EXCEPT ![c].pc = "recheck", ![c].saw = Version]
    <3> DEFINE n == [call[c] EXCEPT !.pc = "recheck", !.saw = Version]
    <3>1. n \in PlTurns /\ n.obj = call[c].obj /\ call' = [call EXCEPT ![c] = n]
      BY <2>1 DEF RunGates, PlTurns, PlPositions, PlPatches, PlValues, PlVerdicts, PlInv, PlTyped
    <3>2. n.out = call[c].out /\ n.pc = "recheck" /\ n.value = call[c].value
      BY <2>1 DEF RunGates, PlTurns
    <3> HIDE DEF n
    <3>3. PlFits(c, n)
      BY <1>1, <1>2, <2>1, <3>1, <3>2 DEF RunGates, PlFits, PlInv, PlCallSound, Judging
    <3>4. QED
      BY <3>1, <3>3
  <2>2. CASE WriteNext(c, "set", "failed")
    BY <1>1, <1>2, <2>2, PlEnds, PlGoes, PlWritesNext
      DEF RunGates, PlPositions, PlPatches, PlValues, PlVerdicts, PlInv, PlCallSound, Judging
  <2>3. CASE WriteNext(c, "defer", "")
    BY <1>1, <1>2, <2>3, PlEnds, PlGoes, PlWritesNext
      DEF RunGates, PlPositions, PlPatches, PlValues, PlVerdicts, PlInv, PlCallSound, Judging
  <2>4. QED
    BY <2>1, <2>2, <2>3 DEF RunGates
<1>5. QED
  BY <1>1, <1>3, <1>4, PlFitting DEF PlInv, PlTyped, PlRecordsStay, durable, outside

LEMMA PlConsiderSourcesQuiet ==
    ASSUME PlInv, NEW c \in Ids, ConsiderSources(c)
    PROVE  PlQuietTurn(c)
<1> DEFINE out == [i \in PlItems |-> IF i \in Mine(c).asked THEN OutcomeOf(i) ELSE "none"]
           patch == IF \E i \in PlItems : out[i] = "authorized" THEN "authorize" ELSE "finish"
           n == [call[c] EXCEPT !.pc = "write", !.out = out, !.patch = patch]
<1>1. /\ Under(c) /\ Late(c) /\ Kind(c) = "finalize"
      /\ UNCHANGED <<durable, outside, heap, runs, journal, merged, source>>
      /\ call' = [call EXCEPT ![c].pc = "write", ![c].out = out, ![c].patch = patch]
  BY DEF ConsiderSources, Under, Late, Judging, PlInv, PlCallSound
<1>2. call[c] \in PlTurns /\ call \in [Ids -> PlTurns] /\ call[c].obj \in PlObjects
  BY <1>1, PlTurnOf DEF PlInv, PlTyped, PlCallSound
<1>3. out \in [PlItems -> Outcomes] /\ patch \in {"authorize", "finish"}
  BY DEF OutcomeOf, Outcomes
<1>4. \A i \in PlItems : out[i] = "authorized" => i \in merged
  BY <1>2 DEF PlInv, PlHonest, AskedAndNamed, Mine
<1> HIDE DEF out, patch
<1>5. /\ n \in PlTurns /\ n.obj = call[c].obj /\ n.pc = "write" /\ n.patch = patch /\ n.out = out
      /\ n.value = call[c].value /\ call' = [call EXCEPT ![c] = n]
  BY <1>1, <1>2, <1>3 DEF PlTurns, PlPositions, PlPatches
<1> HIDE DEF n
<1>6. PlFits(c, n)
  BY <1>1, <1>3, <1>4, <1>5 DEF PlFits, PlInv, PlCallSound
<1>7. QED
  BY <1>1, <1>5, <1>6, PlQuietly

LEMMA PlResumeCleanupQuiet ==
    ASSUME PlInv, NEW c \in Ids, ResumeCleanup(c)
    PROVE  PlQuietTurn(c)
<1>1. /\ Under(c) /\ Kind(c) = "recover" /\ permitted' = permitted
      /\ UNCHANGED <<durable, outside, heap, runs, journal, merged, source>>
  BY DEF ResumeCleanup, Under, durable
<1>2. call[c] \in PlTurns /\ call \in [Ids -> PlTurns] /\ call[c].obj \in PlObjects
  BY <1>1, PlTurnOf DEF PlInv, PlTyped, PlCallSound
<1>3. CASE WriteNext(c, "retain", "")
  <2>1. \E n : PlFits(c, n) /\ call' = [call EXCEPT ![c] = n]
    BY <1>1, <1>3, PlWritesNext DEF PlPatches, PlValues
  <2>2. QED
    BY <1>1, <2>1, PlQuietly
<1>4. CASE ~WriteNext(c, "retain", "")
  <2> DEFINE o == Mine(c)
             over(i) == o.outcome[i] \in {"success", "retained"}
             out == [i \in PlItems |->
                       IF i \notin o.asked THEN "none"
                       ELSE IF over(i) THEN o.outcome[i]
                       ELSE IF i \notin o.auth THEN "retained" ELSE OutcomeOf(i)]
             n == [call[c] EXCEPT !.pc = "remove", !.out = out]
  <2>1. call' = [call EXCEPT ![c].pc = "remove", ![c].out = out]
    BY <1>4 DEF ResumeCleanup
  <2>2. o \in PlRows /\ AskedAndNamed(o)
    BY <1>2 DEF Mine, PlInv, PlTyped, PlHonest
  <2>3. out \in [PlItems -> Outcomes]
    BY DEF OutcomeOf, Outcomes
  <2>4. \A i \in PlItems : out[i] = "authorized" => i \in merged /\ i \in permitted
    BY <2>2 DEF AskedAndNamed
  <2> HIDE DEF out
  <2>5. /\ n \in PlTurns /\ n.obj = call[c].obj /\ n.pc = "remove" /\ n.out = out
        /\ n.value = call[c].value /\ call' = [call EXCEPT ![c] = n]
    BY <1>2, <2>1, <2>3 DEF PlTurns, PlPositions
  <2> HIDE DEF n
  <2>6. PlFits(c, n)
    BY <1>1, <2>4, <2>5 DEF PlFits, PlInv, PlCallSound
  <2>7. QED
    BY <1>1, <2>5, <2>6, PlQuietly
<1>5. QED
  BY <1>3, <1>4

LEMMA PlRemoveSourceQuiet ==
    ASSUME PlInv, NEW c \in Ids, RemoveSource(c)
    PROVE  PlQuietTurn(c)
<1>1. /\ Under(c) /\ Late(c) /\ call[c].pc = "remove" /\ Kind(c) \in {"finalize", "recover"}
      /\ PlRecordsStay /\ UNCHANGED <<journal, merged, permitted>>
  BY DEF RemoveSource, Under, Late, PlInv, PlCallSound, PlRecordsStay, durable, outside
<1>2. call[c] \in PlTurns /\ call \in [Ids -> PlTurns]
  BY PlTurnOf DEF PlInv, PlTyped
<1>3. source \in [PlItems -> {"kept", "edited", "removed"}] /\ journal \in [Ids -> PlJournal] /\ merged \subseteq PlItems
  BY DEF PlInv, PlTyped
<1>4. CASE WriteNext(c, "finish", "") /\ source' = source
  <2>1. \E n : PlFits(c, n) /\ call' = [call EXCEPT ![c] = n]
    BY <1>1, <1>4, PlWritesNext DEF PlPatches, PlValues
  <2>2. QED
    BY <1>1, <1>3, <1>4, <2>1, PlFitting
<1>5. ASSUME NEW i \in ToRemove(c), NEW how \in {"success", "retained", "failed"},
             source' = IF how = "success" THEN [source EXCEPT ![i] = "removed"] ELSE source,
             call' = [call EXCEPT ![c].out[i] = how]
      PROVE  PlQuietTurn(c)
  <2> DEFINE n == [call[c] EXCEPT !.out[i] = how]
  <2>1. i \in PlItems /\ call[c].out[i] = "authorized" /\ i \in merged /\ i \in permitted
    BY <1>1, <1>5 DEF ToRemove, PlInv, PlCallSound
  <2>2. /\ n \in PlTurns /\ n.obj = call[c].obj /\ n.pc = "remove" /\ n.value = call[c].value
        /\ n.patch = call[c].patch
        /\ call' = [call EXCEPT ![c] = n]
    BY <1>1, <1>2, <1>5 DEF PlTurns, Outcomes
  <2>3. \A j \in PlItems : n.out[j] = "authorized" => call[c].out[j] = "authorized"
    BY <1>2, <1>5 DEF PlTurns
  <2> HIDE DEF n
  <2>4. PlFits(c, n)
    BY <1>1, <2>2, <2>3 DEF PlFits, PlInv, PlCallSound
  <2>5. /\ source' \in [PlItems -> {"kept", "edited", "removed"}]
        /\ \A j \in PlItems : source'[j] = "removed" => source[j] = "removed" \/ j \in merged \cap permitted
    BY <1>3, <1>5, <2>1
  <2>6. QED
    BY <1>1, <1>3, <2>2, <2>4, <2>5, PlFitting
<1>6. QED
  BY <1>4, <1>5 DEF RemoveSource

LEMMA PlLockLapsesQuiet ==
    ASSUME PlInv, NEW c \in Ids, LockLapses(c)
    PROVE  PlQuietTurn(c)
<1>1. /\ PlRecordsStay /\ UNCHANGED <<journal, merged, source>>
      /\ call' = [call EXCEPT ![c].locked = FALSE]
  BY DEF LockLapses, PlRecordsStay, durable, outside
<1>2. call[c] \in PlTurns /\ call \in [Ids -> PlTurns] /\ PlCallSound(c)
  BY PlTurnOf DEF PlInv, PlTyped
<1>3. /\ call'[c] \in PlTurns /\ call' = [call EXCEPT ![c] = call'[c]]
      /\ call'[c].pc = call[c].pc /\ call'[c].obj = call[c].obj /\ call'[c].patch = call[c].patch
      /\ call'[c].value = call[c].value /\ call'[c].out = call[c].out
  BY <1>1, <1>2 DEF PlTurns
<1>4. PlCallSound(c)' /\ Under(c)' = Under(c) /\ Late(c)' = Late(c)
  BY <1>1, <1>2, <1>3 DEF PlCallSound, Under, Late, Judging, PlRecordsStay, PlObjects, Kind
<1>5. QED
  BY <1>1, <1>3, <1>4 DEF PlQuietTurn, PlTurnTaken, PlRecordsStay, PlInv, PlTyped

LEMMA PlAloneStays ==
    ASSUME PlAlone, plan' = plan,
           \A c \in Ids : (Under(c)' => Under(c)) /\ (Late(c)' => Late(c))
    PROVE  PlAlone'
<1>1. Ids' = Ids /\ (\A c \in Ids : Kind(c)' = Kind(c) /\ At(c)' = At(c))
  BY DEF Ids, Kind, At
<1>2. QED
  BY <1>1 DEF PlAlone

LEMMA PlFencedStays ==
    ASSUME PlFenced, plan' = plan, heap' = heap, row'.gen = row.gen, row'.owner = row.owner
    PROVE  PlFenced'
<1>1. PlObjects' = PlObjects
  BY DEF PlObjects
<1>2. QED
  BY <1>1 DEF PlFenced

(* The steps of the world leave the records alone, or only move the row's    *)
(* revision and status.                                                     *)
LEMMA PlWorldKeeps ==
    ASSUME PlInv, UNCHANGED <<plan, heap, merged, permitted>>,
           row' \in PlRows, row'.gen = row.gen, row'.owner = row.owner,
           row'.asked = row.asked, row'.auth = row.auth,
           leased' \in BOOLEAN, instance' \subseteq PlBridges, running' \subseteq PlBridges, edits' \in Nat,
           runs' \in [PlBridges -> {NoObject} \cup PlObjects], journal' \in [Ids -> PlJournal],
           source' \in [PlItems -> {"kept", "edited", "removed"}],
           \A i \in PlItems : source'[i] = "removed" => source[i] = "removed",
           call' \in [Ids -> PlTurns],
           \A c \in Ids : call'[c] = call[c] \/ (call'[c].pc = "done" /\ call'[c].value = ""
                                                /\ \A i \in PlItems : call'[c].out[i] = "none")
    PROVE  PlInv'
<1>1. /\ plan' = plan /\ merged' = merged /\ permitted' = permitted /\ heap' = heap
      /\ Ids' = Ids /\ PlObjects' = PlObjects /\ (\A c \in Ids : Kind(c)' = Kind(c) /\ At(c)' = At(c))
  BY DEF Ids, PlObjects, Kind, At
<1>2. PlTyped'
  BY <1>1 DEF PlInv, PlTyped
<1>3. ASSUME NEW c \in Ids PROVE PlCallSound(c)'
  <2>1. CASE call'[c] = call[c]
    <3>1. PlCallSound(c)
      BY DEF PlInv
    <3>2. QED
      BY <1>1, <2>1, <3>1 DEF PlCallSound, Under, Judging
  <2>2. CASE call'[c].pc = "done" /\ call'[c].value = "" /\ \A i \in PlItems : call'[c].out[i] = "none"
    BY <2>2 DEF PlCallSound, Under, Judging
  <2>3. QED
    BY <2>1, <2>2
<1>4. \A c \in Ids : (Under(c)' => Under(c)) /\ (Late(c)' => Late(c))
  BY DEF Under, Late
<1>5. PlAlone'
  BY <1>1, <1>4, PlAloneStays DEF PlInv
<1>6. PlFenced'
  BY <1>1, PlFencedStays DEF PlInv
<1>7. PlHonest'
  BY <1>1 DEF PlInv, PlHonest, AskedAndNamed
<1>8. RemovedIsPermitted'
  BY DEF PlInv, RemovedIsPermitted
<1>9. QED
  BY <1>1, <1>2, <1>3, <1>5, <1>6, <1>7, <1>8 DEF PlInv

LEMMA PlWorldStep ==
    ASSUME PlInv,
           \/ ChildrenEnd \/ RecoverJournal \/ EditCheckout
           \/ \E i \in PlItems : EditSource(i)
           \/ \E b \in PlBridges : PlCrash(b) \/ LeasesLapse(b) \/ PlHeartbeat(b)
    PROVE  PlInv'
<1> PlTyped
  BY DEF PlInv
<1>1. CASE ChildrenEnd
  <2>1. row' \in PlRows /\ row'.gen = row.gen /\ row'.owner = row.owner /\ row'.asked = row.asked /\ row'.auth = row.auth
    <3>1. row \in PlRows /\ (row' = row \/ row' = [row EXCEPT !.status = "failed", !.rev = @ + 1])
      BY <1>1 DEF ChildrenEnd, PlTyped
    <3>2. QED
      <4>1. CASE row' = row
        BY <3>1, <4>1
      <4>2. CASE row' = [row EXCEPT !.status = "failed", !.rev = @ + 1]
        <5>1. row'.rev = row.rev + 1 /\ row.rev \in Nat
          BY <3>1, <4>2 DEF PlRows
        <5>2. row' = [row EXCEPT !.status = "failed", !.rev = row.rev + 1] /\ row.rev + 1 \in Nat /\ "failed" \in Statuses
          BY <4>2, <5>1 DEF Statuses, FrozenStatuses, Closed
        <5>3. QED
          BY <3>1, <5>2 DEF PlRows
      <4>3. QED
        BY <3>1, <4>1, <4>2
  <2>2. QED
    BY <1>1, <2>1, PlWorldKeeps DEF ChildrenEnd, PlTyped
<1>2. CASE RecoverJournal
  <2>1. journal' \in [Ids -> PlJournal]
    BY <1>2 DEF RecoverJournal, RecoverOpen, PlTyped, PlJournal
  <2>2. QED
    BY <1>2, <2>1, PlWorldKeeps DEF RecoverJournal, PlTyped, durable, outside
<1>3. CASE EditCheckout
  BY <1>3, PlWorldKeeps DEF EditCheckout, PlTyped
<1>4. CASE \E i \in PlItems : EditSource(i)
  <2>1. PICK i \in PlItems : EditSource(i)
    BY <1>4
  <2>2. /\ source' \in [PlItems -> {"kept", "edited", "removed"}]
        /\ \A j \in PlItems : source'[j] = "removed" => source[j] = "removed"
    BY <2>1 DEF EditSource, PlTyped
  <2>3. QED
    BY <2>1, <2>2, PlWorldKeeps DEF EditSource, PlTyped
<1>5. ASSUME NEW b \in PlBridges, PlCrash(b) PROVE PlInv'
  <2>1. /\ UNCHANGED <<plan, row, heap, merged, permitted, leased, instance, edits, journal, source>>
        /\ running' \subseteq PlBridges /\ runs' \in [PlBridges -> {NoObject} \cup PlObjects]
    BY <1>5 DEF PlCrash, PlTyped
  <2>2. ASSUME NEW c \in Ids PROVE /\ call'[c] \in PlTurns
                                   /\ \/ call'[c] = call[c]
                                      \/ (call'[c].pc = "done" /\ call'[c].value = ""
                                          /\ \A i \in PlItems : call'[c].out[i] = "none")
    <3>1. call[c] \in PlTurns
      BY DEF PlTyped
    <3>2. CASE call'[c] = call[c]
      BY <3>1, <3>2
    <3>3. CASE call'[c] = [IdleCall EXCEPT !.pc = "done", !.locked = call[c].locked]
      <4>1. IdleCall \in PlTurns /\ IdleCall.value = "" /\ \A i \in PlItems : IdleCall.out[i] = "none"
        BY PlIdle DEF IdleCall
      <4>2. call[c].locked \in BOOLEAN
        BY <3>1 DEF PlTurns
      <4>3. QED
        BY <3>3, <4>1, <4>2 DEF PlTurns, PlPositions
    <3>4. QED
      BY <1>5, <3>2, <3>3 DEF PlCrash
  <2>3. call' \in [Ids -> PlTurns]
    BY <1>5, <2>2 DEF PlCrash
  <2>4. QED
    BY <2>1, <2>2, <2>3, PlWorldKeeps DEF PlTyped
<1>6. ASSUME NEW b \in PlBridges, LeasesLapse(b) PROVE PlInv'
  BY <1>6, PlWorldKeeps DEF LeasesLapse, PlTyped
<1>7. ASSUME NEW b \in PlBridges, PlHeartbeat(b) PROVE PlInv'
  BY <1>7, PlWorldKeeps DEF PlHeartbeat, PlTyped
<1>8. QED
  BY <1>1, <1>2, <1>3, <1>4, <1>5, <1>6, <1>7

(* What a write makes of a record is a record of the same generation.       *)
PlSame(n, o) == n \in PlRows /\ n.rev = o.rev /\ n.gen = o.gen /\ n.owner = o.owner
PlKeepsNames(n, o) == PlSame(n, o) /\ n.asked = o.asked /\ n.auth = o.auth

LEMMA PlStatusSet ==
    ASSUME NEW o \in PlRows, NEW status \in Statuses, NEW n, n = [o EXCEPT !.status = status]
    PROVE  PlKeepsNames(n, o) /\ n.item = o.item /\ n.status = status
  BY DEF PlKeepsNames, PlSame, PlRows

LEMMA PlItemsSet ==
    ASSUME NEW o \in PlRows, NEW item \in [PlItems -> ItemStatuses], NEW n, n = [o EXCEPT !.item = item]
    PROVE  PlKeepsNames(n, o) /\ n.item = item /\ n.status = o.status
  BY DEF PlKeepsNames, PlSame, PlRows

LEMMA PlTransitive ==
    ASSUME NEW o, NEW n, NEW m, PlKeepsNames(n, o), PlKeepsNames(m, n)
    PROVE  PlKeepsNames(m, o)
  BY DEF PlKeepsNames, PlSame

LEMMA PlReconciledIs ==
    ASSUME NEW o \in PlRows
    PROVE  PlKeepsNames(Reconciled(o), o)
<1> DEFINE unsure == {i \in PlItems : o.item[i] \in {"integrating", "quarantined"} /\ o.by[i] # 0}
           item == [i \in PlItems |-> IF i \in unsure THEN Settled(o, i) ELSE o.item[i]]
           n == [o EXCEPT !.item = item]
<1>1. \A i \in PlItems : o.item[i] \in ItemStatuses
  BY DEF PlRows
<1>2. item \in [PlItems -> ItemStatuses]
  BY <1>1 DEF Settled, ItemStatuses
<1>3. Reconciled(o) = IF n # o /\ AllIntegrated(n) /\ n.status = "awaiting_integration"
                        THEN [n EXCEPT !.status = "awaiting_finalization"] ELSE n
  BY DEF Reconciled
<1> HIDE DEF item
<1>4. PlKeepsNames(n, o)
  BY <1>2, PlItemsSet
<1> HIDE DEF n
<1>5. "awaiting_finalization" \in Statuses /\ n \in PlRows
  BY <1>4 DEF Statuses, PlKeepsNames, PlSame
<1>6. PlKeepsNames([n EXCEPT !.status = "awaiting_finalization"], n)
  BY <1>5, PlStatusSet
<1>7. QED
  BY <1>3, <1>4, <1>6, PlTransitive

LEMMA PlRefreshedIs ==
    ASSUME NEW o \in PlRows
    PROVE  PlKeepsNames(Refreshed(o), o)
<1> DEFINE n == Reconciled(o)
           item == [i \in PlItems |-> IF n.item[i] = "planned" THEN "pending" ELSE n.item[i]]
<1>1. PlKeepsNames(n, o) /\ n \in PlRows /\ PlKeepsNames(o, o)
  BY PlReconciledIs DEF PlKeepsNames, PlSame
<1>2. /\ "failed" \in Statuses /\ "running" \in Statuses
      /\ "awaiting_finalization" \in Statuses /\ "awaiting_integration" \in Statuses
  BY DEF Statuses, FrozenStatuses, Closed
<1>3. item \in [PlItems -> ItemStatuses]
  BY <1>1 DEF PlRows, ItemStatuses
<1>4. \/ Refreshed(o) = o \/ Refreshed(o) = n
      \/ Refreshed(o) = [n EXCEPT !.status = "failed"]
      \/ Refreshed(o) = [n EXCEPT !.status = "running"]
      \/ Refreshed(o) = [n EXCEPT !.status = "awaiting_finalization"]
      \/ Refreshed(o) = [n EXCEPT !.status = "awaiting_integration", !.item = item]
  <2>1. CASE o.status \in FrozenStatuses
    BY <2>1 DEF Refreshed
  <2>2. CASE o.status \notin FrozenStatuses /\ kids = "failed"
    BY <2>2 DEF Refreshed
  <2>3. CASE o.status \notin FrozenStatuses /\ kids = "active"
    BY <2>3 DEF Refreshed
  <2>4. CASE o.status \notin FrozenStatuses /\ kids = "completed" /\ AllIntegrated(n)
    BY <2>4 DEF Refreshed
  <2>5. CASE o.status \notin FrozenStatuses /\ kids = "completed" /\ ~AllIntegrated(n)
    BY <2>5 DEF Refreshed
  <2>6. CASE o.status \notin FrozenStatuses /\ kids \notin {"failed", "active", "completed"}
    BY <2>6 DEF Refreshed
  <2>7. QED
    BY <2>1, <2>2, <2>3, <2>4, <2>5, <2>6
<1> HIDE DEF n, item
<1>5. \A status \in Statuses : PlKeepsNames([n EXCEPT !.status = status], n)
  BY <1>1, PlStatusSet
<1>6. PlKeepsNames([n EXCEPT !.status = "awaiting_integration", !.item = item], n)
  BY <1>1, <1>2, <1>3 DEF PlKeepsNames, PlSame, PlRows
<1>7. QED
  BY <1>1, <1>2, <1>4, <1>5, <1>6, PlTransitive

LEMMA PlItemOf ==
    ASSUME PlInv, NEW c \in Ids
    PROVE  plan[c].item \in PlItems /\ At(c) \in PlBridges /\ c \in Nat /\ c \in PlObjects
<1>1. plan \in Seq(PlCalls)
  BY DEF PlInv, PlTyped
<1>2. c \in 1..Len(plan) /\ Len(plan) \in Nat
  BY <1>1 DEF Ids
<1>3. plan[c] \in PlCalls
  BY <1>1, <1>2
<1>4. QED
  BY <1>2, <1>3 DEF PlCalls, At, PlObjects

LEMMA PlWithResultIs ==
    ASSUME PlInv, NEW c \in Ids, NEW o \in PlRows, AskedAndNamed(o)
    PROVE  PlSame(WithResult(c, o), o) /\ AskedAndNamed(WithResult(c, o))
<1> DEFINE i == plan[c].item
           n == [o EXCEPT !.item[i] = ItemAfter(c, o),
                          !.by[i] = IF journal[c] = "committed" THEN c ELSE @,
                          !.asked = IF call[c].value = "applied_and_asked" THEN @ \cup {i} ELSE @ \ {i}]
<1>1. i \in PlItems /\ c \in Nat
  BY PlItemOf
<1>2. ItemAfter(c, o) \in ItemStatuses
  BY DEF ItemAfter, ItemStatuses
<1>3. call[c].value = "applied_and_asked" => i \in merged
  BY DEF PlInv, PlCallSound
<1>4. n \in PlRows
  BY <1>1, <1>2 DEF PlRows
<1>5. n.rev = o.rev /\ n.gen = o.gen /\ n.owner = o.owner /\ n.auth = o.auth
  BY DEF PlRows
<1>6. n.asked \subseteq merged
  BY <1>3 DEF PlRows, AskedAndNamed
<1>7. \/ WithResult(c, o) = n
      \/ WithResult(c, o) = [n EXCEPT !.status = "awaiting_finalization"]
  BY DEF WithResult
<1> HIDE DEF n
<1>8. "awaiting_finalization" \in Statuses
  BY DEF Statuses
<1>9. PlKeepsNames([n EXCEPT !.status = "awaiting_finalization"], n)
  BY <1>4, <1>8, PlStatusSet
<1>10. QED
  BY <1>4, <1>5, <1>6, <1>7, <1>9 DEF PlKeepsNames, PlSame, AskedAndNamed

LEMMA PlPatchedIs ==
    ASSUME PlInv, NEW c \in Ids, call[c].pc = "write", NEW o \in PlRows, AskedAndNamed(o)
    PROVE  /\ PlSame(Patched(c, o), o) /\ Patched(c, o).asked \subseteq merged
           /\ call[c].patch # "authorize" => Patched(c, o).auth \subseteq permitted
           /\ call[c].patch = "authorize" => Patched(c, o).auth = {i \in PlItems : call[c].out[i] = "authorized"}
<1> DEFINE n == Patched(c, o)
<1>1. call[c] \in PlTurns /\ PlCallSound(c) /\ plan[c].item \in PlItems /\ c \in Nat
  BY PlTurnOf, PlItemOf DEF PlInv
<1>2. CASE call[c].patch = "refresh"
  BY <1>2, PlRefreshedIs DEF Patched, PlKeepsNames, AskedAndNamed
<1>3. CASE call[c].patch = "reconcile"
  BY <1>3, PlReconciledIs DEF Patched, PlKeepsNames, AskedAndNamed
<1>4. CASE call[c].patch = "reserve"
  <2>1. n = [o EXCEPT !.item[plan[c].item] = "integrating", !.by[plan[c].item] = c]
    BY <1>4 DEF Patched
  <2> HIDE DEF n
  <2>2. n \in PlRows
    BY <1>1, <2>1 DEF PlRows, ItemStatuses
  <2>3. n.rev = o.rev /\ n.gen = o.gen /\ n.owner = o.owner /\ n.auth = o.auth /\ n.asked = o.asked
    BY <2>1 DEF PlRows
  <2>4. QED
    BY <1>4, <2>2, <2>3 DEF PlSame, AskedAndNamed, n
<1>5. CASE call[c].patch = "result"
  BY <1>5, PlWithResultIs DEF Patched, AskedAndNamed
<1>6. CASE call[c].patch \in {"abandon", "finalizing", "defer", "set", "retain"}
  <2>1. /\ {"cancelled", "finalizing", "awaiting_finalization", "completed"} \subseteq Statuses
        /\ call[c].patch = "set" => call[c].value \in Statuses
    BY <1>1, <1>6 DEF Statuses, FrozenStatuses, Closed, PlCallSound, PlVerdicts
  <2>2. n = o \/ \E status \in Statuses : n = [o EXCEPT !.status = status]
    BY <1>6, <2>1 DEF Patched
  <2> HIDE DEF n
  <2>3. PlKeepsNames(o, o)
    BY DEF PlKeepsNames, PlSame
  <2>4. PlKeepsNames(n, o)
    BY <2>2, <2>3, PlStatusSet
  <2>5. QED
    BY <1>6, <2>4 DEF PlKeepsNames, AskedAndNamed, n
<1>7. CASE call[c].patch = "authorize"
  <2> DEFINE named == {i \in PlItems : call[c].out[i] = "authorized"}
  <2>1. n = [o EXCEPT !.status = "cleanup_pending", !.auth = named, !.authAt = call[c].ver, !.outcome = call[c].out]
    BY <1>7 DEF Patched
  <2>2. "cleanup_pending" \in Statuses /\ named \subseteq PlItems
    BY DEF Statuses, FrozenStatuses
  <2> HIDE DEF n
  <2>3. PlSame(n, o) /\ n.asked = o.asked /\ n.auth = named
    BY <1>1, <2>1, <2>2 DEF PlSame, PlRows, PlTurns
  <2>4. QED
    BY <1>7, <2>3 DEF AskedAndNamed, n
<1>8. CASE call[c].patch = "finish"
  <2>1. PICK status \in Statuses : n = [o EXCEPT !.outcome = call[c].out, !.status = status]
    BY <1>8 DEF Patched, Statuses, FrozenStatuses, Closed
  <2> HIDE DEF n
  <2>2. PlKeepsNames(n, o)
    BY <1>1, <2>1 DEF PlKeepsNames, PlSame, PlRows, PlTurns
  <2>3. QED
    BY <1>8, <2>2 DEF PlKeepsNames, AskedAndNamed, n
<1>9. CASE call[c].patch \in {"", "note"}
  BY <1>9 DEF Patched, PlSame, AskedAndNamed
<1>10. QED
  BY <1>1, <1>2, <1>3, <1>4, <1>5, <1>6, <1>7, <1>8, <1>9 DEF PlTurns, PlPatches

(* A record object takes new content, under the row's generation.           *)
LEMMA PlObjectTakes ==
    ASSUME PlInv, plan' = plan, merged' = merged, permitted \subseteq permitted',
           NEW o \in PlObjects, NEW h \in PlRows, heap' = [heap EXCEPT ![o] = h],
           row' \in PlRows, h.gen = row'.gen, h.owner = row'.owner,
           \/ row'.gen = row.gen /\ row'.owner = row.owner
           \/ row'.gen = row.gen + 1,
           h.asked \subseteq merged, h.auth \subseteq permitted',
           row'.asked \subseteq merged, row'.auth \subseteq permitted'
    PROVE  heap' \in [PlObjects -> PlRows] /\ PlFenced' /\ PlHonest'
<1>1. heap \in [PlObjects -> PlRows] /\ row \in PlRows /\ PlObjects' = PlObjects
  BY DEF PlInv, PlTyped, PlObjects
<1>2. heap'[o] = h /\ \A p \in PlObjects \ {o} : heap'[p] = heap[p]
  BY <1>1
<1>3. row.gen \in Nat /\ \A p \in PlObjects : heap[p].gen \in Nat
  BY <1>1 DEF PlRows
<1>4. PlFenced'
  <2>1. \A p \in PlObjects : heap'[p].gen <= row'.gen /\ (heap'[p].gen = row'.gen => heap'[p].owner = row'.owner)
    <3>1. row'.gen \in Nat
      BY DEF PlRows
    <3>2. h.gen <= row'.gen /\ h.owner = row'.owner
      BY <3>1
    <3>3. ASSUME NEW p \in PlObjects \ {o}
          PROVE  heap[p].gen <= row'.gen /\ (heap[p].gen = row'.gen => heap[p].owner = row'.owner)
      BY <1>3 DEF PlInv, PlFenced
    <3>4. QED
      BY <1>2, <3>2, <3>3
  <2>2. \A p, q \in PlObjects \ {o} : heap'[p].gen = heap'[q].gen => heap'[p].owner = heap'[q].owner
    BY <1>2 DEF PlInv, PlFenced
  <2>3. \A p \in PlObjects : heap'[p].gen = heap'[o].gen => heap'[p].owner = heap'[o].owner
    BY <1>2, <2>1
  <2>4. QED
    BY <1>1, <2>1, <2>2, <2>3 DEF PlFenced
<1>5. PlHonest'
  BY <1>1, <1>2 DEF PlInv, PlHonest, AskedAndNamed
<1>6. QED
  BY <1>1, <1>4, <1>5

(* A step that changes the row or an object and moves one call.             *)
LEMMA PlRecordStep ==
    ASSUME PlInv, NEW c \in Ids, PlTurnTaken(c), heap' \in [PlObjects -> PlRows], PlFenced', PlHonest',
           row' \in PlRows, leased' \in BOOLEAN, UNCHANGED <<instance, running, edits, merged, source>>,
           runs' \in [PlBridges -> {NoObject} \cup PlObjects], journal' \in [Ids -> PlJournal]
    PROVE  PlInv'
<1>1. call' \in [Ids -> PlTurns] /\ Ids' = Ids /\ (\A d \in Ids : PlCallSound(d))' /\ PlAlone'
  BY PlCallsStay
<1>2. plan' = plan /\ PlObjects' = PlObjects /\ permitted \subseteq permitted'
  BY DEF PlTurnTaken, PlObjects
<1>3. PlTyped'
  BY <1>1, <1>2 DEF PlInv, PlTyped
<1>4. RemovedIsPermitted'
  BY <1>2 DEF PlInv, RemovedIsPermitted
<1>5. QED
  BY <1>1, <1>3, <1>4 DEF PlInv

LEMMA PlReadRecordStep ==
    ASSUME PlInv, NEW c \in Ids, ReadRecord(c)
    PROVE  PlInv'
<1> DEFINE o == IF Known(At(c)) /\ Kind(c) # "recover" THEN runs[At(c)] ELSE c
           foreign == row.owner # At(c) \/ Kind(c) = "recover"
           value == IF Kind(c) = "recover" /\ CleanupCandidate THEN "cleanup" ELSE ""
           pc == IF (Kind(c) = "get" /\ foreign) \/ (Kind(c) = "abandon" /\ row.status \in Closed)
                   THEN "done" ELSE IF foreign THEN "claim" ELSE "opened"
           n == [call[c] EXCEPT !.obj = o, !.value = value, !.pc = pc]
<1>1. /\ heap' = [heap EXCEPT ![o] = row]
      /\ call' = [call EXCEPT ![c].obj = o, ![c].value = value, ![c].pc = pc]
      /\ runs' = IF foreign \/ runs[At(c)] # NoObject \/ Kind(c) \in {"run", "abandon"}
                    THEN runs ELSE [runs EXCEPT ![At(c)] = o]
      /\ UNCHANGED <<plan, row, leased, instance, running, journal, merged, edits, source, permitted>>
      /\ call[c].pc = "idle" /\ (Kind(c) = "recover" => ~RecoveryRuns(At(c)))
  BY DEF ReadRecord
<1>2. call[c] \in PlTurns /\ call \in [Ids -> PlTurns] /\ PlCallSound(c)
  BY PlTurnOf DEF PlInv, PlTyped
<1>3. o \in PlObjects /\ o \in Int
  <2>1. runs \in [PlBridges -> {NoObject} \cup PlObjects] /\ At(c) \in PlBridges /\ c \in PlObjects
    BY PlItemOf DEF PlInv, PlTyped
  <2>2. Known(At(c)) => runs[At(c)] \in PlObjects
    BY <2>1 DEF Known
  <2>3. QED
    BY <2>1, <2>2 DEF PlObjects
<1>4. value \in {"", "cleanup"} /\ pc \in {"done", "claim", "opened"}
  OBVIOUS
<1>5. runs' \in [PlBridges -> {NoObject} \cup PlObjects]
  BY <1>1, <1>3 DEF PlInv, PlTyped
<1> HIDE DEF o, value, pc
<1>6. /\ n \in PlTurns /\ n.obj = o /\ n.pc = pc /\ n.value = value /\ n.out = call[c].out
      /\ call' = [call EXCEPT ![c] = n]
  BY <1>1, <1>2, <1>3, <1>4 DEF PlTurns, PlPositions, PlValues
<1> HIDE DEF n
<1>7. call'[c] = n /\ plan' = plan /\ merged' = merged /\ permitted' = permitted /\ PlObjects' = PlObjects
      /\ call' = [call EXCEPT ![c] = call'[c]]
  BY <1>1, <1>2, <1>6 DEF PlObjects
<1>8. PlCallSound(c)'
  BY <1>2, <1>3, <1>4, <1>6, <1>7 DEF PlCallSound, Under, Judging
<1>9. ~Late(c)'
  BY <1>4, <1>6, <1>7 DEF Late
<1>10. PlTurnTaken(c)
  BY <1>1, <1>6, <1>7, <1>8, <1>9 DEF PlTurnTaken
<1>11. row \in PlRows /\ row' = row /\ AskedAndNamed(row)
  BY <1>1 DEF PlInv, PlTyped, PlHonest
<1>12. heap' \in [PlObjects -> PlRows] /\ PlFenced' /\ PlHonest'
  BY <1>1, <1>3, <1>7, <1>11, PlObjectTakes DEF AskedAndNamed
<1>13. QED
  BY <1>1, <1>5, <1>10, <1>11, <1>12, PlRecordStep DEF PlInv, PlTyped

LEMMA PlClaimRecordStep ==
    ASSUME PlInv, NEW c \in Ids, ClaimRecord(c)
    PROVE  PlInv'
<1> DEFINE own == row.owner = At(c) /\ Mine(c).gen = row.gen
           adopted == [row EXCEPT !.item = Mine(c).item, !.by = Mine(c).by, !.asked = Mine(c).asked,
                                  !.auth = Mine(c).auth, !.authAt = Mine(c).authAt,
                                  !.outcome = Mine(c).outcome]
           moved == [row EXCEPT !.rev = @ + 1, !.gen = @ + 1, !.owner = At(c)]
           k == call[c].obj
<1>1. Under(c) /\ UNCHANGED <<plan, instance, running, journal, merged, edits, source, permitted>>
      /\ (Kind(c) = "finalize" => ~Late(c))
  BY DEF ClaimRecord, Under, Late
<1>2. /\ k \in PlObjects /\ row \in PlRows /\ Mine(c) \in PlRows /\ AskedAndNamed(row) /\ AskedAndNamed(Mine(c))
      /\ At(c) \in PlBridges /\ runs \in [PlBridges -> {NoObject} \cup PlObjects] /\ leased \in BOOLEAN
      /\ journal \in [Ids -> PlJournal]
  BY <1>1, PlItemOf DEF PlInv, PlTyped, PlCallSound, Mine, PlHonest
<1>3. /\ adopted \in PlRows /\ adopted.rev = row.rev /\ adopted.gen = row.gen /\ adopted.owner = row.owner
      /\ adopted.asked = Mine(c).asked /\ adopted.auth = Mine(c).auth
  BY <1>2 DEF PlRows
<1>4. /\ moved \in PlRows /\ moved.gen = row.gen + 1 /\ moved.owner = At(c)
      /\ moved.asked = row.asked /\ moved.auth = row.auth
  <2>1. row.rev + 1 \in Nat /\ row.gen + 1 \in Nat
    BY <1>2 DEF PlRows
  <2>2. moved = [row EXCEPT !.rev = row.rev + 1, !.gen = row.gen + 1, !.owner = At(c)]
    OBVIOUS
  <2>3. QED
    BY <1>2, <2>1, <2>2 DEF PlRows
<1>5. CASE heap' = [heap EXCEPT ![k] = adopted] /\ EndCall(c) /\ UNCHANGED <<row, leased, runs>>
  <2>1. heap' \in [PlObjects -> PlRows] /\ PlFenced' /\ PlHonest'
    BY <1>1, <1>2, <1>3, <1>5, PlObjectTakes DEF AskedAndNamed
  <2>2. PlTurnTaken(c)
    BY <1>1, <1>5, PlEnds, PlFitTurn
  <2>3. QED
    BY <1>1, <1>2, <1>5, <2>1, <2>2, PlRecordStep
<1>6. CASE /\ row' = IF own THEN row ELSE moved
           /\ leased' = TRUE
           /\ heap' = [heap EXCEPT ![k] =
                         [adopted EXCEPT !.rev = row'.rev, !.gen = row'.gen, !.owner = row'.owner]]
           /\ runs' = [runs EXCEPT ![At(c)] = k]
           /\ EndCall(c) \/ PlGo(c, "opened")
  <2>1. row' \in PlRows /\ row'.asked = row.asked /\ row'.auth = row.auth
        /\ ((row'.gen = row.gen /\ row'.owner = row.owner) \/ row'.gen = row.gen + 1)
    BY <1>2, <1>4, <1>6
  <2> DEFINE h == [adopted EXCEPT !.rev = row'.rev, !.gen = row'.gen, !.owner = row'.owner]
  <2> HIDE DEF adopted
  <2>2. /\ h \in PlRows /\ h.gen = row'.gen /\ h.owner = row'.owner
        /\ h.asked = Mine(c).asked /\ h.auth = Mine(c).auth
    BY <1>3, <2>1 DEF PlRows
  <2>3. heap' = [heap EXCEPT ![k] = h]
    BY <1>6
  <2> HIDE DEF h
  <2>4. heap' \in [PlObjects -> PlRows] /\ PlFenced' /\ PlHonest'
    BY <1>1, <1>2, <2>1, <2>2, <2>3, PlObjectTakes DEF AskedAndNamed
  <2>5. \E n : PlFits(c, n) /\ call' = [call EXCEPT ![c] = n]
    BY <1>1, <1>6, PlEnds, PlGoes DEF PlPositions
  <2>6. PlTurnTaken(c)
    BY <1>1, <2>5, PlFitTurn
  <2>7. runs' \in [PlBridges -> {NoObject} \cup PlObjects] /\ leased' \in BOOLEAN
    BY <1>2, <1>6
  <2>8. QED
    BY <1>1, <1>2, <2>1, <2>4, <2>6, <2>7, PlRecordStep
<1>7. QED
  BY <1>5, <1>6 DEF ClaimRecord

LEMMA PlActivateStep ==
    ASSUME PlInv, NEW c \in Ids, ActivateChildren(c)
    PROVE  PlInv'
<1> DEFINE k == call[c].obj
           h == [Mine(c) EXCEPT !.status = "running", !.rev = @ + 1]
<1>1. /\ Under(c) /\ EndCall(c)
      /\ UNCHANGED <<plan, instance, running, journal, merged, edits, source, permitted>>
  BY DEF ActivateChildren, Under
<1>2. PlTurnTaken(c)
  BY <1>1, PlEnds, PlFitTurn
<1>3. /\ k \in PlObjects /\ row \in PlRows /\ Mine(c) \in PlRows /\ AskedAndNamed(Mine(c)) /\ AskedAndNamed(row)
      /\ At(c) \in PlBridges /\ runs \in [PlBridges -> {NoObject} \cup PlObjects] /\ leased \in BOOLEAN
      /\ heap \in [PlObjects -> PlRows] /\ journal \in [Ids -> PlJournal]
  BY <1>1, PlItemOf DEF PlInv, PlTyped, PlCallSound, Mine, PlHonest
<1>4. CASE UNCHANGED <<row, heap, runs, leased>>
  <2>1. PlRecordsStay /\ merged' = merged
    BY <1>1, <1>4 DEF PlRecordsStay
  <2>2. PlFenced' /\ PlHonest'
    BY <2>1, PlRecordsKept
  <2>3. QED
    BY <1>1, <1>2, <1>3, <1>4, <2>2, PlRecordStep
<1>5. CASE /\ PlAccepted(c) /\ row' = h /\ heap' = [heap EXCEPT ![k] = row']
           /\ runs' = [runs EXCEPT ![At(c)] = k] /\ leased' = TRUE
  <2>1. Mine(c).rev + 1 \in Nat /\ "running" \in Statuses /\ h = [Mine(c) EXCEPT !.status = "running", !.rev = Mine(c).rev + 1]
    BY <1>3 DEF PlRows, Statuses
  <2>2. /\ h \in PlRows /\ h.gen = Mine(c).gen /\ h.owner = Mine(c).owner
        /\ h.asked = Mine(c).asked /\ h.auth = Mine(c).auth
    BY <1>3, <2>1 DEF PlRows
  <2> HIDE DEF h
  <2>3. heap' \in [PlObjects -> PlRows] /\ PlFenced' /\ PlHonest'
    BY <1>1, <1>3, <1>5, <2>2, PlObjectTakes DEF PlAccepted, AskedAndNamed
  <2>4. runs' \in [PlBridges -> {NoObject} \cup PlObjects] /\ leased' \in BOOLEAN /\ row' \in PlRows
    BY <1>3, <1>5, <2>2
  <2>5. QED
    BY <1>1, <1>2, <1>3, <2>3, <2>4, PlRecordStep
<1>6. QED
  BY <1>4, <1>5 DEF ActivateChildren

LEMMA PlWriteRecordStep ==
    ASSUME PlInv, NEW c \in Ids, WriteRecord(c)
    PROVE  PlInv'
<1> DEFINE k == call[c].obj
           o == Mine(c)
           n == [Patched(c, o) EXCEPT !.rev = o.rev + 1]
<1>1. /\ call[c].pc = "write" /\ Under(c) /\ Late(c)
      /\ UNCHANGED <<plan, running, runs, merged, edits, source>>
  BY DEF WriteRecord, Under, Late
<1>2. /\ k \in PlObjects /\ row \in PlRows /\ o \in PlRows /\ AskedAndNamed(o) /\ AskedAndNamed(row)
      /\ runs \in [PlBridges -> {NoObject} \cup PlObjects] /\ leased \in BOOLEAN
      /\ heap \in [PlObjects -> PlRows] /\ journal \in [Ids -> PlJournal] /\ PlCallSound(c) /\ call[c] \in PlTurns
  BY <1>1, PlTurnOf DEF PlInv, PlTyped, PlCallSound, Mine, PlHonest
<1> HIDE DEF o
<1>3. ASSUME NEW pc \in {"refresh", "reconcile", "check", "apply", "capture", "done", "unwind"}, Moved(c, pc),
             pc = "capture" => Kind(c) = "finalize", permitted \subseteq permitted'
      PROVE  PlTurnTaken(c)
  <2>1. \E m : PlFits(c, m) /\ call' = [call EXCEPT ![c] = m]
    <3>1. CASE pc = "done"
      BY <1>1, <1>3, <3>1, PlEnds DEF Moved
    <3>2. CASE pc \in {"refresh", "reconcile"}
      <4>1. WriteNext(c, pc, "") /\ pc \in PlPatches /\ "" \in PlValues
        BY <1>3, <3>2 DEF Moved, PlPatches, PlValues
      <4>2. QED
        BY <1>1, <3>2, <4>1, PlWritesNext
    <3>3. CASE pc \in {"check", "apply", "capture", "unwind"}
      <4>1. PlGo(c, pc) /\ pc \in PlPositions
        BY <1>3, <3>3 DEF Moved, PlPositions
      <4>2. QED
        BY <1>1, <1>3, <3>3, <4>1, PlGoes
    <3>4. QED
      BY <1>3, <3>1, <3>2, <3>3
  <2>2. QED
    BY <1>1, <1>3, <2>1, PlFitTurn
<1>4. CASE EndRefused(c) /\ UNCHANGED <<durable, heap>>
  <2>1. EndCall(c) /\ journal' \in [Ids -> PlJournal]
    BY <1>2, <1>4 DEF EndRefused, PlJournal
  <2>2. PlTurnTaken(c)
    BY <1>1, <1>4, <2>1, PlEnds, PlFitTurn DEF durable
  <2>3. PlFenced' /\ PlHonest'
    BY <1>1, <1>4, PlRecordsKept DEF PlRecordsStay, durable
  <2>4. QED
    BY <1>1, <1>2, <1>4, <2>1, <2>2, <2>3, PlRecordStep DEF durable
<1>5. CASE Quiet(c, o) /\ Moved(c, AfterWrite(c)) /\ UNCHANGED <<durable, heap, journal>>
  <2>1. AfterWrite(c) \in {"refresh", "reconcile", "check", "done"}
    BY <1>5 DEF Quiet, AfterWrite
  <2>2. PlTurnTaken(c)
    BY <1>3, <1>5, <2>1 DEF durable
  <2>3. PlFenced' /\ PlHonest'
    BY <1>1, <1>5, PlRecordsKept DEF PlRecordsStay, durable
  <2>4. QED
    BY <1>1, <1>2, <1>5, <2>2, <2>3, PlRecordStep DEF durable
<1>6. CASE /\ PlAccepted(c) /\ row' = n /\ leased' = TRUE /\ heap' = [heap EXCEPT ![k] = n]
           /\ permitted' = (IF call[c].patch = "authorize" THEN permitted \cup n.auth ELSE permitted)
           /\ Moved(c, AfterWrite(c)) /\ UNCHANGED <<instance, journal>>
  <2> DEFINE q == Patched(c, o)
  <2>1. /\ PlSame(q, o) /\ q.asked \subseteq merged
        /\ call[c].patch # "authorize" => q.auth \subseteq permitted
        /\ call[c].patch = "authorize" => q.auth = {i \in PlItems : call[c].out[i] = "authorized"}
    BY <1>1, <1>2, PlPatchedIs
  <2> HIDE DEF q
  <2>2. /\ n \in PlRows /\ n.gen = o.gen /\ n.owner = o.owner /\ n.asked = q.asked /\ n.auth = q.auth
    <3>1. q \in PlRows /\ n = [q EXCEPT !.rev = o.rev + 1] /\ o.rev + 1 \in Nat
      BY <1>2, <2>1 DEF PlSame, PlRows, q
    <3>2. QED
      BY <2>1, <3>1 DEF PlSame, PlRows
  <2> HIDE DEF n
  <2>3. permitted \subseteq permitted' /\ n.auth \subseteq permitted'
    BY <1>6, <2>1, <2>2
  <2>4. row.owner = o.owner /\ row.gen = o.gen
    BY <1>6 DEF PlAccepted, o
  <2>5. heap' \in [PlObjects -> PlRows] /\ PlFenced' /\ PlHonest'
    BY <1>1, <1>2, <1>6, <2>1, <2>2, <2>3, <2>4, PlObjectTakes
  <2>6. CASE call[c].patch # "authorize"
    <3>1. /\ AfterWrite(c) \in {"refresh", "reconcile", "check", "apply", "capture", "done"}
          /\ AfterWrite(c) = "capture" => call[c].patch = "finalizing"
      BY <2>6 DEF AfterWrite
    <3>2. AfterWrite(c) = "capture" => Kind(c) = "finalize"
      BY <1>1, <1>2, <3>1 DEF PlCallSound, Judging
    <3>3. PlTurnTaken(c)
      BY <1>3, <1>6, <2>3, <3>1, <3>2
    <3>4. QED
      BY <1>1, <1>2, <1>6, <2>2, <2>5, <3>3, PlRecordStep
  <2>7. CASE call[c].patch = "authorize"
    <3> DEFINE m == [call[c] EXCEPT !.pc = "remove"]
    <3>1. call' = [call EXCEPT ![c].pc = "remove"]
      BY <1>6, <2>7 DEF AfterWrite, Moved, PlGo
    <3>2. /\ m \in PlTurns /\ m.pc = "remove" /\ m.obj = call[c].obj /\ m.value = call[c].value
          /\ m.out = call[c].out /\ call' = [call EXCEPT ![c] = m]
      BY <1>2, <3>1 DEF PlTurns, PlPositions, PlInv, PlTyped
    <3> HIDE DEF m
    <3>3. \A i \in PlItems : m.out[i] = "authorized" => i \in merged /\ i \in permitted'
      BY <1>2, <2>1, <2>2, <2>3, <2>7, <3>2 DEF PlCallSound
    <3>4. Kind(c) = "finalize"
      BY <1>1, <1>2, <2>7 DEF PlCallSound, Judging
    <3>5. PlFits(c, m)
      BY <1>1, <1>2, <3>2, <3>3, <3>4 DEF PlFits, PlCallSound
    <3>6. PlTurnTaken(c)
      BY <1>1, <2>3, <3>2, <3>5, PlFitTurn
    <3>7. QED
      BY <1>1, <1>2, <1>6, <2>2, <2>5, <3>6, PlRecordStep
  <2>8. QED
    BY <2>6, <2>7
<1>7. CASE /\ heap' = IF o.owner # At(c) THEN heap
                         ELSE [heap EXCEPT ![k] = [o EXCEPT !.status = row.status, !.rev = row.rev,
                                                            !.gen = row.gen, !.owner = row.owner]]
           /\ Moved(c, AfterFailure(c)) /\ UNCHANGED <<durable, journal>>
  <2> DEFINE h == [o EXCEPT !.status = row.status, !.rev = row.rev, !.gen = row.gen, !.owner = row.owner]
  <2>1. AfterFailure(c) \in {"unwind", "done"}
    BY DEF AfterFailure
  <2>2. PlTurnTaken(c)
    BY <1>3, <1>7, <2>1 DEF durable
  <2>3. /\ h \in PlRows /\ h.gen = row.gen /\ h.owner = row.owner
        /\ h.asked = o.asked /\ h.auth = o.auth
    BY <1>2 DEF PlRows
  <2>4. heap' = heap \/ heap' = [heap EXCEPT ![k] = h]
    BY <1>7
  <2> HIDE DEF h
  <2>5. row' = row /\ permitted' = permitted /\ leased' = leased /\ instance' = instance
    BY <1>7 DEF durable
  <2>6. heap' \in [PlObjects -> PlRows] /\ PlFenced' /\ PlHonest'
    <3>1. CASE heap' = heap
      <4>1. PlRecordsStay
        BY <1>1, <2>5, <3>1 DEF PlRecordsStay
      <4>2. QED
        BY <1>1, <1>2, <3>1, <4>1, PlRecordsKept
    <3>2. CASE heap' = [heap EXCEPT ![k] = h]
      BY <1>1, <1>2, <2>3, <2>5, <3>2, PlObjectTakes DEF AskedAndNamed
    <3>3. QED
      BY <2>4, <3>1, <3>2
  <2>7. QED
    BY <1>1, <1>2, <1>7, <2>2, <2>5, <2>6, PlRecordStep
<1>8. QED
  BY <1>4, <1>5, <1>6, <1>7 DEF WriteRecord, o

LEMMA PlStepKeeps == PlInv /\ [PipelinesNext]_pipelinevars => PlInv'
<1> SUFFICES ASSUME PlInv, [PipelinesNext]_pipelinevars PROVE PlInv'
  OBVIOUS
<1>1. CASE UNCHANGED pipelinevars
  <2>1. Ids' = Ids /\ (\A c \in Ids : call'[c] = call[c]) /\ row \in PlRows
    BY <1>1 DEF pipelinevars, Ids, PlInv, PlTyped
  <2>2. QED
    BY <1>1, <2>1, PlWorldKeeps DEF pipelinevars, PlInv, PlTyped
<1>2. ASSUME NEW c \in Ids, PipelineStep(c) PROVE PlInv'
  <2>1. CASE ReadRecord(c)
    BY <2>1, PlReadRecordStep
  <2>2. CASE ClaimRecord(c)
    BY <2>2, PlClaimRecordStep
  <2>3. CASE WriteRecord(c)
    BY <2>3, PlWriteRecordStep
  <2>4. CASE ActivateChildren(c)
    BY <2>4, PlActivateStep
  <2>5. CASE \/ StartPipeline(c) \/ BeginCall(c) \/ CheckItem(c) \/ LockRepository(c) \/ PrepareOperation(c)
             \/ ApplyPatch(c) \/ UnwindOperation(c) \/ CheckAbandon(c) \/ OpenFinalization(c)
             \/ CheckFinalization(c) \/ CheckPolicy(c) \/ CaptureTarget(c) \/ Validate(c) \/ RunGates(c)
             \/ RecheckTarget(c) \/ ConsiderSources(c) \/ RemoveSource(c) \/ ResumeCleanup(c) \/ LockLapses(c)
    <3>1. PlQuietTurn(c)
      BY <2>5, PlStartPipelineQuiet, PlBeginCallQuiet, PlCheckItemQuiet, PlLockRepositoryQuiet,
         PlPrepareOperationQuiet, PlApplyPatchQuiet, PlUnwindOperationQuiet, PlCheckAbandonQuiet,
         PlOpenFinalizationQuiet, PlCheckFinalizationQuiet, PlCheckPolicyQuiet, PlCaptureTargetQuiet,
         PlValidateQuiet, PlRunGatesQuiet, PlRecheckTargetQuiet, PlConsiderSourcesQuiet, PlRemoveSourceQuiet,
         PlResumeCleanupQuiet, PlLockLapsesQuiet
    <3>2. QED
      BY <3>1, PlQuietKeeps
  <2>6. QED
    BY <1>2, <2>1, <2>2, <2>3, <2>4, <2>5 DEF PipelineStep
<1>3. QED
  BY <1>1, <1>2, PlWorldStep DEF PipelinesNext

LEMMA PlInvSuffices == PlInv => SourcesKept
<1> SUFFICES ASSUME PlInv PROVE SourcesKept
  OBVIOUS
<1>1. PlTypeOK
  <2>1. \A c \in Ids : call[c].pc # "idle" /\ call[c].pc # "done" => call[c].obj \in 0..Len(plan)
    BY DEF PlInv, PlCallSound, Under, PlObjects
  <2>2. QED
    BY <2>1 DEF PlInv, PlTyped, PlTypeOK, PlRows, PlJournal
<1>2. OneCleaner
  <2> SUFFICES ASSUME NEW c \in Ids, NEW d \in Ids, call[c].pc = "remove", call[d].pc = "remove",
                      Mine(c).owner = At(c), Mine(d).owner = At(d), Kind(c) = Kind(d), Mine(c).gen = Mine(d).gen
               PROVE  c = d
    BY DEF OneCleaner
  <2>1. Under(c) /\ Late(c) /\ Under(d) /\ Late(d)
    BY DEF Under, Late
  <2>2. call[c].obj \in PlObjects /\ call[d].obj \in PlObjects /\ Kind(c) \in {"finalize", "recover"}
    BY <2>1 DEF PlInv, PlCallSound
  <2>3. At(c) = At(d)
    BY <2>2 DEF PlInv, PlFenced, Mine
  <2>4. QED
    BY <2>1, <2>2, <2>3 DEF PlInv, PlAlone
<1>3. QED
  BY <1>1, <1>2 DEF PlInv, SourcesKept

(* Whatever finalizers, recoveries, crashes and lapsed leases do on a        *)
(* pipeline, a source is removed only when it was integrated and a user      *)
(* permitted it, and two clean-ups of one kind never run on one claim        *)
(* (finalizePipeline, recoverPipelineCleanup).                               *)
THEOREM PipelineSourcesKept == PipelinesSpec => []SourcesKept
<1>1. PipelinesInit => PlInv
  BY PlInitInv, PlAssumption
<1>2. PlInv /\ [PipelinesNext]_pipelinevars => PlInv'
  BY PlStepKeeps
<1>3. PlInv => SourcesKept
  BY PlInvSuffices
<1>4. QED
  BY <1>1, <1>2, <1>3, PTL DEF PipelinesSpec

-----------------------------------------------------------------------------
(* What the order of the calls rests on.  Every item that counts as         *)
(* integrated has a call that committed it in the journal.                  *)
Committed(i) == \E d \in Ids : Kind(d) = "integrate" /\ plan[d].item = i /\ journal[d] = "committed"
AllCommitted == \A i \in PlItems : Committed(i)
SomeDoubled == \E c \in Ids : Doubled(c)
InCleanup == {"cleanup_pending", "cleanup_failed"}
Applied == {"applied", "applied_and_asked"}
Writes(c, patches) == call[c].pc = "write" /\ call[c].patch \in patches

RecordSound(r) ==
    /\ r.status \in InCleanup => AllCommitted
    /\ \A i \in PlItems :
         /\ r.by[i] # 0 => r.by[i] \in Ids /\ Kind(r.by[i]) = "integrate" /\ plan[r.by[i]].item = i
         /\ r.item[i] = "integrated" => Committed(i)
         /\ r.item[i] # "planned" => kids = "completed"
RecordsSound == RecordSound(row) /\ \A o \in PlObjects : RecordSound(heap[o])

(* Where a call stands says what it has behind it.                          *)
AtItem(c) == call[c].pc \in {"lock", "prepare", "apply", "unwind"} \/ Writes(c, {"reserve", "result"})
ItemPlaced(c) ==
    /\ AtItem(c) => Kind(c) = "integrate" /\ kids = "completed"
    /\ journal[c] # "none" => Kind(c) = "integrate" /\ call[c].pc # "idle"
    /\ journal[c] = "committed" =>
         plan[c].item \in merged /\ (call[c].pc = "done" \/ (Writes(c, {"result"}) /\ call[c].value \in Applied))
    /\ Writes(c, {"result"}) /\ call[c].value \in Applied => journal[c] = "committed"
StartPlaced(c) ==
    /\ Kind(c) = "run" /\ Under(c) /\ kids # "none" => StartedTwice
    /\ Writes(c, {"set"}) => Kind(c) \in {"run", "finalize"} /\ (Kind(c) = "run" => call[c].value = "failed")
PastGates(c) ==
    \/ call[c].pc \in {"policy", "capture", "validate", "gates", "recheck", "sources", "remove", "resume"}
    \/ Writes(c, {"finalizing", "authorize", "finish", "retain"})
    \/ Writes(c, {"set"}) /\ call[c].value = "failed" /\ Kind(c) = "finalize"
    \/ Under(c) /\ Cleans(c)
GatePlaced(c) ==
    /\ PastGates(c) => AllCommitted /\ Kind(c) \in {"finalize", "recover"}
    /\ Writes(c, {"retain"}) \/ call[c].pc = "resume" => Kind(c) = "recover"
    /\ Writes(c, {"defer"}) => Kind(c) = "finalize"
VersionPlaced(c) ==
    Kind(c) = "finalize" =>
      /\ call[c].pc \in {"validate", "gates", "recheck"} =>
           call[c].ver.merged = PlItems /\ call[c].ver.edits <= edits
      /\ call[c].pc = "recheck" =>
           /\ call[c].saw.merged = PlItems
           /\ call[c].ver.edits <= call[c].saw.edits /\ call[c].saw.edits <= edits
      /\ call[c].pc \in {"sources", "remove"} \/ Writes(c, {"authorize", "finish"}) =>
           call[c].saw = call[c].ver /\ call[c].ver.merged = PlItems
RecoveryPlaced(c) ==
    Kind(c) = "recover" /\ Under(c) =>
      /\ call[c].obj = c
      /\ call[c].pc = "claim" /\ Cleans(c) /\ ~leased => row.status \in InCleanup
Placed(c) == ItemPlaced(c) /\ StartPlaced(c) /\ GatePlaced(c) /\ VersionPlaced(c) /\ RecoveryPlaced(c)
Started == kids # "none" /\ (\E d \in Ids : Kind(d) = "run") => \E d \in Ids : Kind(d) = "run"
  /\ call[d].pc # "idle"

(* A record object is of the row's revision only with the row's content,    *)
(* and a call that has not claimed yet shares its own with nobody.          *)
Private(e) == call[e].pc = "idle" \/ (Kind(e) = "recover" /\ call[e].pc = "claim")
ObjectsApart ==
    \A e \in Ids : Private(e) => /\ \A d \in Ids \ {e} : Under(d) => call[d].obj # e
                                 /\ \A b \in PlBridges : runs[b] # e
Revisions == \A o \in PlObjects : heap[o].rev <= row.rev
Synced == torn \/ \A c \in Ids : Under(c) /\ Mine(c).rev = row.rev => Mine(c) = row

(* What the row says while a call applies a patch, while an abandonment     *)
(* holds, and while a recovery cleans up.                                   *)
ApplyHolds(c) ==
    call[c].pc = "apply" /\ journal[c] = "prepared" =>
      \/ torn \/ Doubled(c) \/ StartedTwice
      \/ row.status \notin Closed /\ row.item[plan[c].item] = "integrating" /\ row.by[plan[c].item] = c
Committing(c) == \/ call[c].pc \in {"capture", "validate", "gates", "recheck", "sources"}
                 \/ Writes(c, {"authorize", "finish"})
PromiseSafe(c) ==
    /\ call[c].pc # "remove" /\ (Kind(c) = "recover" => call[c].pc \in {"idle", "claim", "done"})
    /\ Kind(c) = "finalize" /\ Committing(c) => Mine(c).rev # row.rev
PromiseHolds ==
    torn \/ promised = {} \/ (row.status = "cancelled" /\ AbandonedKept /\ \A c \in Ids : PromiseSafe(c))
Cleaning(c) ==
    /\ Kind(c) = "recover"
    /\ call[c].pc \in {"resume", "remove"} \/ (call[c].pc = "opened" /\ Cleans(c))
         \/ Writes(c, {"finish", "retain"})
Harmless(d) ==
    /\ Kind(d) # "integrate"
    /\ Kind(d) = "finalize" => call[d].pc \in {"claim", "opened", "check"}
         \/ Writes(d, {"refresh", "reconcile", "note"})
CleanHolds(c) ==
    Cleaning(c) /\ ~torn /\ ~SomeDoubled =>
      /\ Mine(c).status \in InCleanup \cup Closed
      /\ \A d \in Ids \ {c} : Under(d) /\ call[d].obj = call[c].obj => Harmless(d)

PlOrder ==
    /\ RecordsSound /\ Revisions /\ Synced /\ ObjectsApart /\ Started /\ PromiseHolds
    /\ torn \in BOOLEAN /\ promised \subseteq PlItems
    /\ \A c \in Ids : Placed(c) /\ ApplyHolds(c) /\ CleanHolds(c)

LEMMA PlOrderInit == PipelinesInit /\ PlAssumption => PlOrder
<1> SUFFICES ASSUME PipelinesInit, PlAssumption PROVE PlOrder
  OBVIOUS
<1>1. PlInv
  BY PlInitInv
<1>2. /\ \A c \in Ids : call[c] = IdleCall /\ journal[c] = "none"
      /\ \A o \in PlObjects : heap[o] = row
      /\ row \in PlRows /\ row.rev = 0 /\ torn = FALSE /\ promised = {}
      /\ \A i \in PlItems : row.by[i] = 0 /\ row.item[i] \in {"planned", "pending"}
      /\ row.status \in {"planned", "awaiting_integration"}
  BY <1>1 DEF PipelinesInit, PlObjects, PlInv, PlTyped
<1>3. \A i \in PlItems : row.item[i] # "planned" => kids = "completed"
  BY <1>2 DEF PipelinesInit
<1>4. kids # "none" => ~ \E d \in Ids : Kind(d) = "run"
  BY DEF PipelinesInit
<1>5. \A c \in Ids : call[c].pc = "idle" /\ ~Under(c)
  <2>1. IdleCall.pc = "idle"
    BY DEF IdleCall
  <2>2. QED
    BY <1>2, <2>1 DEF Under
<1>6. \A c \in Ids : Placed(c) /\ ApplyHolds(c) /\ CleanHolds(c)
  BY <1>2, <1>5
    DEF Placed, ItemPlaced, AtItem, StartPlaced, GatePlaced, PastGates, VersionPlaced, RecoveryPlaced,
     ApplyHolds, CleanHolds, Cleaning, Writes
<1>7. RecordsSound /\ Revisions
  BY <1>2, <1>3 DEF RecordsSound, RecordSound, Revisions, InCleanup, PlRows
<1>8. \A e \in Ids, b \in PlBridges : runs[b] # e
  <2>1. \A e \in Ids : e \in Nat \ {0}
    BY <1>1 DEF PlInv, PlTyped, Ids
  <2>2. \A b \in PlBridges : runs[b] \in {0, NoObject}
    BY DEF PipelinesInit
  <2>3. QED
    BY <2>1, <2>2
<1>9. QED
  BY <1>2, <1>4, <1>5, <1>6, <1>7, <1>8 DEF PlOrder, Synced, ObjectsApart, Started, PromiseHolds

(* A journal entry is settled once, and only its own call opens it.         *)
JournalMoves(c) ==
    /\ \A d \in Ids : journal[d] = "committed" => journal'[d] = "committed"
    /\ \A d \in Ids \ {c} : journal'[d] \in {"prepared", "committed"} => journal'[d] = journal[d]
    /\ \A d \in Ids \ {c} : journal[d] = "none" => journal'[d] = "none"
OnlyTurns(c) ==
    /\ plan' = plan /\ Ids' = Ids /\ call'[c].pc # "idle" /\ \A d \in Ids \ {c} : call'[d] = call[d]
    /\ merged \subseteq merged' /\ edits' = edits /\ JournalMoves(c)
    /\ kids' = kids \/ (kids = "none" /\ kids' = "active" /\ Kind(c) = "run" /\ Under(c))

(* What the turn of one call leaves as it was.                              *)
LEMMA PlHistoryGrows ==
    ASSUME PlOrder, NEW c \in Ids, OnlyTurns(c)
    PROVE  /\ \A i \in PlItems : Committed(i) => Committed(i)'
           /\ AllCommitted => AllCommitted'
           /\ StartedTwice => StartedTwice'
           /\ \A d \in Ids : Doubled(d) => Doubled(d)'
           /\ SomeDoubled => SomeDoubled'
<1>1. \A d \in Ids : Kind(d)' = Kind(d) /\ plan'[d] = plan[d] /\ (call[d].pc # "idle" => call'[d].pc # "idle")
  BY DEF OnlyTurns, Kind
<1>2. \A i \in PlItems : Committed(i) => Committed(i)'
  BY <1>1 DEF OnlyTurns, JournalMoves, Committed
<1>3. StartedTwice => StartedTwice'
  BY <1>1 DEF OnlyTurns, StartedTwice
<1>4. \A d \in Ids : Doubled(d) => Doubled(d)'
  BY <1>1 DEF OnlyTurns, Doubled
<1>5. QED
  BY <1>2, <1>3, <1>4 DEF AllCommitted, SomeDoubled, OnlyTurns

LEMMA PlOthersPlaced ==
    ASSUME PlOrder, NEW c \in Ids, OnlyTurns(c)
    PROVE  /\ \A d \in Ids \ {c} : ItemPlaced(d)' /\ StartPlaced(d)' /\ GatePlaced(d)' /\ VersionPlaced(d)'
           /\ Started'
<1>1. \A d \in Ids : Kind(d)' = Kind(d) /\ plan'[d] = plan[d]
  BY DEF OnlyTurns, Kind
<1>2. ASSUME NEW d \in Ids \ {c}
      PROVE  ItemPlaced(d)' /\ StartPlaced(d)' /\ GatePlaced(d)' /\ VersionPlaced(d)'
  <2>1. /\ call'[d] = call[d] /\ Placed(d) /\ Kind(d)' = Kind(d) /\ plan'[d] = plan[d]
        /\ kids = "completed" => kids' = "completed"
    BY <1>1, <1>2 DEF OnlyTurns, PlOrder
  <2>2. ItemPlaced(d)'
    BY <1>2, <2>1 DEF Placed, ItemPlaced, AtItem, Writes, OnlyTurns, JournalMoves
  <2>3. StartPlaced(d)'
    <3>1. CASE kids' = kids
      BY <2>1, <3>1, PlHistoryGrows DEF Placed, StartPlaced, Under, Writes
    <3>2. CASE Kind(c) = "run" /\ Under(c)
      <4>1. Kind(d) = "run" /\ Under(d) => StartedTwice
        BY <1>2, <3>2 DEF StartedTwice, Under
      <4>2. QED
        BY <2>1, <4>1, PlHistoryGrows DEF Placed, StartPlaced, Under, Writes
    <3>3. QED
      BY <3>1, <3>2 DEF OnlyTurns
  <2>4. GatePlaced(d)'
    BY <2>1, PlHistoryGrows DEF Placed, GatePlaced, PastGates, Under, Writes, Cleans
  <2>5. VersionPlaced(d)'
    BY <2>1 DEF Placed, VersionPlaced, Writes, OnlyTurns
  <2>6. QED
    BY <2>2, <2>3, <2>4, <2>5
<1>3. Started'
  <2>1. CASE kids' = kids
    BY <1>1, <2>1 DEF PlOrder, Started, OnlyTurns
  <2>2. CASE Kind(c) = "run"
    BY <1>1, <2>2 DEF Started, OnlyTurns
  <2>3. QED
    BY <2>1, <2>2 DEF OnlyTurns
<1>4. QED
  BY <1>2, <1>3

(* A turn that leaves the row and the record objects alone.                 *)
Orderly(c) ==
    /\ PlQuietTurn(c) /\ OnlyTurns(c) /\ UNCHANGED <<kids, promised, torn>>
    /\ Under(c) /\ call[c].pc # "claim" /\ call'[c].pc \notin {"claim", "apply"}
    /\ call'[c].pc = "done" \/ call'[c].obj = call[c].obj
    /\ ItemPlaced(c)' /\ StartPlaced(c)' /\ GatePlaced(c)' /\ VersionPlaced(c)'
    /\ call'[c].pc = "remove" => call[c].pc \in {"resume", "remove"}
    /\ Kind(c) = "finalize" /\ Committing(c)' => Committing(c) \/ call[c].pc = "remove"
    /\ Cleaning(c)' => Cleaning(c)
    /\ Harmless(c) /\ Under(c)' => Harmless(c)'
         \/ (call[c].pc = "check" /\ Mine(c).status \notin InCleanup \cup Closed)
    /\ call[c].pc = "remove" \/ source' = source

LEMMA PlOrderlyKeeps ==
    ASSUME PlInv, PlOrder, NEW c \in Ids, Orderly(c)
    PROVE  PlOrder'
<1>1. /\ UNCHANGED <<plan, row, heap, runs, leased, kids, promised, torn>> /\ Ids' = Ids /\ PlObjects' = PlObjects
      /\ \A d \in Ids : Kind(d)' = Kind(d)
      /\ \A d \in Ids \ {c} : call'[d] = call[d]
  BY DEF Orderly, PlQuietTurn, PlRecordsStay, OnlyTurns, PlObjects, Kind
<1>2. \A d \in Ids \ {c} : Under(d)' = Under(d) /\ Mine(d)' = Mine(d) /\ Cleaning(d)' = Cleaning(d)
                           /\ Committing(d)' = Committing(d) /\ Harmless(d)' = Harmless(d)
                                /\ Private(d)' = Private(d)
  BY <1>1 DEF Under, Mine, Cleaning, Committing, Harmless, Private, Writes, Cleans
<1>3. /\ Under(c) /\ (call'[c].pc = "done" \/ (Mine(c)' = Mine(c) /\ call'[c].obj = call[c].obj))
      /\ ~Private(c)' /\ ~Private(c)
  BY <1>1 DEF Orderly, Mine, Private, OnlyTurns, Under
<1>4. RecordsSound' /\ Revisions'
  BY <1>1, PlHistoryGrows DEF PlOrder, RecordsSound, RecordSound, Revisions, Orderly
<1>5. Synced'
  BY <1>1, <1>2, <1>3 DEF PlOrder, Synced, Under
<1>6. ObjectsApart'
  BY <1>1, <1>2, <1>3 DEF PlOrder, ObjectsApart, Under
<1>7. Started' /\ \A d \in Ids \ {c} : ItemPlaced(d)' /\ StartPlaced(d)' /\ GatePlaced(d)' /\ VersionPlaced(d)'
  BY PlOthersPlaced DEF Orderly
<1>8. \A d \in Ids : Placed(d)'
  <2>1. ASSUME NEW d \in Ids PROVE RecoveryPlaced(d)'
    <3>1. CASE d = c
      BY <1>1, <1>3, <3>1 DEF PlOrder, Placed, RecoveryPlaced, Orderly, Under
    <3>2. CASE d # c
      BY <1>1, <3>2 DEF PlOrder, Placed, RecoveryPlaced, Under, Cleans
    <3>3. QED
      BY <3>1, <3>2
  <2>2. QED
    BY <1>7, <2>1 DEF Placed, Orderly
<1>9. \A d \in Ids : ApplyHolds(d)'
  <2>1. ASSUME NEW d \in Ids \ {c} PROVE ApplyHolds(d)'
    <3>1. journal'[d] = "prepared" => journal[d] = "prepared"
      BY DEF Orderly, OnlyTurns, JournalMoves
    <3>2. QED
      BY <1>1, <3>1, PlHistoryGrows DEF PlOrder, ApplyHolds, Orderly
  <2>2. ApplyHolds(c)'
    BY DEF ApplyHolds, Orderly
  <2>3. QED
    BY <2>1, <2>2
<1>10. PromiseHolds'
  <2>1. CASE torn \/ promised = {}
    BY <1>1, <2>1 DEF PromiseHolds
  <2>2. CASE row.status = "cancelled" /\ AbandonedKept /\ \A d \in Ids : PromiseSafe(d)
    <3>1. AbandonedKept'
      BY <1>1, <2>2 DEF AbandonedKept, PromiseSafe, Orderly
    <3>2. PromiseSafe(c)'
      <4>1. Kind(c) # "recover"
        BY <1>3, <2>2 DEF PromiseSafe, Orderly, Under
      <4>2. call[c].pc # "remove" /\ call'[c].pc # "remove"
        BY <2>2, <4>1 DEF PromiseSafe, Orderly, PlOrder, Placed, GatePlaced
      <4>3. Kind(c) = "finalize" /\ Committing(c)' => Mine(c)' = Mine(c) /\ Committing(c)
        BY <1>3, <4>2 DEF Orderly, Committing, Writes
      <4>4. QED
        BY <1>1, <2>2, <4>1, <4>2, <4>3 DEF PromiseSafe
    <3>3. ASSUME NEW d \in Ids \ {c} PROVE PromiseSafe(d)'
      BY <1>1, <1>2, <2>2 DEF PromiseSafe
    <3>4. QED
      BY <1>1, <2>2, <3>1, <3>2, <3>3 DEF PromiseHolds
  <2>3. QED
    BY <2>1, <2>2 DEF PlOrder, PromiseHolds
<1>11. \A e \in Ids : CleanHolds(e)'
  <2> SUFFICES ASSUME NEW e \in Ids, Cleaning(e)', ~torn', ~SomeDoubled' PROVE CleanHolds(e)'
    BY DEF CleanHolds
  <2>1. ~torn /\ ~SomeDoubled /\ Cleaning(e) /\ CleanHolds(e)
    BY <1>1, <1>2, PlHistoryGrows DEF Orderly, PlOrder
  <2>2. Mine(e)' = Mine(e) /\ call'[e].obj = call[e].obj
    BY <1>1, <1>2, <1>3 DEF Cleaning, Writes
  <2>3. ASSUME NEW d \in Ids \ {e}, Under(d)', call'[d].obj = call'[e].obj PROVE Harmless(d)'
    <3>1. CASE d # c
      BY <1>1, <1>2, <2>1, <2>2, <2>3, <3>1 DEF CleanHolds
    <3>2. CASE d = c
      <4>1. Under(c) /\ call[c].obj = call[e].obj /\ Harmless(c)
        BY <1>3, <2>1, <2>2, <2>3, <3>2 DEF CleanHolds, Under
      <4>2. Mine(c).status \in InCleanup \cup Closed
        BY <2>1, <4>1 DEF CleanHolds, Mine
      <4>3. QED
        BY <2>3, <3>2, <4>1, <4>2 DEF Orderly
    <3>3. QED
      BY <3>1, <3>2
  <2>4. QED
    BY <1>1, <2>1, <2>2, <2>3 DEF CleanHolds
<1>12. QED
  BY <1>1, <1>4, <1>5, <1>6, <1>7, <1>8, <1>9, <1>10, <1>11 DEF PlOrder

(* Where a turn stands after it ended, went on or has a write to do.        *)
TurnIs(c, pc, patch, value) ==
    /\ call'[c].pc = pc /\ call'[c].patch = patch /\ call'[c].value = value
    /\ call'[c].obj = call[c].obj /\ call'[c].ver = call[c].ver /\ call'[c].saw = call[c].saw
LEMMA PlTurnFields ==
    ASSUME PlInv, NEW c \in Ids
    PROVE  /\ EndCall(c) => call'[c].pc = "done"
           /\ \A pc : PlGo(c, pc) => TurnIs(c, pc, call[c].patch, call[c].value)
           /\ \A patch, value : WriteNext(c, patch, value) => TurnIs(c, "write", patch, value)
<1>1. call \in [Ids -> PlTurns] /\ call[c] \in PlTurns
  BY DEF PlInv, PlTyped
<1>2. EndCall(c) => call'[c].pc = "done"
  <2>1. [IdleCall EXCEPT !.pc = "done"].pc = "done"
    BY DEF IdleCall
  <2>2. QED
    BY <1>1, <2>1 DEF EndCall
<1>3. \A pc : PlGo(c, pc) => TurnIs(c, pc, call[c].patch, call[c].value)
  BY <1>1 DEF PlGo, TurnIs, PlTurns
<1>4. \A patch, value : WriteNext(c, patch, value) => TurnIs(c, "write", patch, value)
  BY <1>1 DEF WriteNext, TurnIs, PlTurns
<1>5. QED
  BY <1>2, <1>3, <1>4

LEMMA PlOnlyTurns ==
    ASSUME PlInv, NEW c \in Ids, PlQuietTurn(c), JournalMoves(c), kids' = kids, call'[c].pc # "idle"
    PROVE  OnlyTurns(c)
<1>1. plan' = plan /\ Ids' = Ids /\ merged \subseteq merged' /\ edits' = edits
  BY DEF PlQuietTurn, PlTurnTaken, PlRecordsStay, Ids
<1>2. call' = [call EXCEPT ![c] = call'[c]] /\ call \in [Ids -> PlTurns]
  BY DEF PlQuietTurn, PlTurnTaken, PlInv, PlTyped
<1>3. QED
  BY <1>1, <1>2 DEF OnlyTurns

Steady == UNCHANGED <<kids, promised, torn, journal, source, merged>>
LEMMA PlOrderlyEnd ==
    ASSUME PlInv, PlOrder, NEW c \in Ids, PlQuietTurn(c), Steady, Under(c), call[c].pc # "claim",
           call'[c].pc = "done"
    PROVE  Orderly(c)
<1>1. OnlyTurns(c)
  BY PlOnlyTurns DEF Steady, JournalMoves
<1>2. ItemPlaced(c)' /\ StartPlaced(c)' /\ GatePlaced(c)' /\ VersionPlaced(c)'
  BY <1>1 DEF Steady, OnlyTurns, PlOrder, Placed, ItemPlaced, AtItem, StartPlaced, GatePlaced, PastGates,
     VersionPlaced, Writes, Under, Kind
<1>3. QED
  BY <1>1, <1>2 DEF Steady, Orderly, Committing, Cleaning, Under, Writes

LEMMA PlAllMerged == PlInv /\ PlOrder /\ AllCommitted => merged = PlItems
<1> SUFFICES ASSUME PlInv, PlOrder, AllCommitted PROVE merged = PlItems
  OBVIOUS
<1>1. ASSUME NEW i \in PlItems PROVE i \in merged
  <2>1. PICK d \in Ids : plan[d].item = i /\ journal[d] = "committed"
    BY DEF AllCommitted, Committed
  <2>2. QED
    BY <2>1 DEF PlOrder, Placed, ItemPlaced
<1>2. QED
  BY <1>1 DEF PlInv, PlTyped

LEMMA PlStartPipelineOrderly ==
    ASSUME PlInv, PlOrder, NEW c \in Ids, StartPipeline(c)
    PROVE  Orderly(c)
<1>1. PlQuietTurn(c) /\ Under(c) /\ call[c].pc # "claim" /\ Steady
  BY PlStartPipelineQuiet DEF StartPipeline, Under, Steady, durable, outside
<1>2. CASE EndCall(c)
  BY <1>1, <1>2, PlTurnFields, PlOrderlyEnd
<1>3. CASE WriteNext(c, "set", "failed")
  <2>1. TurnIs(c, "write", "set", "failed")
    BY <1>3, PlTurnFields
  <2>2. OnlyTurns(c)
    BY <1>1, <2>1, PlOnlyTurns DEF TurnIs, Steady, JournalMoves
  <2>3. ItemPlaced(c)' /\ StartPlaced(c)' /\ GatePlaced(c)' /\ VersionPlaced(c)'
    BY <1>1, <1>3, <2>1, <2>2, PlHistoryGrows
       DEF StartPipeline, TurnIs, Steady, OnlyTurns, PlOrder, Placed, ItemPlaced, AtItem,
           StartPlaced, GatePlaced, PastGates, VersionPlaced, Writes, Cleans, Under, Kind
  <2>4. QED
    BY <1>1, <1>3, <2>1, <2>2, <2>3
       DEF StartPipeline, TurnIs, Steady, OnlyTurns, Orderly, Committing, Cleaning, Harmless, InCleanup,
          Closed, Writes, Cleans, Kind
<1>4. CASE PlGo(c, "activate")
  <2>1. TurnIs(c, "activate", call[c].patch, call[c].value)
    BY <1>4, PlTurnFields
  <2>2. OnlyTurns(c)
    BY <1>1, <2>1, PlOnlyTurns DEF TurnIs, Steady, JournalMoves
  <2>3. ItemPlaced(c)' /\ StartPlaced(c)' /\ GatePlaced(c)' /\ VersionPlaced(c)'
    BY <1>1, <1>4, <2>1, <2>2, PlHistoryGrows
       DEF StartPipeline, TurnIs, Steady, OnlyTurns, PlOrder, Placed, ItemPlaced, AtItem,
           StartPlaced, GatePlaced, PastGates, VersionPlaced, Writes, Cleans, Under, Kind
  <2>4. QED
    BY <1>1, <1>4, <2>1, <2>2, <2>3
       DEF StartPipeline, TurnIs, Steady, OnlyTurns, Orderly, Committing, Cleaning, Harmless, InCleanup,
          Closed, Writes, Cleans, Kind
<1>5. QED
  BY <1>2, <1>3, <1>4 DEF StartPipeline

LEMMA PlBeginCallOrderly ==
    ASSUME PlInv, PlOrder, NEW c \in Ids, BeginCall(c)
    PROVE  Orderly(c)
<1>1. PlQuietTurn(c) /\ Under(c) /\ call[c].pc # "claim" /\ Steady
  BY PlBeginCallQuiet DEF BeginCall, Under, Steady, durable, outside
<1>2. CASE PlGo(c, "resume") /\ Cleans(c)
  <2>1. TurnIs(c, "resume", call[c].patch, call[c].value)
    BY <1>2, PlTurnFields
  <2>2. OnlyTurns(c)
    BY <1>1, <2>1, PlOnlyTurns DEF TurnIs, Steady, JournalMoves
  <2>3. ItemPlaced(c)' /\ StartPlaced(c)' /\ GatePlaced(c)' /\ VersionPlaced(c)'
    BY <1>1, <1>2, <2>1, <2>2, PlHistoryGrows
       DEF BeginCall, TurnIs, Steady, OnlyTurns, PlOrder, Placed, ItemPlaced, AtItem,
           StartPlaced, GatePlaced, PastGates, VersionPlaced, Writes, Cleans, Under, Kind
  <2>4. QED
    BY <1>1, <1>2, <2>1, <2>2, <2>3
       DEF BeginCall, TurnIs, Steady, OnlyTurns, Orderly, Committing, Cleaning, Harmless, InCleanup, Closed,
          Writes, Cleans, Kind
<1>3. CASE WriteNext(c, "refresh", "")
  <2>1. TurnIs(c, "write", "refresh", "")
    BY <1>3, PlTurnFields
  <2>2. OnlyTurns(c)
    BY <1>1, <2>1, PlOnlyTurns DEF TurnIs, Steady, JournalMoves
  <2>3. ItemPlaced(c)' /\ StartPlaced(c)' /\ GatePlaced(c)' /\ VersionPlaced(c)'
    BY <1>1, <1>3, <2>1, <2>2, PlHistoryGrows
       DEF BeginCall, TurnIs, Steady, OnlyTurns, PlOrder, Placed, ItemPlaced, AtItem,
           StartPlaced, GatePlaced, PastGates, VersionPlaced, Writes, Cleans, Under, Kind
  <2>4. QED
    BY <1>1, <1>3, <2>1, <2>2, <2>3
       DEF BeginCall, TurnIs, Steady, OnlyTurns, Orderly, Committing, Cleaning, Harmless, InCleanup, Closed,
          Writes, Cleans, Kind
<1>4. QED
  BY <1>2, <1>3 DEF BeginCall

LEMMA PlCheckItemOrderly ==
    ASSUME PlInv, PlOrder, NEW c \in Ids, CheckItem(c)
    PROVE  Orderly(c)
<1>1. PlQuietTurn(c) /\ Under(c) /\ call[c].pc # "claim" /\ Steady
  BY PlCheckItemQuiet DEF CheckItem, Under, Steady, durable, outside
<1>2. Mine(c).item[plan[c].item] \in {"pending", "integrating"} => kids = "completed"
  <2>1. RecordSound(Mine(c)) /\ plan[c].item \in PlItems
    BY <1>1, PlItemOf DEF PlOrder, RecordsSound, PlInv, PlCallSound, Mine
  <2>2. QED
    BY <2>1 DEF RecordSound
<1>3. CASE EndCall(c)
  BY <1>1, <1>3, PlTurnFields, PlOrderlyEnd
<1>4. CASE PlGo(c, "lock") /\ Mine(c).item[plan[c].item] \in {"pending", "integrating"}
  <2>1. TurnIs(c, "lock", call[c].patch, call[c].value)
    BY <1>4, PlTurnFields
  <2>2. OnlyTurns(c)
    BY <1>1, <2>1, PlOnlyTurns DEF TurnIs, Steady, JournalMoves
  <2>3. ItemPlaced(c)' /\ StartPlaced(c)' /\ GatePlaced(c)' /\ VersionPlaced(c)'
    BY <1>1, <1>2, <1>4, <2>1, <2>2, PlHistoryGrows
       DEF CheckItem, TurnIs, Steady, OnlyTurns, PlOrder, Placed, ItemPlaced, AtItem,
           StartPlaced, GatePlaced, PastGates, VersionPlaced, Writes, Cleans, Under, Kind
  <2>4. QED
    BY <1>1, <1>2, <1>4, <2>1, <2>2, <2>3
       DEF CheckItem, TurnIs, Steady, OnlyTurns, Orderly, Committing, Cleaning, Harmless, InCleanup, Closed,
          Writes, Cleans, Kind
<1>5. QED
  BY <1>2, <1>3, <1>4 DEF CheckItem

LEMMA PlCheckAbandonOrderly ==
    ASSUME PlInv, PlOrder, NEW c \in Ids, CheckAbandon(c)
    PROVE  Orderly(c)
<1>1. PlQuietTurn(c) /\ Under(c) /\ call[c].pc # "claim" /\ Steady
  BY PlCheckAbandonQuiet DEF CheckAbandon, Under, Steady, durable, outside
<1>2. CASE EndCall(c)
  BY <1>1, <1>2, PlTurnFields, PlOrderlyEnd
<1>3. CASE WriteNext(c, "abandon", "")
  <2>1. TurnIs(c, "write", "abandon", "")
    BY <1>3, PlTurnFields
  <2>2. OnlyTurns(c)
    BY <1>1, <2>1, PlOnlyTurns DEF TurnIs, Steady, JournalMoves
  <2>3. ItemPlaced(c)' /\ StartPlaced(c)' /\ GatePlaced(c)' /\ VersionPlaced(c)'
    BY <1>1, <1>3, <2>1, <2>2, PlHistoryGrows
       DEF CheckAbandon, TurnIs, Steady, OnlyTurns, PlOrder, Placed, ItemPlaced, AtItem,
           StartPlaced, GatePlaced, PastGates, VersionPlaced, Writes, Cleans, Under, Kind
  <2>4. QED
    BY <1>1, <1>3, <2>1, <2>2, <2>3
       DEF CheckAbandon, TurnIs, Steady, OnlyTurns, Orderly, Committing, Cleaning, Harmless, InCleanup,
          Closed, Writes, Cleans, Kind
<1>4. QED
  BY <1>2, <1>3 DEF CheckAbandon

LEMMA PlCheckPolicyOrderly ==
    ASSUME PlInv, PlOrder, NEW c \in Ids, CheckPolicy(c)
    PROVE  Orderly(c)
<1>1. PlQuietTurn(c) /\ Under(c) /\ call[c].pc # "claim" /\ Steady
  BY PlCheckPolicyQuiet DEF CheckPolicy, Under, Steady, durable, outside
<1>2. Kind(c) = "finalize"
  BY DEF CheckPolicy, PlInv, PlCallSound, Judging
<1>3. CASE WriteNext(c, "set", "awaiting_finalization")
  <2>1. TurnIs(c, "write", "set", "awaiting_finalization")
    BY <1>3, PlTurnFields
  <2>2. OnlyTurns(c)
    BY <1>1, <2>1, PlOnlyTurns DEF TurnIs, Steady, JournalMoves
  <2>3. ItemPlaced(c)' /\ StartPlaced(c)' /\ GatePlaced(c)' /\ VersionPlaced(c)'
    BY <1>1, <1>2, <1>3, <2>1, <2>2, PlHistoryGrows
       DEF CheckPolicy, TurnIs, Steady, OnlyTurns, PlOrder, Placed, ItemPlaced, AtItem,
           StartPlaced, GatePlaced, PastGates, VersionPlaced, Writes, Cleans, Under, Kind
  <2>4. QED
    BY <1>1, <1>2, <1>3, <2>1, <2>2, <2>3
       DEF CheckPolicy, TurnIs, Steady, OnlyTurns, Orderly, Committing, Cleaning, Harmless, InCleanup,
          Closed, Writes, Cleans, Kind
<1>4. CASE WriteNext(c, "finalizing", "")
  <2>1. TurnIs(c, "write", "finalizing", "")
    BY <1>4, PlTurnFields
  <2>2. OnlyTurns(c)
    BY <1>1, <2>1, PlOnlyTurns DEF TurnIs, Steady, JournalMoves
  <2>3. ItemPlaced(c)' /\ StartPlaced(c)' /\ GatePlaced(c)' /\ VersionPlaced(c)'
    BY <1>1, <1>2, <1>4, <2>1, <2>2, PlHistoryGrows
       DEF CheckPolicy, TurnIs, Steady, OnlyTurns, PlOrder, Placed, ItemPlaced, AtItem,
           StartPlaced, GatePlaced, PastGates, VersionPlaced, Writes, Cleans, Under, Kind
  <2>4. QED
    BY <1>1, <1>2, <1>4, <2>1, <2>2, <2>3
       DEF CheckPolicy, TurnIs, Steady, OnlyTurns, Orderly, Committing, Cleaning, Harmless, InCleanup,
          Closed, Writes, Cleans, Kind
<1>5. QED
  BY <1>2, <1>3, <1>4 DEF CheckPolicy

LEMMA PlCheckFinalizationOrderly ==
    ASSUME PlInv, PlOrder, NEW c \in Ids, CheckFinalization(c)
    PROVE  Orderly(c)
<1>1. PlQuietTurn(c) /\ Under(c) /\ call[c].pc # "claim" /\ Steady
  BY PlCheckFinalizationQuiet DEF CheckFinalization, Under, Steady, durable, outside
<1>2. AllIntegrated(Mine(c)) => AllCommitted
  <2>1. RecordSound(Mine(c)) /\ Mine(c) \in PlRows
    BY <1>1 DEF PlOrder, RecordsSound, PlInv, PlTyped, PlCallSound, Mine
  <2>2. QED
    BY <2>1 DEF RecordSound, AllIntegrated, AllCommitted
<1>3. CASE EndCall(c)
  BY <1>1, <1>3, PlTurnFields, PlOrderlyEnd
<1>4. CASE WriteNext(c, "note", "")
  <2>1. TurnIs(c, "write", "note", "")
    BY <1>4, PlTurnFields
  <2>2. OnlyTurns(c)
    BY <1>1, <2>1, PlOnlyTurns DEF TurnIs, Steady, JournalMoves
  <2>3. ItemPlaced(c)' /\ StartPlaced(c)' /\ GatePlaced(c)' /\ VersionPlaced(c)'
    BY <1>1, <1>2, <1>4, <2>1, <2>2, PlHistoryGrows
       DEF CheckFinalization, TurnIs, Steady, OnlyTurns, PlOrder, Placed, ItemPlaced, AtItem,
           StartPlaced, GatePlaced, PastGates, VersionPlaced, Writes, Cleans, Under, Kind
  <2>4. QED
    BY <1>1, <1>2, <1>4, <2>1, <2>2, <2>3
       DEF CheckFinalization, TurnIs, Steady, OnlyTurns, Orderly, Committing, Cleaning, Harmless, InCleanup,
          Closed, Writes, Cleans, Kind
<1>5. CASE WriteNext(c, "set", "awaiting_integration")
             /\ Mine(c).status \in {"awaiting_finalization", "finalizing"}
  <2>1. TurnIs(c, "write", "set", "awaiting_integration")
    BY <1>5, PlTurnFields
  <2>2. OnlyTurns(c)
    BY <1>1, <2>1, PlOnlyTurns DEF TurnIs, Steady, JournalMoves
  <2>3. ItemPlaced(c)' /\ StartPlaced(c)' /\ GatePlaced(c)' /\ VersionPlaced(c)'
    BY <1>1, <1>2, <1>5, <2>1, <2>2, PlHistoryGrows
       DEF CheckFinalization, TurnIs, Steady, OnlyTurns, PlOrder, Placed, ItemPlaced, AtItem,
           StartPlaced, GatePlaced, PastGates, VersionPlaced, Writes, Cleans, Under, Kind
  <2>4. QED
    BY <1>1, <1>2, <1>5, <2>1, <2>2, <2>3
       DEF CheckFinalization, TurnIs, Steady, OnlyTurns, Orderly, Committing, Cleaning, Harmless, InCleanup,
          Closed, Writes, Cleans, Kind
<1>6. CASE PlGo(c, "policy") /\ AllIntegrated(Mine(c))
             /\ Mine(c).status \in {"awaiting_finalization", "finalizing"}
  <2>1. TurnIs(c, "policy", call[c].patch, call[c].value)
    BY <1>6, PlTurnFields
  <2>2. OnlyTurns(c)
    BY <1>1, <2>1, PlOnlyTurns DEF TurnIs, Steady, JournalMoves
  <2>3. ItemPlaced(c)' /\ StartPlaced(c)' /\ GatePlaced(c)' /\ VersionPlaced(c)'
    BY <1>1, <1>2, <1>6, <2>1, <2>2, PlHistoryGrows
       DEF CheckFinalization, TurnIs, Steady, OnlyTurns, PlOrder, Placed, ItemPlaced, AtItem,
           StartPlaced, GatePlaced, PastGates, VersionPlaced, Writes, Cleans, Under, Kind
  <2>4. QED
    BY <1>1, <1>2, <1>6, <2>1, <2>2, <2>3
       DEF CheckFinalization, TurnIs, Steady, OnlyTurns, Orderly, Committing, Cleaning, Harmless, InCleanup,
          Closed, Writes, Cleans, Kind
<1>7. QED
  BY <1>2, <1>3, <1>4, <1>5, <1>6 DEF CheckFinalization

LEMMA PlOpenFinalizationOrderly ==
    ASSUME PlInv, PlOrder, NEW c \in Ids, OpenFinalization(c)
    PROVE  Orderly(c)
<1>1. PlQuietTurn(c) /\ Under(c) /\ call[c].pc # "claim" /\ Steady
  BY PlOpenFinalizationQuiet DEF OpenFinalization, Under, Steady, durable, outside
<1>2. CASE EndCall(c)
  BY <1>1, <1>2, PlTurnFields, PlOrderlyEnd
<1>3. CASE call' = [call EXCEPT ![c].pc = "write", ![c].patch = "reconcile", ![c].locked = TRUE]
  <2>1. call'[c].pc = "write" /\ call'[c].patch = "reconcile" /\ call'[c].obj = call[c].obj
    BY <1>3 DEF PlInv, PlTyped, PlTurns
  <2>2. OnlyTurns(c)
    BY <1>1, <2>1, PlOnlyTurns DEF Steady, JournalMoves
  <2>3. ItemPlaced(c)' /\ StartPlaced(c)' /\ GatePlaced(c)' /\ VersionPlaced(c)'
    BY <1>1, <1>3, <2>1, <2>2, PlHistoryGrows
       DEF OpenFinalization, Steady, OnlyTurns, PlOrder, Placed, ItemPlaced, AtItem,
           StartPlaced, GatePlaced, PastGates, VersionPlaced, Writes, Cleans, Under, Kind
  <2>4. QED
    BY <1>1, <1>3, <2>1, <2>2, <2>3
       DEF OpenFinalization, Steady, OnlyTurns, Orderly, Committing, Cleaning, Harmless, InCleanup, Closed,
          Writes, Cleans, Kind
<1>4. QED
  BY <1>2, <1>3 DEF OpenFinalization

LEMMA PlCaptureTargetOrderly ==
    ASSUME PlInv, PlOrder, NEW c \in Ids, CaptureTarget(c)
    PROVE  Orderly(c)
<1>1. PlQuietTurn(c) /\ Under(c) /\ call[c].pc # "claim" /\ Steady
  BY PlCaptureTargetQuiet DEF CaptureTarget, Under, Steady, durable, outside
<1>2. Kind(c) = "finalize" /\ merged = PlItems /\ edits \in Nat /\ Version.merged = merged /\ Version.edits = edits
  <2>1. Kind(c) = "finalize" /\ AllCommitted
    BY DEF CaptureTarget, PlInv, PlCallSound, Judging, PlOrder, Placed, GatePlaced, PastGates
  <2>2. merged = PlItems /\ Version.merged = merged /\ Version.edits = edits
    BY <2>1, PlAllMerged DEF Version
  <2>3. QED
    BY <2>1, <2>2 DEF PlInv, PlTyped
<1>3. CASE call' = [call EXCEPT ![c].pc = "validate", ![c].ver = Version]
  <2>1. call'[c].pc = "validate" /\ call'[c].ver = Version /\ call'[c].obj = call[c].obj
    BY <1>3 DEF PlInv, PlTyped, PlTurns
  <2>2. OnlyTurns(c)
    BY <1>1, <2>1, PlOnlyTurns DEF Steady, JournalMoves
  <2>v. VersionPlaced(c)'
    BY <1>2, <2>1, <2>2 DEF OnlyTurns, PlOrder, Placed, VersionPlaced, Writes, CaptureTarget
  <2>3. ItemPlaced(c)' /\ StartPlaced(c)' /\ GatePlaced(c)'
    BY <1>1, <1>2, <1>3, <2>1, <2>2, PlHistoryGrows
       DEF CaptureTarget, Steady, OnlyTurns, PlOrder, Placed, ItemPlaced, AtItem,
           StartPlaced, GatePlaced, PastGates, VersionPlaced, Writes, Cleans, Under, Kind
  <2>4. QED
    BY <1>1, <1>2, <1>3, <2>1, <2>2, <2>3, <2>v
       DEF CaptureTarget, Steady, OnlyTurns, Orderly, Committing, Cleaning, Harmless, InCleanup, Closed,
          Writes, Cleans, Kind
<1>4. QED
  BY <1>2, <1>3 DEF CaptureTarget

LEMMA PlValidateOrderly ==
    ASSUME PlInv, PlOrder, NEW c \in Ids, Validate(c)
    PROVE  Orderly(c)
<1>1. PlQuietTurn(c) /\ Under(c) /\ call[c].pc # "claim" /\ Steady
  BY PlValidateQuiet DEF Validate, Under, Steady, durable, outside
<1>2. Kind(c) = "finalize"
  BY DEF Validate, PlInv, PlCallSound, Judging
<1>3. CASE PlGo(c, "gates")
  <2>1. TurnIs(c, "gates", call[c].patch, call[c].value)
    BY <1>3, PlTurnFields
  <2>2. OnlyTurns(c)
    BY <1>1, <2>1, PlOnlyTurns DEF TurnIs, Steady, JournalMoves
  <2>3. ItemPlaced(c)' /\ StartPlaced(c)' /\ GatePlaced(c)' /\ VersionPlaced(c)'
    BY <1>1, <1>2, <1>3, <2>1, <2>2, PlHistoryGrows
       DEF Validate, TurnIs, Steady, OnlyTurns, PlOrder, Placed, ItemPlaced, AtItem,
           StartPlaced, GatePlaced, PastGates, VersionPlaced, Writes, Cleans, Under, Kind
  <2>4. QED
    BY <1>1, <1>2, <1>3, <2>1, <2>2, <2>3
       DEF Validate, TurnIs, Steady, OnlyTurns, Orderly, Committing, Cleaning, Harmless, InCleanup, Closed,
          Writes, Cleans, Kind
<1>4. CASE WriteNext(c, "set", "failed")
  <2>1. TurnIs(c, "write", "set", "failed")
    BY <1>4, PlTurnFields
  <2>2. OnlyTurns(c)
    BY <1>1, <2>1, PlOnlyTurns DEF TurnIs, Steady, JournalMoves
  <2>3. ItemPlaced(c)' /\ StartPlaced(c)' /\ GatePlaced(c)' /\ VersionPlaced(c)'
    BY <1>1, <1>2, <1>4, <2>1, <2>2, PlHistoryGrows
       DEF Validate, TurnIs, Steady, OnlyTurns, PlOrder, Placed, ItemPlaced, AtItem,
           StartPlaced, GatePlaced, PastGates, VersionPlaced, Writes, Cleans, Under, Kind
  <2>4. QED
    BY <1>1, <1>2, <1>4, <2>1, <2>2, <2>3
       DEF Validate, TurnIs, Steady, OnlyTurns, Orderly, Committing, Cleaning, Harmless, InCleanup, Closed,
          Writes, Cleans, Kind
<1>5. CASE WriteNext(c, "defer", "")
  <2>1. TurnIs(c, "write", "defer", "")
    BY <1>5, PlTurnFields
  <2>2. OnlyTurns(c)
    BY <1>1, <2>1, PlOnlyTurns DEF TurnIs, Steady, JournalMoves
  <2>3. ItemPlaced(c)' /\ StartPlaced(c)' /\ GatePlaced(c)' /\ VersionPlaced(c)'
    BY <1>1, <1>2, <1>5, <2>1, <2>2, PlHistoryGrows
       DEF Validate, TurnIs, Steady, OnlyTurns, PlOrder, Placed, ItemPlaced, AtItem,
           StartPlaced, GatePlaced, PastGates, VersionPlaced, Writes, Cleans, Under, Kind
  <2>4. QED
    BY <1>1, <1>2, <1>5, <2>1, <2>2, <2>3
       DEF Validate, TurnIs, Steady, OnlyTurns, Orderly, Committing, Cleaning, Harmless, InCleanup, Closed,
          Writes, Cleans, Kind
<1>6. QED
  BY <1>2, <1>3, <1>4, <1>5 DEF Validate

LEMMA PlRunGatesOrderly ==
    ASSUME PlInv, PlOrder, NEW c \in Ids, RunGates(c)
    PROVE  Orderly(c)
<1>1. PlQuietTurn(c) /\ Under(c) /\ call[c].pc # "claim" /\ Steady
  BY PlRunGatesQuiet DEF RunGates, Under, Steady, durable, outside
<1>2. Kind(c) = "finalize" /\ merged = PlItems /\ edits \in Nat /\ Version.merged = merged
        /\ Version.edits = edits /\ call[c].ver.edits \in Int
  <2>1. Kind(c) = "finalize" /\ AllCommitted
    BY DEF RunGates, PlInv, PlCallSound, Judging, PlOrder, Placed, GatePlaced, PastGates
  <2>2. merged = PlItems /\ Version.merged = merged /\ Version.edits = edits
    BY <2>1, PlAllMerged DEF Version
  <2>3. QED
    BY <2>1, <2>2, PlTurnOf DEF PlInv, PlTyped, PlTurns, Versions
<1>3. CASE call' = [call EXCEPT ![c].pc = "recheck", ![c].saw = Version]
  <2>1. call'[c].pc = "recheck" /\ call'[c].saw = Version /\ call'[c].obj = call[c].obj
          /\ call'[c].ver = call[c].ver
    BY <1>3 DEF PlInv, PlTyped, PlTurns
  <2>2. OnlyTurns(c)
    BY <1>1, <2>1, PlOnlyTurns DEF Steady, JournalMoves
  <2>3. ItemPlaced(c)' /\ StartPlaced(c)' /\ GatePlaced(c)' /\ VersionPlaced(c)'
    BY <1>1, <1>2, <1>3, <2>1, <2>2, PlHistoryGrows
       DEF RunGates, Steady, OnlyTurns, PlOrder, Placed, ItemPlaced, AtItem,
           StartPlaced, GatePlaced, PastGates, VersionPlaced, Writes, Cleans, Under, Kind
  <2>4. QED
    BY <1>1, <1>2, <1>3, <2>1, <2>2, <2>3
       DEF RunGates, Steady, OnlyTurns, Orderly, Committing, Cleaning, Harmless, InCleanup, Closed, Writes,
          Cleans, Kind
<1>4. CASE WriteNext(c, "set", "failed")
  <2>1. TurnIs(c, "write", "set", "failed")
    BY <1>4, PlTurnFields
  <2>2. OnlyTurns(c)
    BY <1>1, <2>1, PlOnlyTurns DEF TurnIs, Steady, JournalMoves
  <2>3. ItemPlaced(c)' /\ StartPlaced(c)' /\ GatePlaced(c)' /\ VersionPlaced(c)'
    BY <1>1, <1>2, <1>4, <2>1, <2>2, PlHistoryGrows
       DEF RunGates, TurnIs, Steady, OnlyTurns, PlOrder, Placed, ItemPlaced, AtItem,
           StartPlaced, GatePlaced, PastGates, VersionPlaced, Writes, Cleans, Under, Kind
  <2>4. QED
    BY <1>1, <1>2, <1>4, <2>1, <2>2, <2>3
       DEF RunGates, TurnIs, Steady, OnlyTurns, Orderly, Committing, Cleaning, Harmless, InCleanup, Closed,
          Writes, Cleans, Kind
<1>5. CASE WriteNext(c, "defer", "")
  <2>1. TurnIs(c, "write", "defer", "")
    BY <1>5, PlTurnFields
  <2>2. OnlyTurns(c)
    BY <1>1, <2>1, PlOnlyTurns DEF TurnIs, Steady, JournalMoves
  <2>3. ItemPlaced(c)' /\ StartPlaced(c)' /\ GatePlaced(c)' /\ VersionPlaced(c)'
    BY <1>1, <1>2, <1>5, <2>1, <2>2, PlHistoryGrows
       DEF RunGates, TurnIs, Steady, OnlyTurns, PlOrder, Placed, ItemPlaced, AtItem,
           StartPlaced, GatePlaced, PastGates, VersionPlaced, Writes, Cleans, Under, Kind
  <2>4. QED
    BY <1>1, <1>2, <1>5, <2>1, <2>2, <2>3
       DEF RunGates, TurnIs, Steady, OnlyTurns, Orderly, Committing, Cleaning, Harmless, InCleanup, Closed,
          Writes, Cleans, Kind
<1>6. QED
  BY <1>2, <1>3, <1>4, <1>5 DEF RunGates

LEMMA PlRecheckTargetOrderly ==
    ASSUME PlInv, PlOrder, NEW c \in Ids, RecheckTarget(c)
    PROVE  Orderly(c)
<1>1. PlQuietTurn(c) /\ Under(c) /\ call[c].pc # "claim" /\ Steady
  BY PlRecheckTargetQuiet DEF RecheckTarget, Under, Steady, durable, outside
<1>2. Kind(c) = "finalize" /\ (call[c].ver = Version => call[c].saw = call[c].ver)
  <2>1. call[c].ver \in Versions /\ call[c].saw \in Versions /\ edits \in Nat
    BY PlTurnOf DEF PlInv, PlTyped, PlTurns
  <2>2. Kind(c) = "finalize" /\ VersionPlaced(c) /\ call[c].pc = "recheck"
    BY DEF RecheckTarget, PlInv, PlCallSound, Judging, PlOrder, Placed
  <2>6. Version.edits = edits
    BY DEF Version
  <2>3. call[c].ver = Version => call[c].saw.merged = call[c].ver.merged /\ call[c].saw.edits = call[c].ver.edits
    BY <2>1, <2>2, <2>6 DEF VersionPlaced, Versions
  <2>4. call[c].ver = Version => call[c].saw = call[c].ver
    BY <2>1, <2>3 DEF Versions
  <2>5. QED
    BY <2>2, <2>4
<1>3. CASE PlGo(c, "sources") /\ call[c].ver = Version
  <2>1. TurnIs(c, "sources", call[c].patch, call[c].value)
    BY <1>3, PlTurnFields
  <2>2. OnlyTurns(c)
    BY <1>1, <2>1, PlOnlyTurns DEF TurnIs, Steady, JournalMoves
  <2>3. ItemPlaced(c)' /\ StartPlaced(c)' /\ GatePlaced(c)' /\ VersionPlaced(c)'
    BY <1>1, <1>2, <1>3, <2>1, <2>2, PlHistoryGrows
       DEF RecheckTarget, TurnIs, Steady, OnlyTurns, PlOrder, Placed, ItemPlaced, AtItem,
           StartPlaced, GatePlaced, PastGates, VersionPlaced, Writes, Cleans, Under, Kind
  <2>4. QED
    BY <1>1, <1>2, <1>3, <2>1, <2>2, <2>3
       DEF RecheckTarget, TurnIs, Steady, OnlyTurns, Orderly, Committing, Cleaning, Harmless, InCleanup,
          Closed, Writes, Cleans, Kind
<1>4. CASE WriteNext(c, "defer", "")
  <2>1. TurnIs(c, "write", "defer", "")
    BY <1>4, PlTurnFields
  <2>2. OnlyTurns(c)
    BY <1>1, <2>1, PlOnlyTurns DEF TurnIs, Steady, JournalMoves
  <2>3. ItemPlaced(c)' /\ StartPlaced(c)' /\ GatePlaced(c)' /\ VersionPlaced(c)'
    BY <1>1, <1>2, <1>4, <2>1, <2>2, PlHistoryGrows
       DEF RecheckTarget, TurnIs, Steady, OnlyTurns, PlOrder, Placed, ItemPlaced, AtItem,
           StartPlaced, GatePlaced, PastGates, VersionPlaced, Writes, Cleans, Under, Kind
  <2>4. QED
    BY <1>1, <1>2, <1>4, <2>1, <2>2, <2>3
       DEF RecheckTarget, TurnIs, Steady, OnlyTurns, Orderly, Committing, Cleaning, Harmless, InCleanup,
          Closed, Writes, Cleans, Kind
<1>5. QED
  BY <1>2, <1>3, <1>4 DEF RecheckTarget

LEMMA PlConsiderSourcesOrderly ==
    ASSUME PlInv, PlOrder, NEW c \in Ids, ConsiderSources(c)
    PROVE  Orderly(c)
<1>1. PlQuietTurn(c) /\ Under(c) /\ call[c].pc # "claim"
        /\ UNCHANGED <<kids, promised, torn, journal, source, merged>> /\ call[c] \in PlTurns
  BY PlConsiderSourcesQuiet, PlTurnOf DEF ConsiderSources, Under, durable, outside
<1>2. /\ call[c].pc = "sources" /\ Kind(c) = "finalize"
      /\ call'[c].pc = "write" /\ call'[c].patch \in {"authorize", "finish"}
      /\ call'[c].obj = call[c].obj /\ call'[c].ver = call[c].ver /\ call'[c].saw = call[c].saw
  <2>1. Kind(c) = "finalize"
    BY DEF ConsiderSources, PlInv, PlCallSound, Judging
  <2>2. QED
    BY <1>1, <2>1 DEF ConsiderSources, PlInv, PlTyped, PlTurns
<1>3. OnlyTurns(c)
  BY <1>1, <1>2, PlOnlyTurns DEF JournalMoves
<1>4. Placed(c) /\ ItemPlaced(c) /\ StartPlaced(c) /\ GatePlaced(c) /\ VersionPlaced(c)
  BY DEF PlOrder, Placed
<1>5. ItemPlaced(c)' /\ StartPlaced(c)' /\ GatePlaced(c)' /\ VersionPlaced(c)'
  <2>1. Kind(c)' = Kind(c) /\ plan'[c] = plan[c] /\ (AllCommitted => AllCommitted')
          /\ (StartedTwice => StartedTwice')
    BY <1>3, PlHistoryGrows DEF OnlyTurns, Kind
  <2>2. ItemPlaced(c)'
    BY <1>1, <1>2, <1>3, <1>4, <2>1 DEF ItemPlaced, AtItem, Writes, OnlyTurns
  <2>3. StartPlaced(c)' /\ GatePlaced(c)'
    BY <1>1, <1>2, <1>4, <2>1 DEF StartPlaced, GatePlaced, PastGates, Writes, Cleans, Under
  <2>4. VersionPlaced(c)'
    BY <1>1, <1>2, <1>3, <1>4, <2>1 DEF VersionPlaced, Writes, OnlyTurns
  <2>5. QED
    BY <2>2, <2>3, <2>4
<1>6. QED
  <2>1. Kind(c)' = Kind(c)
    BY <1>3 DEF OnlyTurns, Kind
  <2>2. Kind(c) = "finalize" /\ Committing(c)' => Committing(c) \/ call[c].pc = "remove"
    BY <1>2, <1>4 DEF Committing, Writes, ItemPlaced, AtItem
  <2>3. Cleaning(c)' => Cleaning(c)
    BY <1>2, <1>4, <2>1 DEF Cleaning, Writes, Cleans, ItemPlaced, AtItem
  <2>4. Harmless(c) /\ Under(c)' => Harmless(c)'
    BY <1>2, <1>4, <2>1 DEF Harmless, Writes, ItemPlaced, AtItem
  <2>5. QED
    BY <1>1, <1>2, <1>3, <1>5, <2>2, <2>3, <2>4 DEF Orderly, OnlyTurns

LEMMA PlResumeCleanupOrderly ==
    ASSUME PlInv, PlOrder, NEW c \in Ids, ResumeCleanup(c)
    PROVE  Orderly(c)
<1>1. PlQuietTurn(c) /\ Under(c) /\ call[c].pc # "claim"
        /\ UNCHANGED <<kids, promised, torn, journal, source, merged>> /\ call[c] \in PlTurns
  BY PlResumeCleanupQuiet, PlTurnOf DEF ResumeCleanup, Under, durable, outside
<1>2. /\ call[c].pc = "resume" /\ Kind(c) = "recover"
      /\ call'[c].pc = "remove" \/ (call'[c].pc = "write" /\ call'[c].patch = "retain")
      /\ call'[c].obj = call[c].obj /\ call'[c].ver = call[c].ver /\ call'[c].saw = call[c].saw
           /\ (call'[c].value = call[c].value \/ call'[c].pc = "write")
  <2>1. CASE WriteNext(c, "retain", "")
    BY <2>1, PlTurnFields DEF ResumeCleanup, TurnIs
  <2>2. CASE ~WriteNext(c, "retain", "")
    <3>1. PICK out : call' = [call EXCEPT ![c].pc = "remove", ![c].out = out]
      BY <2>2 DEF ResumeCleanup
    <3>2. QED
      BY <1>1, <3>1 DEF ResumeCleanup, PlInv, PlTyped, PlTurns
  <2>3. QED
    BY <2>1, <2>2
<1>3. OnlyTurns(c)
  BY <1>1, <1>2, PlOnlyTurns DEF JournalMoves
<1>4. Placed(c) /\ ItemPlaced(c) /\ StartPlaced(c) /\ GatePlaced(c) /\ VersionPlaced(c)
  BY DEF PlOrder, Placed
<1>5. ItemPlaced(c)' /\ StartPlaced(c)' /\ GatePlaced(c)' /\ VersionPlaced(c)'
  <2>1. Kind(c)' = Kind(c) /\ plan'[c] = plan[c] /\ (AllCommitted => AllCommitted')
          /\ (StartedTwice => StartedTwice')
    BY <1>3, PlHistoryGrows DEF OnlyTurns, Kind
  <2>2. ItemPlaced(c)'
    BY <1>1, <1>2, <1>3, <1>4, <2>1 DEF ItemPlaced, AtItem, Writes, OnlyTurns
  <2>3. StartPlaced(c)' /\ GatePlaced(c)'
    BY <1>1, <1>2, <1>4, <2>1 DEF StartPlaced, GatePlaced, PastGates, Writes, Cleans, Under
  <2>4. VersionPlaced(c)'
    BY <1>1, <1>2, <1>3, <1>4, <2>1 DEF VersionPlaced, Writes, OnlyTurns
  <2>5. QED
    BY <2>2, <2>3, <2>4
<1>6. QED
  <2>1. Kind(c)' = Kind(c)
    BY <1>3 DEF OnlyTurns, Kind
  <2>2. Kind(c) = "finalize" /\ Committing(c)' => Committing(c) \/ call[c].pc = "remove"
    BY <1>2, <1>4 DEF Committing, Writes, ItemPlaced, AtItem
  <2>3. Cleaning(c)' => Cleaning(c)
    BY <1>2, <1>4, <2>1 DEF Cleaning, Writes, Cleans, ItemPlaced, AtItem
  <2>4. Harmless(c) /\ Under(c)' => Harmless(c)'
    BY <1>2, <1>4, <2>1 DEF Harmless, Writes, ItemPlaced, AtItem
  <2>5. QED
    BY <1>1, <1>2, <1>3, <1>5, <2>2, <2>3, <2>4 DEF Orderly, OnlyTurns

LEMMA PlRemoveSourceOrderly ==
    ASSUME PlInv, PlOrder, NEW c \in Ids, RemoveSource(c)
    PROVE  Orderly(c)
<1>1. PlQuietTurn(c) /\ Under(c) /\ call[c].pc # "claim"
        /\ UNCHANGED <<kids, promised, torn, journal, merged>> /\ call[c] \in PlTurns
  BY PlRemoveSourceQuiet, PlTurnOf DEF RemoveSource, Under, durable, outside
<1>2. /\ call[c].pc = "remove" /\ Kind(c) \in {"finalize", "recover"}
      /\ call'[c].pc = "remove" \/ (call'[c].pc = "write" /\ call'[c].patch = "finish")
      /\ call'[c].obj = call[c].obj /\ call'[c].ver = call[c].ver /\ call'[c].saw = call[c].saw
           /\ (call'[c].value = call[c].value \/ call'[c].pc = "write")
  <2>1. call[c].pc = "remove" /\ Kind(c) \in {"finalize", "recover"}
    BY DEF RemoveSource, PlInv, PlCallSound
  <2>2. CASE WriteNext(c, "finish", "")
    BY <2>1, <2>2, PlTurnFields DEF TurnIs
  <2>3. CASE ~WriteNext(c, "finish", "")
    <3>1. PICK i \in PlItems, how \in {"success", "retained", "failed"} : call' = [call EXCEPT ![c].out[i] = how]
      BY <2>3 DEF RemoveSource, ToRemove
    <3>2. QED
      BY <1>1, <2>1, <3>1 DEF PlInv, PlTyped, PlTurns
  <2>4. QED
    BY <2>2, <2>3
<1>3. OnlyTurns(c)
  BY <1>1, <1>2, PlOnlyTurns DEF JournalMoves
<1>4. Placed(c) /\ ItemPlaced(c) /\ StartPlaced(c) /\ GatePlaced(c) /\ VersionPlaced(c)
  BY DEF PlOrder, Placed
<1>5. ItemPlaced(c)' /\ StartPlaced(c)' /\ GatePlaced(c)' /\ VersionPlaced(c)'
  <2>1. Kind(c)' = Kind(c) /\ plan'[c] = plan[c] /\ (AllCommitted => AllCommitted')
          /\ (StartedTwice => StartedTwice')
    BY <1>3, PlHistoryGrows DEF OnlyTurns, Kind
  <2>2. ItemPlaced(c)'
    BY <1>1, <1>2, <1>3, <1>4, <2>1 DEF ItemPlaced, AtItem, Writes, OnlyTurns
  <2>3. StartPlaced(c)' /\ GatePlaced(c)'
    BY <1>1, <1>2, <1>4, <2>1 DEF StartPlaced, GatePlaced, PastGates, Writes, Cleans, Under
  <2>4. VersionPlaced(c)'
    BY <1>1, <1>2, <1>3, <1>4, <2>1 DEF VersionPlaced, Writes, OnlyTurns
  <2>5. QED
    BY <2>2, <2>3, <2>4
<1>6. QED
  <2>1. Kind(c)' = Kind(c)
    BY <1>3 DEF OnlyTurns, Kind
  <2>2. Kind(c) = "finalize" /\ Committing(c)' => Committing(c) \/ call[c].pc = "remove"
    BY <1>2, <1>4 DEF Committing, Writes, ItemPlaced, AtItem
  <2>3. Cleaning(c)' => Cleaning(c)
    BY <1>2, <1>4, <2>1 DEF Cleaning, Writes, Cleans, ItemPlaced, AtItem
  <2>4. Harmless(c) /\ Under(c)' => Harmless(c)'
    BY <1>2, <1>4, <2>1 DEF Harmless, Writes, ItemPlaced, AtItem
  <2>5. QED
    BY <1>1, <1>2, <1>3, <1>5, <2>2, <2>3, <2>4 DEF Orderly, OnlyTurns

LEMMA PlLockRepositoryOrderly ==
    ASSUME PlInv, PlOrder, NEW c \in Ids, LockRepository(c)
    PROVE  Orderly(c)
<1>1. PlQuietTurn(c) /\ Under(c) /\ call[c].pc # "claim"
        /\ UNCHANGED <<kids, promised, torn, source, merged>> /\ call[c] \in PlTurns
  BY PlLockRepositoryQuiet, PlTurnOf DEF LockRepository, Under, durable, outside
<1>2. /\ call[c].pc = "lock" /\ Kind(c) = "integrate" /\ call[c].obj = call'[c].obj
      /\ call'[c].pc = "prepare"
           \/ (call'[c].pc = "write" /\ call'[c].patch = "result" /\ call'[c].value \notin Applied)
  <2>1. CASE \E value \in {"retry", "blocked", "refused"} : WriteNext(c, "result", value)
    BY <2>1, PlTurnFields DEF LockRepository, TurnIs, Applied
  <2>2. CASE call' = [call EXCEPT ![c].pc = "prepare", ![c].locked = TRUE]
    BY <1>1, <2>2 DEF LockRepository, PlInv, PlTyped, PlTurns
  <2>3. QED
    BY <2>1, <2>2 DEF LockRepository
<1>j. JournalMoves(c) /\ (journal'[c] = "committed" => journal[c] = "committed")
        /\ (journal[c] = "none" => journal'[c] = "none")
  <2>1. journal' = journal \/ \E kind \in {"undone", "quarantined"} : RecoverOpen(kind)
    BY DEF LockRepository
  <2>2. QED
    BY <2>1 DEF RecoverOpen, JournalMoves
<1>3. OnlyTurns(c)
  BY <1>1, <1>2, PlOnlyTurns, <1>j DEF JournalMoves
<1>4. Placed(c) /\ ItemPlaced(c) /\ StartPlaced(c) /\ GatePlaced(c) /\ VersionPlaced(c)
  BY DEF PlOrder, Placed
<1>5. ItemPlaced(c)' /\ StartPlaced(c)' /\ GatePlaced(c)' /\ VersionPlaced(c)'
  <2>1. Kind(c)' = Kind(c) /\ plan'[c] = plan[c] /\ (AllCommitted => AllCommitted')
          /\ (StartedTwice => StartedTwice')
    BY <1>3, PlHistoryGrows DEF OnlyTurns, Kind
  <2>2. ItemPlaced(c)'
    BY <1>1, <1>2, <1>3, <1>4, <2>1, <1>j DEF ItemPlaced, AtItem, Writes, OnlyTurns
  <2>3. StartPlaced(c)' /\ GatePlaced(c)'
    BY <1>1, <1>2, <1>4, <2>1 DEF StartPlaced, GatePlaced, PastGates, Writes, Cleans, Under
  <2>4. VersionPlaced(c)'
    BY <1>1, <1>2, <1>3, <1>4, <2>1 DEF VersionPlaced, Writes, OnlyTurns
  <2>5. QED
    BY <2>2, <2>3, <2>4
<1>6. QED
  <2>1. Kind(c)' = Kind(c)
    BY <1>3 DEF OnlyTurns, Kind
  <2>2. Kind(c) = "finalize" /\ Committing(c)' => Committing(c) \/ call[c].pc = "remove"
    BY <1>2, <1>4 DEF Committing, Writes, ItemPlaced, AtItem
  <2>3. Cleaning(c)' => Cleaning(c)
    BY <1>2, <1>4, <2>1 DEF Cleaning, Writes, Cleans, ItemPlaced, AtItem
  <2>4. Harmless(c) /\ Under(c)' => Harmless(c)'
    BY <1>2, <1>4, <2>1 DEF Harmless, Writes, ItemPlaced, AtItem
  <2>5. QED
    BY <1>1, <1>2, <1>3, <1>5, <2>2, <2>3, <2>4 DEF Orderly, OnlyTurns

LEMMA PlUnwindOperationOrderly ==
    ASSUME PlInv, PlOrder, NEW c \in Ids, UnwindOperation(c)
    PROVE  Orderly(c)
<1>1. PlQuietTurn(c) /\ Under(c) /\ call[c].pc # "claim"
        /\ UNCHANGED <<kids, promised, torn, source, merged>> /\ call[c] \in PlTurns
  BY PlUnwindOperationQuiet, PlTurnOf DEF UnwindOperation, Under, durable, outside
<1>2. /\ call[c].pc = "unwind" /\ call[c].obj = call'[c].obj /\ Kind(c) = "integrate"
      /\ call'[c].pc = "write" /\ call'[c].patch = "result" /\ call'[c].value \notin Applied
  <2>1. Kind(c) = "integrate"
    BY DEF UnwindOperation, PlOrder, Placed, ItemPlaced, AtItem
  <2>2. QED
    BY <1>1, <2>1 DEF UnwindOperation, PlInv, PlTyped, PlTurns, Applied
<1>j. JournalMoves(c) /\ (journal'[c] = "committed" => journal[c] = "committed")
        /\ (journal[c] = "none" => journal'[c] = "none")
  BY DEF UnwindOperation, JournalMoves, PlInv, PlTyped
<1>3. OnlyTurns(c)
  BY <1>1, <1>2, PlOnlyTurns, <1>j DEF JournalMoves
<1>4. Placed(c) /\ ItemPlaced(c) /\ StartPlaced(c) /\ GatePlaced(c) /\ VersionPlaced(c)
  BY DEF PlOrder, Placed
<1>5. ItemPlaced(c)' /\ StartPlaced(c)' /\ GatePlaced(c)' /\ VersionPlaced(c)'
  <2>1. Kind(c)' = Kind(c) /\ plan'[c] = plan[c] /\ (AllCommitted => AllCommitted')
          /\ (StartedTwice => StartedTwice')
    BY <1>3, PlHistoryGrows DEF OnlyTurns, Kind
  <2>2. ItemPlaced(c)'
    BY <1>1, <1>2, <1>3, <1>4, <2>1, <1>j DEF ItemPlaced, AtItem, Writes, OnlyTurns
  <2>3. StartPlaced(c)' /\ GatePlaced(c)'
    BY <1>1, <1>2, <1>4, <2>1 DEF StartPlaced, GatePlaced, PastGates, Writes, Cleans, Under
  <2>4. VersionPlaced(c)'
    BY <1>1, <1>2, <1>3, <1>4, <2>1 DEF VersionPlaced, Writes, OnlyTurns
  <2>5. QED
    BY <2>2, <2>3, <2>4
<1>6. QED
  <2>1. Kind(c)' = Kind(c)
    BY <1>3 DEF OnlyTurns, Kind
  <2>2. Kind(c) = "finalize" /\ Committing(c)' => Committing(c) \/ call[c].pc = "remove"
    BY <1>2, <1>4 DEF Committing, Writes, ItemPlaced, AtItem
  <2>3. Cleaning(c)' => Cleaning(c)
    BY <1>2, <1>4, <2>1 DEF Cleaning, Writes, Cleans, ItemPlaced, AtItem
  <2>4. Harmless(c) /\ Under(c)' => Harmless(c)'
    BY <1>2, <1>4, <2>1 DEF Harmless, Writes, ItemPlaced, AtItem
  <2>5. QED
    BY <1>1, <1>2, <1>3, <1>5, <2>2, <2>3, <2>4 DEF Orderly, OnlyTurns

LEMMA PlPrepareOperationOrderly ==
    ASSUME PlInv, PlOrder, NEW c \in Ids, PrepareOperation(c)
    PROVE  Orderly(c)
<1>1. PlQuietTurn(c) /\ Under(c) /\ call[c].pc # "claim"
        /\ UNCHANGED <<kids, promised, torn, source, merged>> /\ call[c] \in PlTurns
  BY PlPrepareOperationQuiet, PlTurnOf DEF PrepareOperation, Under, durable, outside
<1>2. /\ call[c].pc = "prepare" /\ call[c].obj = call'[c].obj /\ Kind(c) = "integrate" /\ journal[c] # "committed"
      /\ call'[c].pc = "write"
      /\ \/ call'[c].patch = "reserve" /\ journal' = [journal EXCEPT ![c] = "prepared"]
         \/ call'[c].patch = "result" /\ call'[c].value \notin Applied /\ journal' = journal
  <2>1. Kind(c) = "integrate" /\ journal[c] # "committed" /\ call[c].pc = "prepare"
    BY DEF PrepareOperation, PlOrder, Placed, ItemPlaced, AtItem, Writes
  <2>2. CASE WriteNext(c, "reserve", "") /\ journal' = [journal EXCEPT ![c] = "prepared"]
    BY <2>1, <2>2, PlTurnFields DEF TurnIs
  <2>3. CASE /\ call' = [call EXCEPT ![c].pc = "write", ![c].patch = "result", ![c].locked = FALSE,
                                    ![c].value = IF call[c].locked THEN "refused" ELSE "retry"]
             /\ UNCHANGED journal
    BY <1>1, <2>1, <2>3 DEF PlInv, PlTyped, PlTurns, Applied
  <2>4. QED
    BY <2>2, <2>3 DEF PrepareOperation
<1>j. JournalMoves(c) /\ journal'[c] # "committed"
  BY <1>2 DEF JournalMoves, PlInv, PlTyped
<1>3. OnlyTurns(c)
  BY <1>1, <1>2, PlOnlyTurns, <1>j DEF JournalMoves
<1>4. Placed(c) /\ ItemPlaced(c) /\ StartPlaced(c) /\ GatePlaced(c) /\ VersionPlaced(c)
  BY DEF PlOrder, Placed
<1>5. ItemPlaced(c)' /\ StartPlaced(c)' /\ GatePlaced(c)' /\ VersionPlaced(c)'
  <2>1. Kind(c)' = Kind(c) /\ plan'[c] = plan[c] /\ (AllCommitted => AllCommitted')
          /\ (StartedTwice => StartedTwice')
    BY <1>3, PlHistoryGrows DEF OnlyTurns, Kind
  <2>2. ItemPlaced(c)'
    BY <1>1, <1>2, <1>3, <1>4, <2>1, <1>j DEF ItemPlaced, AtItem, Writes, OnlyTurns
  <2>3. StartPlaced(c)' /\ GatePlaced(c)'
    BY <1>1, <1>2, <1>4, <2>1 DEF StartPlaced, GatePlaced, PastGates, Writes, Cleans, Under
  <2>4. VersionPlaced(c)'
    BY <1>1, <1>2, <1>3, <1>4, <2>1 DEF VersionPlaced, Writes, OnlyTurns
  <2>5. QED
    BY <2>2, <2>3, <2>4
<1>6. QED
  <2>1. Kind(c)' = Kind(c)
    BY <1>3 DEF OnlyTurns, Kind
  <2>2. Kind(c) = "finalize" /\ Committing(c)' => Committing(c) \/ call[c].pc = "remove"
    BY <1>2, <1>4 DEF Committing, Writes, ItemPlaced, AtItem
  <2>3. Cleaning(c)' => Cleaning(c)
    BY <1>2, <1>4, <2>1 DEF Cleaning, Writes, Cleans, ItemPlaced, AtItem
  <2>4. Harmless(c) /\ Under(c)' => Harmless(c)'
    BY <1>2, <1>4, <2>1 DEF Harmless, Writes, ItemPlaced, AtItem
  <2>5. QED
    BY <1>1, <1>2, <1>3, <1>5, <2>2, <2>3, <2>4 DEF Orderly, OnlyTurns

LEMMA PlApplyPatchOrderly ==
    ASSUME PlInv, PlOrder, NEW c \in Ids, ApplyPatch(c)
    PROVE  Orderly(c)
<1>1. PlQuietTurn(c) /\ Under(c) /\ call[c].pc # "claim" /\ UNCHANGED <<kids, promised, torn, source>>
        /\ call[c] \in PlTurns
  BY PlApplyPatchQuiet, PlTurnOf DEF ApplyPatch, Under, durable, outside
<1>2. /\ call[c].pc = "apply" /\ call[c].obj = call'[c].obj /\ Kind(c) = "integrate" /\ journal[c] # "committed"
      /\ \/ /\ call'[c].pc = "write" /\ call'[c].patch = "result"
            /\ journal' = [journal EXCEPT ![c] = "committed"] /\ plan[c].item \in merged'
         \/ call'[c].pc = "unwind" /\ journal' = journal
  <2>1. Kind(c) = "integrate" /\ journal[c] # "committed" /\ call[c].pc = "apply"
    BY DEF ApplyPatch, PlOrder, Placed, ItemPlaced, AtItem, Writes
  <2>2. CASE PlGo(c, "unwind") /\ UNCHANGED <<journal, merged>>
    BY <2>1, <2>2, PlTurnFields DEF TurnIs
  <2>3. CASE ~(PlGo(c, "unwind") /\ UNCHANGED <<journal, merged>>)
    BY <1>1, <2>1, <2>3 DEF ApplyPatch, PlInv, PlTyped, PlTurns
  <2>4. QED
    BY <2>2, <2>3
<1>j. JournalMoves(c) /\ (journal'[c] = "committed" <=> call'[c].pc = "write")
        /\ (call'[c].pc = "write" => call'[c].value \in Applied)
  BY <1>1, <1>2, PlTurnFields DEF ApplyPatch, JournalMoves, PlInv, PlTyped, PlTurns, Applied, TurnIs
<1>3. OnlyTurns(c)
  BY <1>1, <1>2, PlOnlyTurns, <1>j DEF JournalMoves
<1>4. Placed(c) /\ ItemPlaced(c) /\ StartPlaced(c) /\ GatePlaced(c) /\ VersionPlaced(c)
  BY DEF PlOrder, Placed
<1>5. ItemPlaced(c)' /\ StartPlaced(c)' /\ GatePlaced(c)' /\ VersionPlaced(c)'
  <2>1. Kind(c)' = Kind(c) /\ plan'[c] = plan[c] /\ (AllCommitted => AllCommitted')
          /\ (StartedTwice => StartedTwice')
    BY <1>3, PlHistoryGrows DEF OnlyTurns, Kind
  <2>2. ItemPlaced(c)'
    BY <1>1, <1>2, <1>3, <1>4, <2>1, <1>j DEF ItemPlaced, AtItem, Writes, OnlyTurns
  <2>3. StartPlaced(c)' /\ GatePlaced(c)'
    BY <1>1, <1>2, <1>4, <2>1 DEF StartPlaced, GatePlaced, PastGates, Writes, Cleans, Under
  <2>4. VersionPlaced(c)'
    BY <1>1, <1>2, <1>3, <1>4, <2>1 DEF VersionPlaced, Writes, OnlyTurns
  <2>5. QED
    BY <2>2, <2>3, <2>4
<1>6. QED
  <2>1. Kind(c)' = Kind(c)
    BY <1>3 DEF OnlyTurns, Kind
  <2>2. Kind(c) = "finalize" /\ Committing(c)' => Committing(c) \/ call[c].pc = "remove"
    BY <1>2, <1>4 DEF Committing, Writes, ItemPlaced, AtItem
  <2>3. Cleaning(c)' => Cleaning(c)
    BY <1>2, <1>4, <2>1 DEF Cleaning, Writes, Cleans, ItemPlaced, AtItem
  <2>4. Harmless(c) /\ Under(c)' => Harmless(c)'
    BY <1>2, <1>4, <2>1 DEF Harmless, Writes, ItemPlaced, AtItem
  <2>5. QED
    BY <1>1, <1>2, <1>3, <1>5, <2>2, <2>3, <2>4 DEF Orderly, OnlyTurns

(* The turns that end here.  What the world does to the pipeline: no row,   *)
(* no record object changes, and a call goes on as it was or is over.       *)
StandsAs(c) ==
    /\ call'[c].pc = call[c].pc /\ call'[c].obj = call[c].obj /\ call'[c].patch = call[c].patch
    /\ call'[c].value = call[c].value /\ call'[c].ver = call[c].ver /\ call'[c].saw = call[c].saw
WorldMoves ==
    /\ UNCHANGED <<plan, row, heap, kids, merged, promised, torn>>
    /\ edits' \in Nat /\ edits <= edits'
    /\ \A b \in PlBridges : runs'[b] \in {runs[b], NoObject}
    /\ \A i \in PlItems : source'[i] = "removed" => source[i] = "removed"
    /\ (leased => leased') \/ \A d \in Ids : call'[d].pc # "claim"
    /\ \A d \in Ids : StandsAs(d) \/ call'[d].pc = "done"
    /\ \A d \in Ids : \/ journal'[d] = journal[d]
                      \/ journal[d] \in {"prepared", "quarantined"} /\ journal'[d] \in {"undone", "quarantined"}

LEMMA PlWorldOrder ==
    ASSUME PlInv, PlOrder, WorldMoves
    PROVE  PlOrder'
<1>1. /\ UNCHANGED <<plan, row, heap, kids, merged, promised, torn>> /\ Ids' = Ids /\ PlObjects' = PlObjects
      /\ \A d \in Ids : Kind(d)' = Kind(d) /\ (StandsAs(d) \/ call'[d].pc = "done")
  BY DEF WorldMoves, Ids, PlObjects, Kind
<1>2. ASSUME NEW d \in Ids, call'[d].pc # "done"
      PROVE  /\ StandsAs(d) /\ Under(d)' = Under(d) /\ Mine(d)' = Mine(d) /\ Cleaning(d)' = Cleaning(d)
             /\ Committing(d)' = Committing(d) /\ Harmless(d)' = Harmless(d) /\ Private(d)' = Private(d)
  BY <1>1, <1>2 DEF StandsAs, Under, Mine, Cleaning, Committing, Harmless, Private, Writes, Cleans
<1>3. ASSUME NEW d \in Ids, call'[d].pc = "done"
      PROVE  ~Under(d)' /\ ~Private(d)' /\ ~Cleaning(d)' /\ ~Committing(d)'
  BY <1>3 DEF Under, Private, Cleaning, Committing, Writes
<1>4. /\ \A d \in Ids : journal[d] = "committed" => journal'[d] = "committed"
      /\ \A d \in Ids : call[d].pc # "idle" => call'[d].pc # "idle"
  BY <1>1 DEF WorldMoves, StandsAs
<1>5. /\ \A i \in PlItems : Committed(i) => Committed(i)'
      /\ AllCommitted => AllCommitted'
      /\ StartedTwice => StartedTwice'
      /\ \A d \in Ids : Doubled(d) => Doubled(d)'
      /\ SomeDoubled => SomeDoubled'
  <2>1. \A i \in PlItems : Committed(i) => Committed(i)'
    BY <1>1, <1>4 DEF Committed
  <2>2. (StartedTwice => StartedTwice') /\ \A d \in Ids : Doubled(d) => Doubled(d)'
    BY <1>1, <1>4 DEF StartedTwice, Doubled
  <2>3. QED
    BY <1>1, <2>1, <2>2 DEF AllCommitted, SomeDoubled
<1>6. RecordsSound' /\ Revisions'
  BY <1>1, <1>5 DEF PlOrder, RecordsSound, RecordSound, Revisions
<1>7. Synced'
  BY <1>1, <1>2, <1>3 DEF PlOrder, Synced
<1>8. ObjectsApart'
  <2>1. \A e \in Ids, b \in PlBridges : runs[b] # e => runs'[b] # e
    <3>1. \A e \in Ids : e # NoObject
      BY DEF Ids, PlInv, PlTyped
    <3>2. QED
      BY <3>1 DEF WorldMoves
  <2>2. QED
    BY <1>1, <1>2, <1>3, <2>1 DEF PlOrder, ObjectsApart, StandsAs
<1>9. Started'
  BY <1>1, <1>4 DEF PlOrder, Started
<1>10. ASSUME NEW d \in Ids PROVE Placed(d)'
  <2>1. Placed(d)
    BY DEF PlOrder
  <2>2. ItemPlaced(d)'
    BY <1>1, <2>1 DEF Placed, ItemPlaced, AtItem, Writes, WorldMoves, StandsAs
  <2>3. StartPlaced(d)' /\ GatePlaced(d)'
    BY <1>1, <1>5, <2>1 DEF Placed, StartPlaced, GatePlaced, PastGates, Under, Writes, Cleans, StandsAs
  <2>4. VersionPlaced(d)'
    <3>1. StandsAs(d) => call[d].ver \in Versions /\ call[d].saw \in Versions /\ edits \in Nat
      BY PlTurnOf DEF PlInv, PlTyped, PlTurns
    <3>2. QED
      BY <1>1, <2>1, <3>1 DEF Placed, VersionPlaced, Writes, WorldMoves, StandsAs, Versions
  <2>5. RecoveryPlaced(d)'
    BY <1>1, <2>1 DEF Placed, RecoveryPlaced, Under, Cleans, WorldMoves, StandsAs
  <2>6. QED
    BY <2>2, <2>3, <2>4, <2>5 DEF Placed
<1>11. \A d \in Ids : ApplyHolds(d)'
  BY <1>1, <1>5 DEF PlOrder, ApplyHolds, WorldMoves, StandsAs
<1>12. PromiseHolds'
  <2>1. ASSUME NEW d \in Ids, PromiseSafe(d) PROVE PromiseSafe(d)'
    BY <1>1, <1>2, <1>3, <2>1 DEF PromiseSafe, StandsAs
  <2>2. AbandonedKept => AbandonedKept'
    BY <1>1 DEF AbandonedKept, WorldMoves, PlOrder
  <2>3. QED
    BY <1>1, <2>1, <2>2 DEF PlOrder, PromiseHolds
<1>13. \A e \in Ids : CleanHolds(e)'
  <2> SUFFICES ASSUME NEW e \in Ids, Cleaning(e)', ~torn', ~SomeDoubled' PROVE CleanHolds(e)'
    BY DEF CleanHolds
  <2>1. StandsAs(e) /\ Mine(e)' = Mine(e) /\ Cleaning(e) /\ CleanHolds(e) /\ ~torn /\ ~SomeDoubled
    BY <1>1, <1>2, <1>3, <1>5 DEF PlOrder
  <2>2. QED
    BY <1>1, <1>2, <1>3, <2>1 DEF CleanHolds, StandsAs
<1>14. QED
  BY <1>1, <1>6, <1>7, <1>8, <1>9, <1>10, <1>11, <1>12, <1>13 DEF PlOrder

LEMMA PlWorldActions ==
    ASSUME PlInv, PlOrder,
           \/ \E c \in Ids : LockLapses(c)
           \/ RecoverJournal \/ EditCheckout \/ \E i \in PlItems : EditSource(i)
           \/ \E b \in PlBridges : PlCrash(b) \/ LeasesLapse(b) \/ PlHeartbeat(b)
    PROVE  WorldMoves
<1>1. call \in [Ids -> PlTurns] /\ edits \in Nat /\ runs \in [PlBridges -> {NoObject} \cup PlObjects]
      /\ source \in [PlItems -> {"kept", "edited", "removed"}] /\ leased \in BOOLEAN
           /\ journal \in [Ids -> PlJournal]
  BY DEF PlInv, PlTyped
<1>2. ASSUME NEW c \in Ids, LockLapses(c) PROVE WorldMoves
  <2>1. \A d \in Ids : StandsAs(d)
    BY <1>1, <1>2 DEF LockLapses, StandsAs, PlTurns
  <2>2. QED
    BY <1>1, <1>2, <2>1 DEF LockLapses, WorldMoves, durable, outside
<1>3. ASSUME RecoverJournal PROVE WorldMoves
  <2>1. \A d \in Ids : \/ journal'[d] = journal[d]
                       \/ journal[d] \in {"prepared", "quarantined"} /\ journal'[d] \in {"undone", "quarantined"}
    BY <1>3 DEF RecoverJournal, RecoverOpen
  <2>2. UNCHANGED <<durable, outside, heap, runs, call, merged, source>>
    BY <1>3 DEF RecoverJournal
  <2>3. QED
    BY <1>1, <2>1, <2>2 DEF WorldMoves, StandsAs, durable, outside
<1>4. ASSUME EditCheckout PROVE WorldMoves
  BY <1>1, <1>4 DEF EditCheckout, WorldMoves, StandsAs
<1>5. ASSUME NEW i \in PlItems, EditSource(i) PROVE WorldMoves
  BY <1>1, <1>5 DEF EditSource, WorldMoves, StandsAs
<1>6. ASSUME NEW b \in PlBridges, PlCrash(b) PROVE WorldMoves
  <2>1. \A d \in Ids : StandsAs(d) \/ call'[d].pc = "done"
    BY <1>1, <1>6 DEF PlCrash, StandsAs, IdleCall
  <2>2. UNCHANGED <<plan, row, leased, kids, journal, merged, edits, source, promised, permitted, torn, heap>>
    BY <1>6 DEF PlCrash
  <2>3. \A a \in PlBridges : runs'[a] \in {runs[a], NoObject}
    BY <1>1, <1>6 DEF PlCrash
  <2>4. QED
    BY <1>1, <2>1, <2>2, <2>3 DEF WorldMoves
<1>7. ASSUME NEW b \in PlBridges, LeasesLapse(b) PROVE WorldMoves
  BY <1>1, <1>7 DEF LeasesLapse, WorldMoves, StandsAs
<1>8. ASSUME NEW b \in PlBridges, PlHeartbeat(b) PROVE WorldMoves
  <2>1. leased => leased'
    BY <1>1, <1>8 DEF PlHeartbeat
  <2>2. \A a \in PlBridges : runs'[a] \in {runs[a], NoObject}
    BY <1>1, <1>8 DEF PlHeartbeat
  <2>3. UNCHANGED <<plan, row, running, kids, heap, call, journal, merged, edits, source, promised, permitted, torn, events>>
    BY <1>8 DEF PlHeartbeat
  <2>4. QED
    BY <1>1, <2>1, <2>2, <2>3 DEF WorldMoves, StandsAs
<1>9. QED
  BY <1>2, <1>3, <1>4, <1>5, <1>6, <1>7, <1>8

LEMMA PlChildrenEndOrder ==
    ASSUME PlInv, PlOrder, ChildrenEnd
    PROVE  PlOrder'
<1>1. /\ UNCHANGED <<plan, heap, runs, call, journal, merged, edits, source, promised, torn, leased>>
      /\ kids = "active" /\ kids' \in {"completed", "failed"} /\ row \in PlRows
      /\ \/ row' = row
         \/ row.status \in {"planned", "running"} /\ row' = [row EXCEPT !.status = "failed", !.rev = @ + 1]
  BY DEF ChildrenEnd, PlInv, PlTyped
<1>2. /\ row'.rev \in {row.rev, row.rev + 1} /\ row.rev \in Nat /\ (row'.rev = row.rev => row' = row)
      /\ row'.item = row.item /\ row'.by = row.by /\ (row'.status # row.status => row'.status = "failed")
      /\ row.status \in InCleanup \cup {"cancelled"} => row' = row
  <2>1. CASE row' = row
    BY <1>1, <2>1 DEF PlRows
  <2>2. CASE row.status \in {"planned", "running"} /\ row' = [row EXCEPT !.status = "failed", !.rev = @ + 1]
    BY <1>1, <2>2 DEF PlRows, InCleanup
  <2>3. QED
    BY <1>1, <2>1, <2>2
<1>3. /\ Ids' = Ids /\ PlObjects' = PlObjects
      /\ \A d \in Ids : /\ Kind(d)' = Kind(d) /\ Under(d)' = Under(d) /\ Mine(d)' = Mine(d)
                        /\ Cleaning(d)' = Cleaning(d) /\ Committing(d)' = Committing(d)
                        /\ Harmless(d)' = Harmless(d) /\ Private(d)' = Private(d) /\ Doubled(d)' = Doubled(d)
      /\ StartedTwice' = StartedTwice /\ AllCommitted' = AllCommitted
           /\ (\A i \in PlItems : Committed(i)' = Committed(i))
  <2>1. Ids' = Ids /\ PlObjects' = PlObjects /\ \A d \in Ids : Kind(d)' = Kind(d)
    BY <1>1 DEF Ids, PlObjects, Kind
  <2>2. \A i \in PlItems : Committed(i)' = Committed(i)
    BY <1>1, <2>1 DEF Committed
  <2>3. QED
    BY <1>1, <2>1, <2>2 DEF Under, Mine, Cleaning, Committing, Harmless, Private, Writes, Cleans,
       Doubled, StartedTwice, AllCommitted
<1>4. SomeDoubled' = SomeDoubled
  BY <1>3 DEF SomeDoubled
<1>5. RecordsSound'
  BY <1>1, <1>2, <1>3 DEF PlOrder, RecordsSound, RecordSound, InCleanup
<1>6. Revisions'
  <2>1. \A o \in PlObjects : heap[o].rev \in Nat
    BY DEF PlInv, PlTyped, PlRows
  <2>2. QED
    BY <1>1, <1>2, <1>3, <2>1 DEF PlOrder, Revisions
<1>7. Synced'
  <2>1. ASSUME NEW d \in Ids, Under(d), Mine(d).rev = row'.rev PROVE row'.rev = row.rev
    <3>1. Mine(d).rev <= row.rev /\ Mine(d).rev \in Nat
      BY <2>1 DEF PlOrder, Revisions, Mine, PlInv, PlCallSound, PlTyped, PlRows
    <3>2. QED
      BY <1>2, <2>1, <3>1
  <2>2. QED
    BY <1>1, <1>2, <1>3, <2>1 DEF PlOrder, Synced
<1>8. ObjectsApart' /\ Started'
  BY <1>1, <1>3 DEF PlOrder, ObjectsApart, Started
<1>9. \A d \in Ids : Placed(d)' /\ ApplyHolds(d)'
  <2>1. ASSUME NEW d \in Ids PROVE Placed(d)' /\ ApplyHolds(d)'
    <3>1. Placed(d)
      BY DEF PlOrder
    <3>2. ItemPlaced(d)' /\ StartPlaced(d)'
      BY <1>1, <1>3, <3>1 DEF Placed, ItemPlaced, StartPlaced, AtItem, Writes
    <3>3. GatePlaced(d)' /\ VersionPlaced(d)'
      BY <1>1, <1>3, <3>1 DEF Placed, GatePlaced, PastGates, Cleans, VersionPlaced, Writes
    <3>4. RecoveryPlaced(d)'
      BY <1>1, <1>2, <1>3, <3>1 DEF Placed, RecoveryPlaced, Cleans, InCleanup
    <3>5. ApplyHolds(d)'
      BY <1>1, <3>1 DEF Placed, ItemPlaced, AtItem, ApplyHolds
    <3>6. QED
      BY <3>2, <3>3, <3>4, <3>5 DEF Placed
  <2>2. QED
    BY <2>1
<1>10. PromiseHolds'
  BY <1>1, <1>2, <1>3 DEF PlOrder, PromiseHolds, AbandonedKept, PromiseSafe
<1>11. \A d \in Ids : CleanHolds(d)'
  BY <1>1, <1>3, <1>4 DEF PlOrder, CleanHolds
<1>12. QED
  BY <1>1, <1>3, <1>5, <1>6, <1>7, <1>8, <1>9, <1>10, <1>11 DEF PlOrder

(* A record object is brought to the row's revision; the row moves at most  *)
(* by one revision, and says what it said.                                  *)
RowMoves ==
    /\ row'.status = row.status /\ row'.item = row.item /\ row'.by = row.by
    /\ row' = row \/ row'.rev = row.rev + 1
Shifts(c, k, h) ==
    /\ OnlyTurns(c) /\ UNCHANGED <<kids, promised, source, journal>> /\ RowMoves
    /\ k \in PlObjects /\ heap' = [heap EXCEPT ![k] = h] /\ h.rev = row'.rev
    /\ RecordSound(h) /\ torn' \in BOOLEAN /\ (torn => torn')
    /\ \A d \in Ids \ {c} : Under(d) /\ call[d].obj = k => torn' \/ heap[k] = h
    /\ Under(c)' => call'[c].obj = k /\ (torn' \/ h = row')
    /\ ObjectsApart' /\ Placed(c)'
    /\ leased' = TRUE \/ (leased' = leased /\ row' = row)
    /\ call'[c].pc # "apply" /\ call'[c].pc # "remove" /\ ~Committing(c)'
    /\ Kind(c) = "recover" => call'[c].pc \in {"claim", "done"} \/ row.status # "cancelled"
    /\ CleanHolds(c)'
    /\ \A e \in Ids \ {c} :
         Cleaning(e) /\ call[e].obj = k /\ Under(c)' /\ ~torn' => SomeDoubled' \/ Harmless(c)'

LEMMA PlShiftOrder ==
    ASSUME PlInv, PlOrder, NEW c \in Ids, NEW k, NEW h, Shifts(c, k, h)
    PROVE  PlOrder'
<1>1. /\ plan' = plan /\ Ids' = Ids /\ PlObjects' = PlObjects /\ UNCHANGED <<kids, promised, source, journal>>
      /\ \A d \in Ids : Kind(d)' = Kind(d) /\ (Doubled(d) => Doubled(d)')
      /\ \A d \in Ids \ {c} : call'[d] = call[d]
      /\ heap'[k] = h /\ \A o \in PlObjects \ {k} : heap'[o] = heap[o]
      /\ torn' \in BOOLEAN /\ (torn => torn') /\ k \in PlObjects
  BY PlHistoryGrows DEF Shifts, OnlyTurns, PlObjects, Kind, PlInv, PlTyped
<1>2. \A d \in Ids : Under(d) => call[d].obj \in PlObjects
  BY DEF PlInv, PlCallSound
<1>3. ASSUME NEW d \in Ids \ {c}
      PROVE  /\ Under(d)' = Under(d) /\ Cleaning(d)' = Cleaning(d) /\ Kind(d)' = Kind(d)
             /\ Committing(d)' = Committing(d) /\ Harmless(d)' = Harmless(d)
             /\ Under(d) /\ ~torn' => Mine(d)' = Mine(d)
  <2>1. Kind(d)' = Kind(d)
    BY <1>1 DEF Kind
  <2>2. Under(d) /\ ~torn' => Mine(d)' = Mine(d)
    BY <1>1, <1>2 DEF Mine, Shifts
  <2>3. QED
    BY <1>1, <2>1, <2>2 DEF Under, Cleaning, Committing, Harmless, Writes, Cleans
<1>4. /\ row \in PlRows /\ row.rev \in Nat /\ \A o \in PlObjects : heap[o].rev \in Nat /\ heap[o].rev <= row.rev
      /\ RowMoves /\ h.rev = row'.rev
  BY DEF PlInv, PlTyped, PlRows, PlOrder, Revisions, Shifts
<1>5. \A d \in Ids \ {c} : Under(d) => Mine(d).rev <= row.rev /\ Mine(d).rev \in Nat
  BY <1>2, <1>4 DEF Mine
<1>6. RecordsSound' /\ Revisions'
  <2>1. (\A i \in PlItems : Committed(i) => Committed(i)') /\ (AllCommitted => AllCommitted')
    BY PlHistoryGrows DEF Shifts
  <2>3. RecordSound(heap[k])'
    BY <1>1, <2>1 DEF RecordSound, Shifts
  <2>4. RecordSound(row)'
    BY <1>1, <1>4, <2>1 DEF RecordSound, RowMoves, PlOrder, RecordsSound
  <2>5. \A o \in PlObjects \ {k} : RecordSound(heap[o])'
    BY <1>1, <2>1 DEF RecordSound, PlOrder, RecordsSound
  <2>6. QED
    BY <1>1, <1>4, <2>3, <2>4, <2>5 DEF RecordsSound, Revisions, RowMoves
<1>7. Synced'
  <2> SUFFICES ASSUME ~torn', NEW d \in Ids, Under(d)', Mine(d)'.rev = row'.rev PROVE Mine(d)' = row'
    BY <1>1 DEF Synced
  <2>1. CASE d = c
    BY <1>1, <2>1 DEF Shifts, Mine
  <2>2. CASE d # c
    <3>1. Under(d) /\ Mine(d)' = Mine(d)
      BY <1>3, <2>2
    <3>2. row' = row
      BY <1>4, <1>5, <2>2, <3>1 DEF RowMoves
    <3>3. QED
      BY <1>1, <3>1, <3>2 DEF PlOrder, Synced
  <2>3. QED
    BY <2>1, <2>2
<1>8. Started' /\ \A d \in Ids : Placed(d)'
  <2>1. Started' /\ \A d \in Ids \ {c} : ItemPlaced(d)' /\ StartPlaced(d)' /\ GatePlaced(d)' /\ VersionPlaced(d)'
    BY PlOthersPlaced DEF Shifts
  <2>2. ASSUME NEW d \in Ids \ {c} PROVE RecoveryPlaced(d)'
    BY <1>1, <1>3, <2>2 DEF PlOrder, Placed, RecoveryPlaced, Under, Cleans, Shifts
  <2>3. QED
    BY <2>1, <2>2 DEF Placed, Shifts
<1>9. ASSUME NEW d \in Ids PROVE ApplyHolds(d)'
  <2>1. CASE d = c
    BY <2>1 DEF ApplyHolds, Shifts
  <2>2. CASE d # c
    <3>1. (StartedTwice => StartedTwice') /\ (Doubled(d) => Doubled(d)')
      BY PlHistoryGrows DEF Shifts
    <3>2. QED
      BY <1>1, <1>4, <2>2, <3>1 DEF PlOrder, ApplyHolds, RowMoves
  <2>3. QED
    BY <2>1, <2>2
<1>10. PromiseHolds'
  <2>1. CASE torn' \/ promised = {}
    BY <1>1, <2>1 DEF PromiseHolds
  <2>2. CASE ~torn' /\ row.status = "cancelled" /\ AbandonedKept /\ \A d \in Ids : PromiseSafe(d)
    <3>1. AbandonedKept'
      BY <1>1, <2>2 DEF AbandonedKept
    <3>2. PromiseSafe(c)'
      BY <1>1, <2>2 DEF PromiseSafe, Shifts, OnlyTurns, Kind
    <3>3. ASSUME NEW d \in Ids \ {c} PROVE PromiseSafe(d)'
      <4>1. Committing(d) => Under(d)
        BY DEF Committing, Under, Writes
      <4>2. Under(d) /\ Mine(d).rev # row.rev => Mine(d)'.rev # row'.rev
        BY <1>3, <1>4, <1>5, <2>2, <3>3 DEF RowMoves
      <4>3. QED
        BY <1>1, <1>3, <2>2, <3>3, <4>1, <4>2 DEF PromiseSafe
    <3>4. QED
      BY <1>1, <1>4, <2>2, <3>1, <3>2, <3>3 DEF PromiseHolds, RowMoves
  <2>3. QED
    BY <1>1, <2>1, <2>2 DEF PlOrder, PromiseHolds
<1>11. ASSUME NEW e \in Ids PROVE CleanHolds(e)'
  <2>1. CASE e = c
    BY <2>1 DEF Shifts
  <2>2. CASE e # c
    <3> SUFFICES ASSUME Cleaning(e)', ~torn', ~SomeDoubled' PROVE CleanHolds(e)'
      BY DEF CleanHolds
    <3>1. Cleaning(e) /\ ~torn /\ ~SomeDoubled /\ CleanHolds(e) /\ Under(e)
      <4>1. SomeDoubled => SomeDoubled'
        BY PlHistoryGrows DEF Shifts
      <4>2. QED
        BY <1>1, <1>3, <2>2, <4>1 DEF PlOrder, Cleaning, Under, Writes
    <3>2. Mine(e)' = Mine(e) /\ call'[e] = call[e]
      BY <1>1, <1>3, <2>2, <3>1
    <3>3. ASSUME NEW d \in Ids \ {e}, Under(d)', call'[d].obj = call'[e].obj PROVE Harmless(d)'
      <4>1. CASE d = c
        BY <2>2, <3>1, <3>2, <3>3, <4>1 DEF Shifts
      <4>2. CASE d # c
        BY <1>1, <1>3, <3>1, <3>2, <3>3, <4>2 DEF CleanHolds
      <4>3. QED
        BY <4>1, <4>2
    <3>4. QED
      BY <1>1, <3>1, <3>2, <3>3 DEF CleanHolds
  <2>3. QED
    BY <2>1, <2>2
<1>12. QED
  <2>1. promised \subseteq PlItems /\ ObjectsApart'
    BY DEF PlOrder, Shifts
  <2>2. QED
    BY <1>1, <1>6, <1>7, <1>8, <1>9, <1>10, <1>11, <2>1 DEF PlOrder

LEMMA PlReadRecordOrder ==
    ASSUME PlInv, PlOrder, NEW c \in Ids, ReadRecord(c)
    PROVE  PlOrder'
<1> DEFINE o == IF Known(At(c)) /\ Kind(c) # "recover" THEN runs[At(c)] ELSE c
           foreign == row.owner # At(c) \/ Kind(c) = "recover"
           value == IF Kind(c) = "recover" /\ CleanupCandidate THEN "cleanup" ELSE ""
           pc == IF (Kind(c) = "get" /\ foreign) \/ (Kind(c) = "abandon" /\ row.status \in Closed)
                   THEN "done" ELSE IF foreign THEN "claim" ELSE "opened"
<1>1. /\ heap' = [heap EXCEPT ![o] = row] /\ call[c].pc = "idle"
      /\ call' = [call EXCEPT ![c].obj = o, ![c].value = value, ![c].pc = pc]
      /\ runs' = IF foreign \/ runs[At(c)] # NoObject \/ Kind(c) \in {"run", "abandon"}
                    THEN runs ELSE [runs EXCEPT ![At(c)] = o]
      /\ UNCHANGED <<plan, row, leased, kids, journal, merged, edits, source, promised, torn>>
  BY DEF ReadRecord
<1>2. /\ call[c] \in PlTurns /\ call \in [Ids -> PlTurns] /\ runs \in [PlBridges -> {NoObject} \cup PlObjects]
      /\ At(c) \in PlBridges /\ c \in PlObjects /\ c # NoObject /\ heap \in [PlObjects -> PlRows]
  <2>1. c \in Nat => c # NoObject
    OBVIOUS
  <2>2. QED
    BY <2>1, PlTurnOf, PlItemOf DEF PlInv, PlTyped
<1>3. /\ pc \in {"done", "claim", "opened"} /\ (Kind(c) = "recover" => pc = "claim")
      /\ value = "cleanup" => row.status \in InCleanup
      /\ Kind(c) = "recover" => foreign /\ o = c
      /\ o = c \/ (Known(At(c)) /\ o = runs[At(c)])
  <2>1. Kind(c) = "recover" => pc = "claim"
    OBVIOUS
  <2>2. value = "cleanup" => row.status \in InCleanup
    BY DEF CleanupCandidate, InCleanup
  <2>3. QED
    BY <2>1, <2>2
<1>4. o \in PlObjects /\ (o # c => heap[o].rev = row.rev)
  BY <1>2, <1>3 DEF Known
<1>5. runs' = runs \/ (~foreign /\ runs' = [runs EXCEPT ![At(c)] = o])
  BY <1>1
<1>6. UNCHANGED <<Ids, PlObjects>> /\ \A d \in Ids : Kind(d)' = Kind(d)
  BY <1>1 DEF Ids, PlObjects, Kind
<1> HIDE DEF o, foreign, value, pc
<1>7. /\ call'[c].pc = pc /\ call'[c].obj = o /\ call'[c].value = value
      /\ \A d \in Ids \ {c} : call'[d] = call[d]
  BY <1>1, <1>2 DEF PlTurns
<1>8. OnlyTurns(c)
  BY <1>1, <1>3, <1>6, <1>7 DEF OnlyTurns, JournalMoves
<1>9. Private(c) /\ ~Under(c)
  BY <1>1 DEF Private, Under
<1>10. ASSUME NEW d \in Ids \ {c}, Under(d), call[d].obj = o PROVE torn \/ heap[o] = row
  <2>1. o # c
    BY <1>9, <1>10 DEF PlOrder, ObjectsApart
  <2>2. Mine(d).rev = row.rev
    BY <1>4, <1>10, <2>1 DEF Mine
  <2>3. QED
    BY <1>10, <2>2 DEF PlOrder, Synced, Mine
<1>11. ObjectsApart'
  <2> SUFFICES ASSUME NEW e \in Ids, Private(e)'
               PROVE  /\ \A d \in Ids \ {e} : Under(d)' => call'[d].obj # e
                      /\ \A b \in PlBridges : runs'[b] # e
    BY <1>6 DEF ObjectsApart
  <2>1. CASE e = c
    <3>1. Kind(c) = "recover"
      BY <1>3, <1>6, <1>7, <2>1 DEF Private
    <3>2. runs' = runs
      BY <1>3, <1>5, <3>1
    <3>3. \A d \in Ids \ {c} : Under(d)' => Under(d) /\ call'[d].obj = call[d].obj
      BY <1>7 DEF Under
    <3>4. QED
      BY <1>9, <2>1, <3>2, <3>3 DEF PlOrder, ObjectsApart
  <2>2. CASE e # c
    <3>1. Private(e) /\ \A d \in Ids \ {c} : Under(d)' = Under(d) /\ call'[d].obj = call[d].obj
      BY <1>6, <1>7, <2>2 DEF Private, Under
    <3>2. o # e
      BY <1>2, <1>3, <2>2, <3>1 DEF PlOrder, ObjectsApart
    <3>3. \A b \in PlBridges : runs'[b] # e
      BY <1>2, <1>5, <3>1, <3>2 DEF PlOrder, ObjectsApart
    <3>4. QED
      BY <1>7, <3>1, <3>2, <3>3 DEF PlOrder, ObjectsApart
  <2>3. QED
    BY <2>1, <2>2
<1>12. Placed(c)'
  <2>1. ItemPlaced(c) /\ journal[c] = "none"
    BY <1>1 DEF PlOrder, Placed, ItemPlaced
  <2>2. ItemPlaced(c)' /\ VersionPlaced(c)'
    BY <1>1, <1>3, <1>7, <2>1 DEF ItemPlaced, VersionPlaced, AtItem, Writes
  <2>3. GatePlaced(c)'
    <3>1. PastGates(c)' => Kind(c) = "recover" /\ value = "cleanup"
      BY <1>3, <1>6, <1>7 DEF PastGates, Writes, Cleans
    <3>2. value = "cleanup" => AllCommitted
      BY <1>3 DEF PlOrder, RecordsSound, RecordSound
    <3>3. AllCommitted => AllCommitted'
      BY <1>8, PlHistoryGrows
    <3>4. QED
      BY <1>3, <1>6, <1>7, <3>1, <3>2, <3>3 DEF GatePlaced, Writes
  <2>4. StartPlaced(c)'
    <3>1. Kind(c) = "run" /\ kids # "none" => StartedTwice'
      <4> SUFFICES ASSUME Kind(c) = "run", kids # "none" PROVE StartedTwice'
        OBVIOUS
      <4>1. PICK d \in Ids : Kind(d) = "run" /\ call[d].pc # "idle"
        BY DEF PlOrder, Started
      <4>2. d # c /\ call'[d].pc # "idle" /\ call'[c].pc # "idle"
        BY <1>1, <1>3, <1>7, <4>1
      <4>3. QED
        BY <1>6, <4>1, <4>2 DEF StartedTwice
    <3>2. QED
      BY <1>1, <1>3, <1>6, <1>7, <3>1 DEF StartPlaced, Writes
  <2>5. RecoveryPlaced(c)'
    BY <1>1, <1>3, <1>6, <1>7 DEF RecoveryPlaced, Cleans
  <2>6. QED
    BY <2>2, <2>3, <2>4, <2>5 DEF Placed
<1>13. CleanHolds(c)' /\ ~Committing(c)'
  BY <1>3, <1>6, <1>7 DEF CleanHolds, Cleaning, Committing, Writes
<1>14. ASSUME NEW e \in Ids \ {c}, Cleaning(e), Under(c)' PROVE SomeDoubled' \/ Harmless(c)'
  <2>1. CASE Kind(c) = "integrate"
    <3>1. AllCommitted /\ plan[c].item \in PlItems
      BY <1>14, PlItemOf DEF PlOrder, Placed, GatePlaced, PastGates, Cleaning, Under, Writes
    <3>2. PICK d \in Ids : Kind(d) = "integrate" /\ plan[d].item = plan[c].item /\ journal[d] = "committed"
      BY <3>1 DEF AllCommitted, Committed
    <3>3. d # c /\ call[d].pc # "idle"
      BY <1>1, <3>2 DEF PlOrder, Placed, ItemPlaced
    <3>4. Doubled(c)'
      BY <1>1, <1>6, <1>7, <2>1, <3>2, <3>3 DEF Doubled
    <3>5. QED
      BY <1>6, <3>4 DEF SomeDoubled
  <2>2. CASE Kind(c) # "integrate"
    BY <1>1, <1>3, <1>6, <1>7, <1>14, <2>2 DEF Harmless, Writes, Under
  <2>3. QED
    BY <2>1, <2>2
<1>15. RecordSound(row) /\ torn \in BOOLEAN
  BY DEF PlOrder, RecordsSound
<1>16. Shifts(c, o, row)
  BY <1>1, <1>3, <1>4, <1>7, <1>8, <1>10, <1>11, <1>12, <1>13, <1>14, <1>15 DEF Shifts, RowMoves
<1>17. QED
  BY <1>16, PlShiftOrder

(* A call that ends, or goes back on what it had prepared, after its object *)
(* was brought to the row's revision and nothing else was done.             *)
LEMMA PlJoinedOrder ==
    ASSUME PlInv, PlOrder, NEW c \in Ids, Under(c), NEW h, heap' = [heap EXCEPT ![call[c].obj] = h],
           UNCHANGED <<plan, row, leased, runs, kids, journal, merged, edits, source, promised>>,
           torn' \in BOOLEAN, torn => torn', Shared(c) => torn', RecordSound(h), h.rev = row.rev,
           \A d \in Ids \ {c} : call'[d] = call[d],
           \/ call'[c].pc = "done"
           \/ /\ call'[c].pc = "unwind" /\ call'[c].obj = call[c].obj /\ AtItem(c) /\ ~Private(c)
              /\ torn' \/ h = row
              /\ journal[c] # "committed"
    PROVE  PlOrder'
<1> DEFINE k == call[c].obj
<1>1. k \in PlObjects /\ UNCHANGED <<Ids, PlObjects>> /\ \A d \in Ids : Kind(d)' = Kind(d)
  BY DEF PlInv, PlCallSound, Ids, PlObjects, Kind
<1>2. OnlyTurns(c)
  BY <1>1 DEF OnlyTurns, JournalMoves
<1>3. \A d \in Ids \ {c} : Under(d)' = Under(d)
  BY DEF Under
<1>4. Placed(c) /\ (Under(c)' => call'[c].pc = "unwind" /\ Kind(c) = "integrate" /\ kids = "completed")
  BY DEF PlOrder, Placed, ItemPlaced, Under
<1>5. ~Private(c)' /\ ~Cleaning(c)' /\ ~Committing(c)' /\ ~PastGates(c)'
  BY <1>1, <1>4 DEF Private, Cleaning, Committing, PastGates, Writes, Under, Cleans
<1>6. ObjectsApart'
  BY <1>1, <1>3, <1>5 DEF PlOrder, ObjectsApart, Private, Under
<1>7. Placed(c)'
  <2>1. ItemPlaced(c)' /\ VersionPlaced(c)'
    BY <1>1, <1>4 DEF Placed, ItemPlaced, VersionPlaced, AtItem, Writes, Under
  <2>2. StartPlaced(c)' /\ GatePlaced(c)' /\ RecoveryPlaced(c)'
    BY <1>1, <1>4, <1>5 DEF StartPlaced, GatePlaced, RecoveryPlaced, Writes, Under
  <2>3. QED
    BY <2>1, <2>2 DEF Placed
<1>8. \A d \in Ids \ {c} : Under(d) /\ call[d].obj = k => torn'
  BY DEF Shared, Under
<1>9. \A e \in Ids \ {c} : Cleaning(e) /\ call[e].obj = k => torn'
  BY <1>8 DEF Cleaning, Under, Writes
<1>10. CleanHolds(c)'
  BY <1>5 DEF CleanHolds
<1>11. Kind(c) = "recover" => call'[c].pc = "done"
  BY <1>4 DEF Under
<1>12. Shifts(c, k, h)
  BY <1>1, <1>2, <1>4, <1>5, <1>6, <1>7, <1>8, <1>9, <1>10, <1>11 DEF Shifts, RowMoves
<1>13. QED
  BY <1>12, PlShiftOrder

LEMMA PlClaimRecordOrder ==
    ASSUME PlInv, PlOrder, NEW c \in Ids, ClaimRecord(c)
    PROVE  PlOrder'
<1> DEFINE own == row.owner = At(c) /\ Mine(c).gen = row.gen
           taken == ~own /\ FreeToTake(c)
           adopted == [row EXCEPT !.item = Mine(c).item, !.by = Mine(c).by, !.asked = Mine(c).asked,
                                  !.auth = Mine(c).auth, !.authAt = Mine(c).authAt,
                                  !.outcome = Mine(c).outcome]
           skip == \/ (Kind(c) = "recover" /\ ~Cleans(c) /\ own)
                   \/ (Cleans(c) /\ (Finalizing(At(c)) \/ (own /\ row.status # "cleanup_failed")))
           moved == [row EXCEPT !.rev = @ + 1, !.gen = @ + 1, !.owner = At(c)]
           k == call[c].obj
<1>1. /\ Under(c) /\ call[c].pc = "claim"
      /\ UNCHANGED <<plan, kids, journal, merged, edits, source, promised>>
      /\ UNCHANGED <<Ids, PlObjects>> /\ \A d \in Ids : Kind(d)' = Kind(d)
  BY DEF ClaimRecord, Under, Ids, PlObjects, Kind
<1>2. /\ k \in PlObjects /\ row \in PlRows /\ Mine(c) \in PlRows /\ Mine(c) = heap[k] /\ call \in [Ids -> PlTurns]
      /\ torn \in BOOLEAN /\ At(c) \in PlBridges /\ runs \in [PlBridges -> {NoObject} \cup PlObjects]
  BY <1>1, PlItemOf DEF PlInv, PlTyped, PlCallSound, Mine, PlOrder
<1>3. /\ adopted \in PlRows /\ adopted.rev = row.rev /\ adopted.status = row.status
      /\ adopted.item = Mine(c).item /\ adopted.by = Mine(c).by
  BY <1>2 DEF PlRows
<1>4. /\ moved \in PlRows /\ moved.rev = row.rev + 1 /\ moved.status = row.status
      /\ moved.item = row.item /\ moved.by = row.by
  <2>1. row.rev + 1 \in Nat /\ row.gen + 1 \in Nat
    BY <1>2 DEF PlRows
  <2>2. moved = [row EXCEPT !.rev = row.rev + 1, !.gen = row.gen + 1, !.owner = At(c)]
    OBVIOUS
  <2>3. QED
    BY <1>2, <2>1, <2>2 DEF PlRows
<1>5. RecordSound(row) /\ RecordSound(Mine(c))
  BY <1>2 DEF PlOrder, RecordsSound
<1>6. \A r : r.status = row.status /\ r.item = Mine(c).item /\ r.by = Mine(c).by => RecordSound(r)
  BY <1>5 DEF RecordSound
<1>7. CASE /\ heap' = [heap EXCEPT ![k] = adopted] /\ EndCall(c) /\ UNCHANGED <<row, leased, runs>>
           /\ torn' = (torn \/ Shared(c))
  <2> HIDE DEF adopted
  <2>1. call'[c].pc = "done" /\ \A d \in Ids \ {c} : call'[d] = call[d]
    BY <1>2, <1>7, PlTurnFields DEF EndCall
  <2>2. RecordSound(adopted)
    BY <1>3, <1>6
  <2>3. torn' \in BOOLEAN /\ (torn => torn') /\ (Shared(c) => torn')
    BY <1>2, <1>7 DEF Shared
  <2>4. QED
    BY <1>1, <1>3, <1>7, <2>1, <2>2, <2>3, PlJoinedOrder
<1>8. CASE /\ row' = (IF own THEN row ELSE moved) /\ (own \/ taken) /\ row.status \notin Closed
           /\ leased' = TRUE
           /\ heap' = [heap EXCEPT ![k] =
                         [adopted EXCEPT !.rev = row'.rev, !.gen = row'.gen, !.owner = row'.owner]]
           /\ runs' = [runs EXCEPT ![At(c)] = k]
           /\ torn' = (torn \/ Shared(c) \/ (~skip /\ heap'[k] # row'))
           /\ IF skip THEN EndCall(c) ELSE PlGo(c, "opened")
  <2> DEFINE h == [adopted EXCEPT !.rev = row'.rev, !.gen = row'.gen, !.owner = row'.owner]
  <2>1. row' \in PlRows /\ row'.status = row.status /\ row'.item = row.item /\ row'.by = row.by
        /\ (row' = row \/ row'.rev = row.rev + 1)
    BY <1>2, <1>4, <1>8
  <2>2. Cleans(c) /\ ~skip => row.status \in InCleanup
    <3>1. CASE own
      BY <3>1 DEF InCleanup
    <3>2. CASE ~own
      <4>1. ~leased
        BY <1>8, <3>2 DEF FreeToTake
      <4>2. QED
        BY <1>1, <4>1 DEF PlOrder, Placed, RecoveryPlaced, Cleans
    <3>3. QED
      BY <3>1, <3>2
  <2> HIDE DEF adopted, own, taken, moved, skip
  <2>3. h \in PlRows /\ h.rev = row'.rev /\ h.status = row.status /\ h.item = Mine(c).item /\ h.by = Mine(c).by
    BY <1>3, <2>1 DEF PlRows
  <2>4. heap' = [heap EXCEPT ![k] = h] /\ heap'[k] = h
    BY <1>2, <1>8 DEF PlInv, PlTyped
  <2> HIDE DEF h
  <2>5. RecordSound(h)
    BY <1>6, <2>3
  <2>6. /\ torn' \in BOOLEAN /\ (torn => torn') /\ (Shared(c) => torn') /\ (skip \/ torn' \/ h = row')
    BY <1>2, <1>8, <2>4 DEF Shared
  <2>7. /\ call'[c].pc = "done" \/ (call'[c].pc = "opened" /\ ~skip)
        /\ call'[c].pc = "opened" => call'[c].obj = k /\ call'[c].value = call[c].value
        /\ \A d \in Ids \ {c} : call'[d] = call[d]
    BY <1>2, <1>8, PlTurnFields DEF EndCall, PlGo, TurnIs
  <2>8. OnlyTurns(c)
    BY <1>1, <2>7 DEF OnlyTurns, JournalMoves
  <2>9. Placed(c) /\ journal[c] \in {"none", "prepared", "committed", "undone", "quarantined"}
        /\ journal[c] # "committed"
    BY <1>1 DEF PlOrder, Placed, ItemPlaced, Writes, PlInv, PlTyped, PlJournal
  <2>10. Placed(c)'
    <3>1. ItemPlaced(c)' /\ VersionPlaced(c)'
      BY <1>1, <2>7, <2>9 DEF Placed, ItemPlaced, VersionPlaced, AtItem, Writes
    <3>2. StartPlaced(c)' /\ GatePlaced(c)'
      <4>1. (StartedTwice => StartedTwice') /\ (AllCommitted => AllCommitted')
        BY <2>8, PlHistoryGrows
      <4>2. QED
        BY <1>1, <2>7, <2>9, <4>1 DEF Placed, StartPlaced, GatePlaced, PastGates, Writes, Under, Cleans
    <3>3. RecoveryPlaced(c)'
      BY <1>1, <2>7, <2>9 DEF Placed, RecoveryPlaced, Under
    <3>4. QED
      BY <3>1, <3>2, <3>3 DEF Placed
  <2>11. \A d \in Ids \ {c} : Under(d) /\ call[d].obj = k => torn'
    BY <2>6 DEF Shared, Under
  <2>12. \A e \in Ids \ {c} : Cleaning(e) /\ call[e].obj = k => torn'
    BY <2>11 DEF Cleaning, Under, Writes
  <2>13. ObjectsApart'
    <3> SUFFICES ASSUME NEW e \in Ids, Private(e)'
                 PROVE  /\ \A d \in Ids \ {e} : Under(d)' => call'[d].obj # e
                        /\ \A b \in PlBridges : runs'[b] # e
      BY <1>1 DEF ObjectsApart
    <3>1. e # c /\ Private(e)
      BY <1>1, <2>7 DEF Private
    <3>2. k # e
      BY <1>1, <3>1 DEF PlOrder, ObjectsApart
    <3>3. \A d \in Ids : Under(d)' => Under(d) /\ call'[d].obj = call[d].obj
      BY <1>1, <2>7 DEF Under
    <3>4. \A b \in PlBridges : runs'[b] # e
      BY <1>2, <1>8, <3>1, <3>2 DEF PlOrder, ObjectsApart
    <3>5. QED
      BY <3>1, <3>3, <3>4 DEF PlOrder, ObjectsApart
  <2>14. CleanHolds(c)'
    <3> SUFFICES ASSUME Cleaning(c)', ~torn' PROVE CleanHolds(c)'
      BY DEF CleanHolds
    <3>1. call'[c].pc = "opened" /\ Cleans(c) /\ ~skip
      BY <1>1, <2>7 DEF Cleaning, Cleans, Writes
    <3>2. Mine(c)'.status \in InCleanup
      BY <2>2, <2>3, <2>4, <2>7, <3>1 DEF Mine
    <3>3. \A d \in Ids \ {c} : Under(d)' /\ call'[d].obj = call'[c].obj => FALSE
      BY <2>7, <2>11, <3>1 DEF Under
    <3>4. QED
      BY <1>1, <3>2, <3>3 DEF CleanHolds
  <2>15. ~Committing(c)' /\ row.status # "cancelled"
    BY <1>8, <2>7 DEF Committing, Writes, Closed
  <2>16. Shifts(c, k, h)
    BY <1>1, <1>2, <1>8, <2>1, <2>3, <2>4, <2>5, <2>6, <2>7, <2>8, <2>10, <2>11, <2>12, <2>13, <2>14, <2>15
       DEF Shifts, RowMoves, Under
  <2>17. QED
    BY <2>16, PlShiftOrder
<1>9. QED
  BY <1>7, <1>8 DEF ClaimRecord

(* A write that the row accepts: the row and the object are the same new    *)
(* record of the next revision, and the lease is renewed.                   *)
Publishes(c, n) ==
    /\ Under(c) /\ OnlyTurns(c) /\ UNCHANGED <<source, journal, torn>>
    /\ row' = n /\ heap' = [heap EXCEPT ![call[c].obj] = n] /\ n.rev = row.rev + 1 /\ leased' = TRUE
    /\ Mine(c).rev = row.rev
    /\ call'[c].pc = "done" \/ call'[c].obj = call[c].obj
    /\ call'[c].pc \notin {"idle", "claim"}
    /\ \A b \in PlBridges : runs'[b] = runs[b] \/ runs'[b] = call[c].obj

LEMMA PlPublished ==
    ASSUME PlInv, PlOrder, NEW c \in Ids, NEW n, Publishes(c, n), RecordSound(row)'
    PROVE  /\ UNCHANGED <<Ids, PlObjects>> /\ (\A d \in Ids : Kind(d)' = Kind(d))
           /\ RecordsSound' /\ Revisions' /\ Synced' /\ ObjectsApart' /\ Started'
           /\ \A d \in Ids \ {c} : /\ Placed(d)' /\ call'[d] = call[d] /\ Under(d)' = Under(d)
                                   /\ call[d].obj # call[c].obj /\ Under(d) => Mine(d)' = Mine(d)
           /\ torn \/ Mine(c) = row
           /\ \A d \in Ids \ {c} : Under(d) /\ Mine(d).rev # row.rev => Mine(d)'.rev # row'.rev
<1> DEFINE k == call[c].obj
<1>1. /\ plan' = plan /\ UNCHANGED <<Ids, PlObjects>> /\ \A d \in Ids : Kind(d)' = Kind(d)
      /\ \A d \in Ids \ {c} : call'[d] = call[d] /\ Under(d)' = Under(d)
  BY DEF Publishes, OnlyTurns, PlObjects, Kind, Under
<1>2. /\ k \in PlObjects /\ heap \in [PlObjects -> PlRows] /\ heap'[k] = n /\ row' = n
      /\ \A o \in PlObjects \ {k} : heap'[o] = heap[o]
      /\ row.rev \in Nat /\ n.rev = row.rev + 1
      /\ \A o \in PlObjects : heap[o].rev \in Nat /\ heap[o].rev <= row.rev
  BY DEF PlInv, PlTyped, PlCallSound, PlRows, Publishes, PlOrder, Revisions
<1>3. \A d \in Ids : Under(d) => call[d].obj \in PlObjects
  BY DEF PlInv, PlCallSound
<1>4. RecordsSound' /\ Revisions'
  <2>1. (\A i \in PlItems : Committed(i) => Committed(i)') /\ (AllCommitted => AllCommitted')
        /\ (kids = "completed" => kids' = "completed")
    BY PlHistoryGrows DEF Publishes, OnlyTurns
  <2>2. \A o \in PlObjects \ {k} : RecordSound(heap[o])'
    BY <1>1, <1>2, <2>1 DEF RecordSound, PlOrder, RecordsSound
  <2>3. ASSUME NEW o \in PlObjects, o = k PROVE RecordSound(heap[o])'
    <3>1. heap'[o] = row'
      BY <1>2, <2>3
    <3>2. QED
      BY <3>1 DEF RecordSound
  <2>4. QED
    BY <1>1, <1>2, <2>2, <2>3 DEF RecordsSound, Revisions
<1>5. ASSUME NEW d \in Ids, Under(d)' PROVE Mine(d)' = row' \/ (d # c /\ Mine(d)' = Mine(d) /\ Under(d))
  <2>1. CASE call'[d].obj = k
    BY <1>2, <2>1 DEF Mine
  <2>2. CASE call'[d].obj # k
    <3>1. d # c
      BY <1>5, <2>2 DEF Publishes, Under
    <3>2. QED
      BY <1>1, <1>2, <1>3, <1>5, <2>2, <3>1 DEF Mine
  <2>3. QED
    BY <2>1, <2>2
<1>6. \A d \in Ids : Under(d) => Mine(d).rev \in Nat /\ Mine(d).rev <= row.rev
  BY <1>2, <1>3 DEF Mine
<1>7. Synced'
  <2> SUFFICES ASSUME NEW d \in Ids, Under(d)', Mine(d)'.rev = row'.rev PROVE Mine(d)' = row'
    BY <1>1 DEF Synced
  <2>1. QED
    BY <1>2, <1>5, <1>6
<1>8. ObjectsApart'
  <2> SUFFICES ASSUME NEW e \in Ids, Private(e)'
               PROVE  /\ \A d \in Ids \ {e} : Under(d)' => call'[d].obj # e
                      /\ \A b \in PlBridges : runs'[b] # e
    BY <1>1 DEF ObjectsApart
  <2>1. e # c
    BY DEF Private, Publishes
  <2>2. Private(e)
    BY <1>1, <2>1 DEF Private
  <2>3. k # e
    BY <2>1, <2>2 DEF PlOrder, ObjectsApart, Publishes
  <2>4. \A d \in Ids : Under(d)' => Under(d) /\ call'[d].obj = call[d].obj
    BY <1>1 DEF Publishes, Under
  <2>5. QED
    BY <2>1, <2>2, <2>3, <2>4 DEF PlOrder, ObjectsApart, Publishes
<1>9. Started' /\ \A d \in Ids \ {c} : ItemPlaced(d)' /\ StartPlaced(d)' /\ GatePlaced(d)' /\ VersionPlaced(d)'
  BY PlOthersPlaced DEF Publishes
<1>10. ASSUME NEW d \in Ids \ {c} PROVE Placed(d)'
  <2>1. RecoveryPlaced(d)'
    BY <1>1 DEF PlOrder, Placed, RecoveryPlaced, Publishes, Under
  <2>2. QED
    BY <1>9, <2>1 DEF Placed
<1>11. ASSUME NEW d \in Ids \ {c}, call[d].obj # call[c].obj, Under(d) PROVE Mine(d)' = Mine(d)
  BY <1>1, <1>2, <1>3, <1>11 DEF Mine
<1>12. torn \/ Mine(c) = row
  BY DEF PlOrder, Synced, Publishes
<1>13. ASSUME NEW d \in Ids \ {c}, Under(d), Mine(d).rev # row.rev PROVE Mine(d)'.rev # row'.rev
  <2>1. call[d].obj # call[c].obj
    BY <1>13 DEF Publishes, Mine
  <2>2. Mine(d)' = Mine(d)
    BY <1>11, <1>13, <2>1
  <2>3. QED
    BY <1>2, <1>6, <1>13, <2>2
<1>14. QED
  BY <1>1, <1>4, <1>7, <1>8, <1>9, <1>10, <1>11, <1>12, <1>13

LEMMA PlActivateOrder ==
    ASSUME PlInv, PlOrder, NEW c \in Ids, ActivateChildren(c)
    PROVE  PlOrder'
<1> DEFINE n == [Mine(c) EXCEPT !.status = "running", !.rev = @ + 1]
<1>1. /\ Under(c) /\ Kind(c) = "run" /\ call'[c].pc = "done" /\ (\A d \in Ids \ {c} : call'[d] = call[d])
      /\ UNCHANGED <<plan, Ids, journal, merged, edits, source, promised, torn>>
      /\ call \in [Ids -> PlTurns] /\ edits \in Nat
  BY PlTurnFields DEF ActivateChildren, EndCall, Under, PlInv, PlTyped, Ids
<1>2. CASE UNCHANGED <<row, heap, runs, kids, leased>>
  <2>1. WorldMoves
    BY <1>1, <1>2 DEF WorldMoves, StandsAs
  <2>2. QED
    BY <2>1, PlWorldOrder
<1>3. CASE /\ PlAccepted(c) /\ row.status = "planned" /\ kids = "none"
           /\ row' = n /\ heap' = [heap EXCEPT ![call[c].obj] = row']
           /\ runs' = [runs EXCEPT ![At(c)] = call[c].obj]
           /\ kids' = "active" /\ leased' = TRUE
  <2>1. Mine(c) \in PlRows /\ Mine(c).rev = row.rev /\ RecordSound(Mine(c))
          /\ runs \in [PlBridges -> {NoObject} \cup PlObjects]
    BY <1>1, <1>3 DEF PlAccepted, Mine, PlInv, PlTyped, PlCallSound, PlOrder, RecordsSound
  <2>2. /\ n.rev = row.rev + 1 /\ n.status = "running" /\ n.item = Mine(c).item /\ n.by = Mine(c).by
    <3>1. n = [Mine(c) EXCEPT !.status = "running", !.rev = Mine(c).rev + 1]
      OBVIOUS
    <3>2. QED
      BY <2>1, <3>1 DEF PlRows
  <2>3. OnlyTurns(c)
    BY <1>1, <1>3 DEF OnlyTurns, JournalMoves
  <2>4. \A i \in PlItems : Mine(c).item[i] = "planned"
    BY <1>3, <2>1 DEF RecordSound
  <2>5. RecordSound(row)'
    <3>1. \A i \in PlItems : Committed(i) => Committed(i)'
      BY <2>3, PlHistoryGrows
    <3>2. \A d \in Ids : Kind(d)' = Kind(d)
      BY <1>1 DEF Kind
    <3>3. /\ \A i \in PlItems : row'.item[i] = "planned"
          /\ row'.by = Mine(c).by /\ row'.status = "running"
      BY <1>3, <2>2, <2>4
    <3>4. \A i \in PlItems : row'.by[i] # 0 => row'.by[i] \in Ids /\ Kind(row'.by[i]) = "integrate"
            /\ plan[row'.by[i]].item = i
      BY <2>1, <3>3 DEF RecordSound
    <3>5. QED
      BY <1>1, <3>2, <3>3, <3>4 DEF RecordSound, InCleanup
  <2> HIDE DEF n
  <2>6. Publishes(c, n)
    BY <1>1, <1>3, <2>1, <2>2, <2>3 DEF Publishes
  <2>7. /\ (\A d \in Ids : Kind(d)' = Kind(d))
        /\ RecordsSound' /\ Revisions' /\ Synced' /\ ObjectsApart' /\ Started'
        /\ \A d \in Ids \ {c} : /\ Placed(d)' /\ call'[d] = call[d] /\ Under(d)' = Under(d)
                                /\ call[d].obj # call[c].obj /\ Under(d) => Mine(d)' = Mine(d)
        /\ torn \/ Mine(c) = row
    BY <2>5, <2>6, PlPublished
  <2>8. Placed(c)'
    BY <1>1, <2>7 DEF PlOrder, Placed, ItemPlaced, AtItem, StartPlaced, GatePlaced, PastGates,
       VersionPlaced, RecoveryPlaced, Under, Writes
  <2>9. \A d \in Ids : ApplyHolds(d)'
    <3>1. \A d \in Ids : call'[d].pc # "apply"
      BY <1>1, <1>3 DEF PlOrder, Placed, ItemPlaced, AtItem
    <3>2. QED
      BY <1>1, <3>1 DEF ApplyHolds
  <2>10. PromiseHolds' 
    BY <1>1, <1>3 DEF PlOrder, PromiseHolds
  <2>11. ASSUME NEW e \in Ids PROVE CleanHolds(e)'
    <3> SUFFICES ASSUME Cleaning(e)', ~torn', ~SomeDoubled' PROVE CleanHolds(e)'
      BY DEF CleanHolds
    <3>1. e # c
      BY <1>1 DEF Cleaning, Writes
    <3>2. Cleaning(e) /\ ~torn /\ ~SomeDoubled /\ CleanHolds(e) /\ Under(e)
      <4>1. SomeDoubled => SomeDoubled'
        BY <2>3, PlHistoryGrows
      <4>2. QED
        BY <1>1, <2>7, <3>1, <4>1 DEF PlOrder, Cleaning, Under, Writes, Cleans
    <3>3. Mine(c).status = "planned"
      BY <1>3, <2>7, <3>2
    <3>4. call[e].obj # call[c].obj
      BY <3>2, <3>3 DEF CleanHolds, Mine, InCleanup, Closed
    <3>5. Mine(e)' = Mine(e) /\ call'[e] = call[e]
      BY <2>7, <3>1, <3>2, <3>4
    <3>6. ASSUME NEW d \in Ids \ {e}, Under(d)', call'[d].obj = call'[e].obj PROVE Harmless(d)'
      <4>1. d # c
        BY <1>1, <3>6 DEF Under
      <4>2. Under(d) /\ call'[d] = call[d] /\ call[d].obj = call[e].obj
        BY <2>7, <3>5, <3>6, <4>1
      <4>3. QED
        BY <2>7, <3>2, <3>6, <4>2 DEF CleanHolds, Harmless, Writes
    <3>7. QED
      BY <1>1, <3>2, <3>5, <3>6 DEF CleanHolds
  <2>12. QED
    BY <1>1, <2>7, <2>8, <2>9, <2>10, <2>11 DEF PlOrder
<1>4. QED
  BY <1>2, <1>3 DEF ActivateChildren

(* What a write makes of the status and of the items of a record.           *)
Unsure(o, i) == o.item[i] \in {"integrating", "quarantined"} /\ o.by[i] # 0
Verdict(o, i) == IF Unsure(o, i) THEN Settled(o, i) ELSE o.item[i]
Awaiting == {"awaiting_integration", "awaiting_finalization"}

LEMMA PlReconciledItems ==
    ASSUME NEW o \in PlRows
    PROVE  /\ Reconciled(o).by = o.by /\ \A i \in PlItems : Reconciled(o).item[i] = Verdict(o, i)
           /\ \/ Reconciled(o).status = o.status
              \/ o.status = "awaiting_integration" /\ Reconciled(o).status = "awaiting_finalization"
           /\ Reconciled(o) \in PlRows
<1> DEFINE unsure == {i \in PlItems : o.item[i] \in {"integrating", "quarantined"} /\ o.by[i] # 0}
           item == [i \in PlItems |-> IF i \in unsure THEN Settled(o, i) ELSE o.item[i]]
           n == [o EXCEPT !.item = item]
<1>1. \A i \in PlItems : item[i] = Verdict(o, i)
  BY DEF Verdict, Unsure
<1>2. Reconciled(o) = IF n # o /\ AllIntegrated(n) /\ n.status = "awaiting_integration"
                        THEN [n EXCEPT !.status = "awaiting_finalization"] ELSE n
  BY DEF Reconciled
<1> HIDE DEF item
<1>3. n.by = o.by /\ n.item = item /\ n.status = o.status
  BY DEF PlRows
<1>4. [n EXCEPT !.status = "awaiting_finalization"].by = n.by
      /\ [n EXCEPT !.status = "awaiting_finalization"].item = n.item
      /\ [n EXCEPT !.status = "awaiting_finalization"].status = "awaiting_finalization"
  BY DEF PlRows
<1> HIDE DEF n
<1>5. QED
  BY <1>1, <1>2, <1>3, <1>4, PlReconciledIs DEF PlKeepsNames, PlSame

LEMMA PlRefreshedItems ==
    ASSUME NEW o \in PlRows
    PROVE  /\ o.status \in FrozenStatuses => Refreshed(o) = o
           /\ Refreshed(o).by = o.by
           /\ \A i \in PlItems : \/ Refreshed(o).item[i] \in {o.item[i], Verdict(o, i)}
                                 \/ kids = "completed" /\ Refreshed(o).item[i] = "pending"
                                      /\ Verdict(o, i) = "planned"
           /\ Refreshed(o).status \in {o.status, "failed", "running"} \cup Awaiting
           /\ kids = "completed" => Refreshed(o).status \in {o.status} \cup Awaiting
<1> DEFINE n == Reconciled(o)
           item == [i \in PlItems |-> IF n.item[i] = "planned" THEN "pending" ELSE n.item[i]]
<1>1. n.by = o.by /\ (\A i \in PlItems : n.item[i] = Verdict(o, i)) /\ n \in PlRows
      /\ n.status \in {o.status, "awaiting_finalization"}
  BY PlReconciledItems
<1>2. CASE o.status \in FrozenStatuses
  <2>1. Refreshed(o) = o
    BY <1>2 DEF Refreshed
  <2>2. QED
    BY <2>1 DEF Awaiting
<1>3. CASE o.status \notin FrozenStatuses /\ kids = "failed"
  <2>1. Refreshed(o) = [n EXCEPT !.status = "failed"]
    BY <1>3 DEF Refreshed
  <2> HIDE DEF n
  <2>2. QED
    BY <1>1, <1>3, <2>1 DEF PlRows
<1>4. CASE o.status \notin FrozenStatuses /\ kids = "active"
  <2>1. Refreshed(o) = [n EXCEPT !.status = "running"]
    BY <1>4 DEF Refreshed
  <2> HIDE DEF n
  <2>2. QED
    BY <1>1, <1>4, <2>1 DEF PlRows
<1>5. CASE o.status \notin FrozenStatuses /\ kids = "completed" /\ AllIntegrated(n)
  <2>1. Refreshed(o) = [n EXCEPT !.status = "awaiting_finalization"]
    BY <1>5 DEF Refreshed
  <2> HIDE DEF n
  <2>2. QED
    BY <1>1, <1>5, <2>1 DEF PlRows, Awaiting
<1>6. CASE o.status \notin FrozenStatuses /\ kids = "completed" /\ ~AllIntegrated(n)
  <2>1. Refreshed(o) = [n EXCEPT !.status = "awaiting_integration", !.item = item]
    BY <1>6 DEF Refreshed
  <2>2. \A i \in PlItems : item[i] = n.item[i] \/ (item[i] = "pending" /\ n.item[i] = "planned")
    OBVIOUS
  <2> HIDE DEF n, item
  <2>3. Refreshed(o).by = n.by /\ Refreshed(o).item = item /\ Refreshed(o).status = "awaiting_integration"
    BY <1>1, <2>1 DEF PlRows
  <2>4. QED
    BY <1>1, <1>6, <2>2, <2>3 DEF Awaiting
<1>7. CASE o.status \notin FrozenStatuses /\ kids \notin {"failed", "active", "completed"}
  <2>1. Refreshed(o) = n
    BY <1>7 DEF Refreshed
  <2> HIDE DEF n
  <2>2. QED
    BY <1>1, <1>7, <2>1 DEF Awaiting
<1>8. QED
  BY <1>2, <1>3, <1>4, <1>5, <1>6, <1>7

StatusMoves(c, o, status) ==
    \/ call[c].patch \in {"refresh", "reconcile", "reserve", "result", "defer", "", "note"} /\ status = o.status
    \/ /\ call[c].patch = "refresh" /\ o.status \notin FrozenStatuses
       /\ status \in {"failed", "running"} \cup Awaiting /\ (kids = "completed" => status \in Awaiting)
    \/ call[c].patch = "reconcile" /\ o.status = "awaiting_integration" /\ status = "awaiting_finalization"
    \/ call[c].patch \in {"result", "defer"} /\ o.status \notin Closed /\ status = "awaiting_finalization"
    \/ call[c].patch = "abandon" /\ status = "cancelled"
    \/ call[c].patch = "finalizing" /\ status = "finalizing"
    \/ call[c].patch = "set" /\ status = call[c].value
    \/ call[c].patch = "authorize" /\ status = "cleanup_pending"
    \/ call[c].patch = "finish" /\ status \in {"cleanup_failed", "completed"}
    \/ call[c].patch = "retain" /\ status = "completed"
ItemMoves(c, o, n, i) ==
    \/ n.item[i] = o.item[i] /\ n.by[i] = o.by[i]
    \/ /\ call[c].patch \in {"refresh", "reconcile"} /\ n.by[i] = o.by[i]
       /\ n.item[i] = Verdict(o, i) \/ (kids = "completed" /\ Verdict(o, i) = "planned" /\ n.item[i] = "pending")
    \/ call[c].patch = "reserve" /\ i = plan[c].item /\ n.item[i] = "integrating" /\ n.by[i] = c
    \/ call[c].patch = "result" /\ i = plan[c].item /\ n.item[i] = ItemAfter(c, o) /\ n.by[i] \in {o.by[i], c}

LEMMA PlResultItems ==
    ASSUME PlInv, NEW c \in Ids, NEW o \in PlRows, call[c].patch = "result"
    PROVE  StatusMoves(c, o, WithResult(c, o).status) /\ \A i \in PlItems : ItemMoves(c, o, WithResult(c, o), i)
<1> DEFINE i == plan[c].item
           by == IF journal[c] = "committed" THEN c ELSE o.by[i]
           asked == IF call[c].value = "applied_and_asked" THEN o.asked \cup {i} ELSE o.asked \ {i}
           n == [o EXCEPT !.item[i] = ItemAfter(c, o), !.by[i] = by, !.asked = asked]
<1>1. i \in PlItems /\ c \in Nat /\ ItemAfter(c, o) \in ItemStatuses
  BY PlItemOf DEF ItemAfter, ItemStatuses
<1>2. WithResult(c, o) = IF n.item[i] = "integrated" /\ AllIntegrated(n) /\ n.status \notin Closed
                           THEN [n EXCEPT !.status = "awaiting_finalization"] ELSE n
  BY DEF WithResult
<1>3. by \in {o.by[i], c}
  OBVIOUS
<1> HIDE DEF by, asked
<1>4. /\ n.status = o.status /\ n.item[i] = ItemAfter(c, o) /\ n.by[i] = by
      /\ \A j \in PlItems \ {i} : n.item[j] = o.item[j] /\ n.by[j] = o.by[j]
  BY <1>1 DEF PlRows
<1>5. [n EXCEPT !.status = "awaiting_finalization"].by = n.by
      /\ [n EXCEPT !.status = "awaiting_finalization"].item = n.item
      /\ [n EXCEPT !.status = "awaiting_finalization"].status = "awaiting_finalization"
  BY DEF PlRows
<1> HIDE DEF n
<1>6. /\ WithResult(c, o).by = n.by /\ WithResult(c, o).item = n.item
      /\ WithResult(c, o).status = o.status
           \/ (o.status \notin Closed /\ WithResult(c, o).status = "awaiting_finalization")
  BY <1>2, <1>4, <1>5
<1>7. QED
  BY <1>3, <1>4, <1>6 DEF StatusMoves, ItemMoves

LEMMA PlPatchedItems ==
    ASSUME PlInv, NEW c \in Ids, call[c].pc = "write", NEW o \in PlRows
    PROVE  StatusMoves(c, o, Patched(c, o).status) /\ \A i \in PlItems : ItemMoves(c, o, Patched(c, o), i)
<1> DEFINE n == Patched(c, o)
<1>1. call[c] \in PlTurns /\ plan[c].item \in PlItems /\ c \in Nat
  BY PlTurnOf, PlItemOf
<1>2. CASE call[c].patch = "refresh"
  <2>1. n = Refreshed(o)
    BY <1>2 DEF Patched
  <2> HIDE DEF n
  <2>2. StatusMoves(c, o, n.status)
    BY <1>2, <2>1, PlRefreshedItems DEF StatusMoves
  <2>3. \A i \in PlItems : ItemMoves(c, o, n, i)
    BY <1>2, <2>1, PlRefreshedItems DEF ItemMoves
  <2>4. QED
    BY <2>2, <2>3 DEF n
<1>3. CASE call[c].patch = "reconcile"
  <2>1. n = Reconciled(o)
    BY <1>3 DEF Patched
  <2> HIDE DEF n
  <2>2. QED
    BY <1>3, <2>1, PlReconciledItems DEF StatusMoves, ItemMoves, n
<1>4. CASE call[c].patch = "reserve"
  <2>1. n = [o EXCEPT !.item[plan[c].item] = "integrating", !.by[plan[c].item] = c]
    BY <1>4 DEF Patched
  <2> HIDE DEF n
  <2>2. /\ n.status = o.status /\ n.item[plan[c].item] = "integrating" /\ n.by[plan[c].item] = c
        /\ \A j \in PlItems \ {plan[c].item} : n.item[j] = o.item[j] /\ n.by[j] = o.by[j]
    BY <1>1, <2>1 DEF PlRows
  <2>3. QED
    BY <1>4, <2>2 DEF StatusMoves, ItemMoves, n
<1>5. CASE call[c].patch = "result"
  <2>1. n = WithResult(c, o)
    BY <1>5 DEF Patched
  <2>2. QED
    BY <1>5, <2>1, PlResultItems
<1>6. CASE call[c].patch \in {"abandon", "finalizing", "defer", "set", "retain"}
  <2>1. \/ call[c].patch = "defer" /\ o.status \in Closed /\ n = o
        \/ call[c].patch = "abandon" /\ n = [o EXCEPT !.status = "cancelled"]
        \/ call[c].patch = "finalizing" /\ n = [o EXCEPT !.status = "finalizing"]
        \/ call[c].patch = "defer" /\ o.status \notin Closed /\ n = [o EXCEPT !.status = "awaiting_finalization"]
        \/ call[c].patch = "set" /\ n = [o EXCEPT !.status = call[c].value]
        \/ call[c].patch = "retain" /\ n = [o EXCEPT !.status = "completed"]
    BY <1>6 DEF Patched
  <2> HIDE DEF n
  <2>2. n.item = o.item /\ n.by = o.by
    BY <2>1 DEF PlRows
  <2>3. \/ call[c].patch = "defer" /\ n.status = o.status
        \/ call[c].patch = "abandon" /\ n.status = "cancelled"
        \/ call[c].patch = "finalizing" /\ n.status = "finalizing"
        \/ call[c].patch = "defer" /\ o.status \notin Closed /\ n.status = "awaiting_finalization"
        \/ call[c].patch = "set" /\ n.status = call[c].value
        \/ call[c].patch = "retain" /\ n.status = "completed"
    BY <2>1 DEF PlRows
  <2>4. StatusMoves(c, o, n.status)
    BY <2>3 DEF StatusMoves
  <2>5. QED
    BY <2>2, <2>4 DEF ItemMoves, n
<1>7. CASE call[c].patch = "authorize"
  <2>1. n = [o EXCEPT !.status = "cleanup_pending", !.auth = {i \in PlItems : call[c].out[i] = "authorized"},
                      !.authAt = call[c].ver, !.outcome = call[c].out]
    BY <1>7 DEF Patched
  <2> HIDE DEF n
  <2>2. n.status = "cleanup_pending" /\ n.item = o.item /\ n.by = o.by
    BY <2>1 DEF PlRows
  <2>3. QED
    BY <1>7, <2>2 DEF StatusMoves, ItemMoves, n
<1>8. CASE call[c].patch = "finish"
  <2>1. PICK status \in {"cleanup_failed", "completed"} : n = [o EXCEPT !.outcome = call[c].out, !.status = status]
    BY <1>8 DEF Patched
  <2> HIDE DEF n
  <2>2. n.status = status /\ n.item = o.item /\ n.by = o.by
    BY <2>1 DEF PlRows
  <2>3. QED
    BY <1>8, <2>2 DEF StatusMoves, ItemMoves, n
<1>9. CASE call[c].patch \in {"", "note"}
  <2>1. n = o
    BY <1>9 DEF Patched
  <2>2. QED
    BY <1>9, <2>1 DEF StatusMoves, ItemMoves
<1>10. QED
  BY <1>1, <1>2, <1>3, <1>4, <1>5, <1>6, <1>7, <1>8, <1>9 DEF PlTurns, PlPatches

LEMMA PlPatchedSound ==
    ASSUME PlInv, PlOrder, NEW c \in Ids, call[c].pc = "write", NEW o \in PlRows, RecordSound(o)
    PROVE  RecordSound(Patched(c, o))
<1> DEFINE n == Patched(c, o)
<1>1. StatusMoves(c, o, n.status) /\ (\A i \in PlItems : ItemMoves(c, o, n, i)) /\ PlCallSound(c) /\ Placed(c)
  BY PlPatchedItems DEF PlInv, PlOrder
<1> HIDE DEF n
<1>2. n.status \in InCleanup => AllCommitted
  <2>1. CASE n.status = o.status
    BY <2>1 DEF RecordSound
  <2>2. CASE call[c].patch \in {"authorize", "finish"}
    BY <1>1, <2>2 DEF Placed, GatePlaced, PastGates, Writes
  <2>3. CASE n.status # o.status /\ call[c].patch \notin {"authorize", "finish"}
    BY <1>1, <2>3 DEF StatusMoves, PlCallSound, PlVerdicts, InCleanup, Awaiting
  <2>4. QED
    BY <2>1, <2>2, <2>3
<1>3. ASSUME NEW i \in PlItems
      PROVE  /\ n.by[i] # 0 => n.by[i] \in Ids /\ Kind(n.by[i]) = "integrate" /\ plan[n.by[i]].item = i
             /\ n.item[i] = "integrated" => Committed(i)
             /\ n.item[i] # "planned" => kids = "completed"
  <2>1. /\ o.by[i] # 0 => o.by[i] \in Ids /\ Kind(o.by[i]) = "integrate" /\ plan[o.by[i]].item = i
        /\ o.item[i] = "integrated" => Committed(i)
        /\ o.item[i] # "planned" => kids = "completed"
    BY DEF RecordSound
  <2>2. CASE n.item[i] = o.item[i] /\ n.by[i] = o.by[i]
    BY <2>1, <2>2
  <2>3. Verdict(o, i) = "integrated" => Committed(i)
    <3>1. Unsure(o, i) /\ Settled(o, i) = "integrated" => journal[o.by[i]] = "committed"
      BY DEF Unsure, Settled
    <3>2. QED
      BY <2>1, <3>1 DEF Verdict, Unsure, Committed
  <2>4. Verdict(o, i) # "planned" => o.item[i] # "planned"
    BY DEF Verdict, Unsure
  <2>5. CASE /\ call[c].patch \in {"refresh", "reconcile"} /\ n.by[i] = o.by[i]
             /\ n.item[i] = Verdict(o, i) \/ (kids = "completed" /\ n.item[i] = "pending")
    BY <2>1, <2>3, <2>4, <2>5
  <2>6. CASE call[c].patch \in {"reserve", "result"}
    <3>1. Kind(c) = "integrate" /\ kids = "completed"
      BY <1>1, <2>6 DEF Placed, ItemPlaced, AtItem, Writes
    <3>2. call[c].patch = "result" /\ ItemAfter(c, o) = "integrated" => journal[c] = "committed"
      BY <1>1 DEF Placed, ItemPlaced, Writes, ItemAfter, Applied
    <3>3. QED
      BY <1>1, <2>1, <2>6, <3>1, <3>2 DEF ItemMoves, Committed
  <2>7. QED
    BY <1>1, <2>2, <2>5, <2>6 DEF ItemMoves
<1>4. QED
  BY <1>2, <1>3 DEF RecordSound, n

(* Where a call goes on after a write.                                      *)
LEMMA PlMovedTo ==
    ASSUME PlInv, NEW c \in Ids, NEW pc, Moved(c, pc)
    PROVE  /\ pc = "done" => call'[c].pc = "done"
           /\ pc \in {"refresh", "reconcile"} => TurnIs(c, "write", pc, "")
           /\ pc \notin {"done", "refresh", "reconcile"} => TurnIs(c, pc, call[c].patch, call[c].value)
           /\ \A d \in Ids \ {c} : call'[d] = call[d]
<1>1. call \in [Ids -> PlTurns]
  BY DEF PlInv, PlTyped
<1>2. CASE pc = "done"
  BY <1>1, <1>2, PlTurnFields DEF Moved, EndCall
<1>3. CASE pc \in {"refresh", "reconcile"}
  BY <1>1, <1>3, PlTurnFields DEF Moved, WriteNext
<1>4. CASE pc \notin {"done", "refresh", "reconcile"}
  BY <1>1, <1>4, PlTurnFields DEF Moved, PlGo
<1>5. QED
  BY <1>2, <1>3, <1>4

AfterAccepted(c) ==
    \/ call'[c].pc = "done"
    \/ /\ call[c].patch \in {"refresh", "reconcile"} /\ call'[c].obj = call[c].obj
       /\ \/ call'[c].pc = "check" /\ Kind(c) # "recover" /\ TurnIs(c, "check", call[c].patch, call[c].value)
          \/ call'[c].pc = "write" /\ call'[c].patch \in {"refresh", "reconcile"} /\ call'[c].value = ""
    \/ call[c].patch = "reserve" /\ TurnIs(c, "apply", call[c].patch, call[c].value)
    \/ call[c].patch = "finalizing" /\ TurnIs(c, "capture", call[c].patch, call[c].value)
    \/ call[c].patch = "authorize" /\ TurnIs(c, "remove", call[c].patch, call[c].value)

LEMMA PlAfterWrite ==
    ASSUME PlInv, NEW c \in Ids, Moved(c, AfterWrite(c))
    PROVE  AfterAccepted(c) /\ \A d \in Ids \ {c} : call'[d] = call[d]
<1>1. \/ AfterWrite(c) = "done"
      \/ call[c].patch = "refresh" /\ Kind(c) \notin {"get", "recover"} /\ AfterWrite(c) = "check"
      \/ call[c].patch = "refresh" /\ Kind(c) = "integrate" /\ AfterWrite(c) = "reconcile"
      \/ call[c].patch = "reconcile" /\ Kind(c) = "integrate" /\ AfterWrite(c) = "check"
      \/ call[c].patch = "reconcile" /\ AfterWrite(c) = "refresh"
      \/ call[c].patch = "reserve" /\ AfterWrite(c) = "apply"
      \/ call[c].patch = "finalizing" /\ AfterWrite(c) = "capture"
      \/ call[c].patch = "authorize" /\ AfterWrite(c) = "remove"
  BY DEF AfterWrite
<1>2. QED
  BY <1>1, PlMovedTo DEF AfterAccepted, TurnIs

(* A write that the row accepts keeps the order.  What holds of the new     *)
(* record is said of the row: both are the same.                            *)
LEMMA PlAcceptedOrder ==
    ASSUME PlInv, PlOrder, NEW c \in Ids, call[c].pc = "write", ~Refused(c, Mine(c)), PlAccepted(c),
           NEW n, n = [Patched(c, Mine(c)) EXCEPT !.rev = Mine(c).rev + 1],
           row' = n, leased' = TRUE, heap' = [heap EXCEPT ![call[c].obj] = n],
           promised' = Promise(c, Mine(c)), Moved(c, AfterWrite(c)),
           UNCHANGED <<plan, runs, kids, journal, merged, edits, source, torn>>
    PROVE  PlOrder'
<1> DEFINE o == Mine(c)
<1>1. /\ Under(c) /\ o \in PlRows /\ o.rev = row.rev /\ RecordSound(o) /\ AskedAndNamed(o) /\ call[c] \in PlTurns
      /\ PlCallSound(c) /\ Placed(c) /\ plan[c].item \in PlItems
  BY PlTurnOf, PlItemOf
    DEF PlAccepted, Mine, Under, PlInv, PlTyped, PlCallSound, PlOrder, RecordsSound, PlHonest
<1> HIDE DEF o
<1>2. /\ StatusMoves(c, o, row'.status) /\ \A i \in PlItems : ItemMoves(c, o, row', i)
      /\ row'.rev = row.rev + 1 /\ row'.status = Patched(c, o).status /\ row'.item = Patched(c, o).item
      /\ row'.by = Patched(c, o).by
  <2>1. Patched(c, o) \in PlRows /\ n = [Patched(c, o) EXCEPT !.rev = o.rev + 1]
    BY <1>1, PlPatchedIs DEF PlSame, o
  <2>2. /\ n.rev = o.rev + 1 /\ n.status = Patched(c, o).status /\ n.item = Patched(c, o).item
             /\ n.by = Patched(c, o).by
    BY <2>1 DEF PlRows
  <2>3. StatusMoves(c, o, Patched(c, o).status) /\ \A i \in PlItems : ItemMoves(c, o, Patched(c, o), i)
    BY <1>1, PlPatchedItems
  <2>4. QED
    BY <1>1, <2>2, <2>3 DEF ItemMoves
<1>3. AfterAccepted(c) /\ \A d \in Ids \ {c} : call'[d] = call[d]
  BY PlAfterWrite
<1>4. call'[c].pc \notin {"idle", "claim"} /\ (call'[c].pc = "done" \/ call'[c].obj = call[c].obj) /\ Ids' = Ids
  BY <1>3 DEF AfterAccepted, TurnIs, Ids
<1>5. OnlyTurns(c)
  BY <1>3, <1>4 DEF OnlyTurns, JournalMoves
<1>6. Publishes(c, n)
  BY <1>1, <1>2, <1>4, <1>5 DEF Publishes, o
<1>7. RecordSound(row)'
  <2>1. RecordSound(Patched(c, o))
    BY <1>1, PlPatchedSound
  <2>2. (\A i \in PlItems : Committed(i) => Committed(i)') /\ (AllCommitted => AllCommitted')
          /\ \A d \in Ids : Kind(d)' = Kind(d)
    BY <1>5, PlHistoryGrows DEF Kind
  <2>3. QED
    BY <1>2, <1>4, <2>1, <2>2 DEF RecordSound
<1>8. /\ UNCHANGED <<Ids, PlObjects>> /\ (\A d \in Ids : Kind(d)' = Kind(d))
      /\ RecordsSound' /\ Revisions' /\ Synced' /\ ObjectsApart' /\ Started'
      /\ \A d \in Ids \ {c} : /\ Placed(d)' /\ call'[d] = call[d] /\ Under(d)' = Under(d)
                              /\ call[d].obj # call[c].obj /\ Under(d) => Mine(d)' = Mine(d)
      /\ torn \/ o = row
      /\ \A d \in Ids \ {c} : Under(d) /\ Mine(d).rev # row.rev => Mine(d)'.rev # row'.rev
  BY <1>6, <1>7, PlPublished DEF o
<1>9. /\ AllCommitted => AllCommitted'
      /\ StartedTwice => StartedTwice'
      /\ \A d \in Ids : Doubled(d) => Doubled(d)'
      /\ SomeDoubled => SomeDoubled'
  BY <1>5, PlHistoryGrows
<1>10. Placed(c)'
  <2>1. ItemPlaced(c)'
    <3>1. journal[c] = "committed" => call'[c].pc = "done" /\ plan[c].item \in merged
      BY <1>1, <1>3 DEF Placed, ItemPlaced, AfterAccepted, TurnIs, Writes
    <3>2. AtItem(c)' => Kind(c) = "integrate" /\ kids = "completed"
      BY <1>1, <1>3 DEF Placed, ItemPlaced, AtItem, AfterAccepted, TurnIs, Writes
    <3>3. ~(call'[c].pc = "write" /\ call'[c].patch = "result") /\ (journal[c] # "none" => Kind(c) = "integrate")
      BY <1>1, <1>3 DEF AfterAccepted, TurnIs, Placed, ItemPlaced
    <3>4. QED
      BY <1>4, <1>8, <3>1, <3>2, <3>3 DEF ItemPlaced, Writes
  <2>2. StartPlaced(c)'
    BY <1>1, <1>3, <1>8, <1>9 DEF Placed, StartPlaced, AfterAccepted, TurnIs, Writes
  <2>3. GatePlaced(c)'
    <3>1. PastGates(c)' => PastGates(c)
      BY <1>1, <1>3, <1>8 DEF PastGates, Cleans, Under, AfterAccepted, TurnIs, Writes
    <3>2. ~(call'[c].pc = "resume") /\ ~(call'[c].pc = "write" /\ call'[c].patch \in {"retain", "defer"})
      BY <1>3 DEF AfterAccepted, TurnIs
    <3>3. QED
      BY <1>1, <1>8, <1>9, <3>1, <3>2 DEF Placed, GatePlaced, Writes
  <2>4. VersionPlaced(c)'
    BY <1>1, <1>3, <1>8 DEF Placed, VersionPlaced, AfterAccepted, TurnIs, Writes
  <2>5. RecoveryPlaced(c)'
    BY <1>1, <1>4, <1>8 DEF Placed, RecoveryPlaced, Under
  <2>6. QED
    BY <2>1, <2>2, <2>3, <2>4, <2>5 DEF Placed
<1>11. ASSUME NEW d \in Ids PROVE ApplyHolds(d)'
  <2> SUFFICES ASSUME call'[d].pc = "apply", journal[d] = "prepared", ~torn, ~Doubled(d)', ~StartedTwice'
               PROVE  row'.status \notin Closed /\ row'.item[plan[d].item] = "integrating"
                        /\ row'.by[plan[d].item] = d
    BY DEF ApplyHolds
  <2> DEFINE i == plan[d].item
  <2>1. i \in PlItems /\ o = row
    BY <1>8, PlItemOf
  <2>2. CASE d = c
    <3>1. call[c].patch = "reserve" /\ o.status \notin Closed
      BY <1>3, <2>2 DEF AfterAccepted, TurnIs, Refused, o
    <3>2. row'.status = o.status
      BY <1>2, <3>1 DEF StatusMoves
    <3>3. row'.item = [o.item EXCEPT ![i] = "integrating"] /\ row'.by = [o.by EXCEPT ![i] = c]
      <4>1. Patched(c, o) = [o EXCEPT !.item[i] = "integrating", !.by[i] = c]
        BY <2>2, <3>1 DEF Patched
      <4> HIDE DEF i
      <4>2. QED
        BY <1>1, <1>2, <4>1 DEF PlRows
    <3>4. QED
      BY <1>1, <2>1, <2>2, <3>1, <3>2, <3>3 DEF PlRows
  <2>3. CASE d # c
    <3>1. /\ call[d].pc = "apply" /\ ~Doubled(d) /\ ~StartedTwice /\ ApplyHolds(d) /\ Placed(d)
          /\ Kind(d) = "integrate" /\ kids = "completed"
      BY <1>8, <1>9, <2>3 DEF PlOrder, Placed, ItemPlaced, AtItem
    <3>2. o.status \notin Closed /\ o.item[i] = "integrating" /\ o.by[i] = d
      BY <2>1, <3>1 DEF ApplyHolds
    <3>3. ~AllCommitted
      <4> SUFFICES ASSUME AllCommitted PROVE FALSE
        OBVIOUS
      <4>1. PICK e \in Ids : Kind(e) = "integrate" /\ plan[e].item = i /\ journal[e] = "committed"
        BY <2>1 DEF AllCommitted, Committed
      <4>2. e # d /\ call[e].pc # "idle"
        BY <4>1 DEF PlOrder, Placed, ItemPlaced
      <4>3. QED
        BY <3>1, <4>1, <4>2 DEF Doubled
    <3>4. ~(Kind(c) = "integrate" /\ plan[c].item = i)
      BY <1>1, <2>3, <3>1 DEF Doubled, Under
    <3>5. call[c].patch \notin {"reserve", "result"} \/ plan[c].item # i
      BY <1>1, <3>4 DEF Placed, ItemPlaced, AtItem, Writes
    <3>6. Verdict(o, i) = "integrating"
      BY <3>2 DEF Verdict, Unsure, Settled
    <3>7. row'.item[i] = "integrating" /\ row'.by[i] = d
      <4>1. ItemMoves(c, o, row', i)
        BY <1>2, <2>1
      <4>2. QED
        BY <3>2, <3>5, <3>6, <4>1 DEF ItemMoves
    <3>8. row'.status \notin Closed
      <4>1. call[c].patch # "abandon"
        BY <2>1, <3>2 DEF Refused, o
      <4>2. call[c].patch \notin {"finish", "retain"}
        BY <1>1, <3>3 DEF Placed, GatePlaced, PastGates, Writes
      <4>3. call[c].patch = "set" => call[c].value \in Awaiting
        <5>1. call[c].patch = "set" /\ Kind(c) = "run" => FALSE
          BY <1>1, <3>1 DEF Placed, StartPlaced
        <5>2. call[c].patch = "set" /\ Kind(c) = "finalize" /\ call[c].value = "failed" => FALSE
          BY <1>1, <3>3 DEF Placed, GatePlaced, PastGates, Writes
        <5>3. QED
          BY <1>1, <5>1, <5>2 DEF Placed, StartPlaced, Writes, PlCallSound, PlVerdicts, Awaiting
      <4>4. QED
        BY <1>2, <3>1, <3>2, <4>1, <4>2, <4>3 DEF StatusMoves, Awaiting, Closed
    <3>9. QED
      BY <3>7, <3>8
  <2>4. QED
    BY <2>2, <2>3
<1>12. PromiseHolds'
  <2> SUFFICES ASSUME ~torn, promised' # {}
               PROVE  row'.status = "cancelled" /\ AbandonedKept' /\ \A d \in Ids : PromiseSafe(d)'
    BY <1>8 DEF PromiseHolds
  <2>1. o = row /\ promised' = Promise(c, o)
    BY <1>8 DEF o
  <2>2. CASE call[c].patch = "abandon" /\ ~CleanupUnderWay /\ ~ReopenedUnderWay
    <3>1. call'[c].pc = "done" /\ row'.status = "cancelled"
      BY <1>2, <1>3, <2>2 DEF AfterAccepted, StatusMoves
    <3>2. promised' = {i \in PlItems : source[i] # "removed"}
      BY <2>1, <2>2 DEF Promise
    <3>3. ASSUME NEW d \in Ids \ {c} PROVE PromiseSafe(d)'
      <4>1. call'[d] = call[d] /\ Kind(d)' = Kind(d) /\ call[d].pc # "remove"
            /\ (Kind(d) = "recover" => call[d].pc \in {"idle", "claim", "done"})
        BY <1>8, <2>2 DEF CleanupUnderWay
      <4>2. Kind(d) = "finalize" /\ Committing(d) => Mine(d).rev # row.rev /\ Under(d)
        BY <2>2 DEF ReopenedUnderWay, Committing, Writes, Under
      <4>3. Committing(d)' = Committing(d)
        BY <4>1 DEF Committing, Writes
      <4>4. QED
        BY <1>8, <4>1, <4>2, <4>3 DEF PromiseSafe
    <3>4. PromiseSafe(c)'
      BY <3>1 DEF PromiseSafe, Committing, Writes
    <3>5. QED
      BY <3>1, <3>2, <3>3, <3>4 DEF AbandonedKept
  <2>3. CASE ~(call[c].patch = "abandon" /\ ~CleanupUnderWay /\ ~ReopenedUnderWay)
    <3>1. promised' = promised /\ ~(call[c].patch = "set" /\ o.status = "cancelled")
      BY <2>1, <2>3 DEF Promise
    <3>2. o.status = "cancelled" /\ AbandonedKept /\ \A d \in Ids : PromiseSafe(d)
      BY <2>1, <3>1 DEF PlOrder, PromiseHolds
    <3>3. Kind(c) # "recover" /\ (Kind(c) = "finalize" => call[c].patch \notin {"authorize", "finish"})
      BY <1>1, <3>2 DEF PromiseSafe, Committing, Writes, o
    <3>4. call[c].patch \notin {"authorize", "finish", "retain"}
      BY <1>1, <3>3 DEF Placed, GatePlaced, PastGates, Writes
    <3>5. call[c].patch \notin {"reserve", "finalizing"}
      BY <3>2 DEF Refused, Closed, o
    <3>6. row'.status = "cancelled"
      BY <1>2, <3>1, <3>2, <3>4, <3>5 DEF StatusMoves, FrozenStatuses, Closed
    <3>7. PromiseSafe(c)'
      BY <1>3, <1>8, <3>3, <3>4, <3>5 DEF PromiseSafe, AfterAccepted, TurnIs, Committing, Writes
    <3>8. ASSUME NEW d \in Ids \ {c} PROVE PromiseSafe(d)'
      <4>1. call'[d] = call[d] /\ Kind(d)' = Kind(d) /\ PromiseSafe(d)
        BY <1>8, <3>2
      <4>2. Committing(d)' = Committing(d) /\ (Committing(d) => Under(d))
        BY <4>1 DEF Committing, Writes, Under
      <4>3. QED
        BY <1>8, <4>1, <4>2 DEF PromiseSafe
    <3>9. QED
      BY <3>1, <3>2, <3>6, <3>7, <3>8 DEF AbandonedKept
  <2>4. QED
    BY <2>2, <2>3
<1>13. ASSUME NEW e \in Ids PROVE CleanHolds(e)'
  <2> SUFFICES ASSUME Cleaning(e)', ~torn, ~SomeDoubled' PROVE CleanHolds(e)'
    BY DEF CleanHolds
  <2>1. e # c
    <3>1. call[c].patch = "authorize" => Kind(c) = "finalize"
      BY <1>1 DEF PlCallSound, Judging
    <3>2. QED
      BY <1>3, <1>8, <3>1 DEF Cleaning, AfterAccepted, TurnIs, Writes
  <2>2. /\ Cleaning(e) /\ Under(e) /\ call'[e] = call[e]
        /\ Mine(e).status \in InCleanup \cup Closed
        /\ \A d \in Ids \ {e} : Under(d) /\ call[d].obj = call[e].obj => Harmless(d)
    <3>1. Cleaning(e) /\ ~SomeDoubled /\ Under(e) /\ call'[e] = call[e]
      BY <1>8, <1>9, <2>1 DEF Cleaning, Cleans, Under, Writes
    <3>2. QED
      BY <3>1 DEF PlOrder, CleanHolds
  <2>3. ASSUME NEW d \in Ids \ {e, c}, Under(d)', call'[d].obj = call'[e].obj PROVE Harmless(d)'
    <3>1. call'[d] = call[d] /\ Under(d) /\ call[d].obj = call[e].obj /\ Kind(d)' = Kind(d)
      BY <1>8, <2>2, <2>3
    <3>2. QED
      BY <2>2, <2>3, <3>1 DEF Harmless, Writes
  <2>4. CASE call[e].obj # call[c].obj
    <3>1. Mine(e)' = Mine(e) /\ (Under(c)' => call'[c].obj # call'[e].obj)
      BY <1>4, <1>8, <2>1, <2>2, <2>4 DEF Under
    <3>2. QED
      BY <1>8, <2>2, <2>3, <3>1 DEF CleanHolds
  <2>5. CASE call[e].obj = call[c].obj
    <3>1. Harmless(c) /\ o.status \in InCleanup \cup Closed
      BY <1>1, <2>1, <2>2, <2>5 DEF Mine, o
    <3>2. call[c].patch \notin {"reserve", "result", "authorize", "finalizing", "defer"}
      BY <1>1, <3>1 DEF Harmless, Placed, ItemPlaced, AtItem, GatePlaced, Writes, PlCallSound, Judging
    <3>3. call[c].patch = "set" => call[c].value = "failed"
      BY <1>1, <3>1 DEF Harmless, Placed, StartPlaced, Writes
    <3>4. row'.status \in InCleanup \cup Closed
      BY <1>2, <3>1, <3>2, <3>3 DEF StatusMoves, InCleanup, Closed, FrozenStatuses
    <3>5. Mine(e)'.status = row'.status
      BY <1>1, <2>2, <2>5 DEF Mine, PlInv, PlTyped, PlCallSound
    <3>6. Under(c)' => Harmless(c)'
      BY <1>3, <1>8, <3>1, <3>2 DEF Harmless, AfterAccepted, TurnIs, Writes, Under
    <3>7. QED
      BY <1>8, <2>3, <3>4, <3>5, <3>6 DEF CleanHolds
  <2>6. QED
    BY <2>4, <2>5
<1>14. torn' \in BOOLEAN /\ promised' \subseteq PlItems
  BY DEF PlOrder, Promise
<1>15. QED
  <2>1. \A d \in Ids : Placed(d)'
    BY <1>8, <1>10
  <2>2. QED
    BY <1>8, <1>11, <1>12, <1>13, <1>14, <2>1 DEF PlOrder

(* A write that had nothing to do, was refused or threw.                    *)
LEMMA PlMovedQuietly ==
    ASSUME PlInv, PlOrder, NEW c \in Ids, call[c].pc = "write", NEW pc, Moved(c, pc),
           \/ pc \in {"check", "refresh", "reconcile"} /\ call[c].patch \in {"refresh", "reconcile"}
           \/ pc = "unwind" /\ call[c].patch = "reserve",
           UNCHANGED <<plan, row, heap, runs, leased, instance, running, permitted, edits, source>>, Steady
    PROVE  Orderly(c)
<1>1. /\ Under(c) /\ Late(c) /\ call[c] \in PlTurns /\ PlCallSound(c) /\ Placed(c)
      /\ journal \in [Ids -> PlJournal] /\ merged \subseteq PlItems /\ merged \subseteq merged'
  BY PlTurnOf DEF Under, Late, PlInv, PlTyped, PlOrder, Steady
<1>2. \E m : PlFits(c, m) /\ call' = [call EXCEPT ![c] = m]
  <2>1. CASE pc \in {"refresh", "reconcile"}
    <3>1. WriteNext(c, pc, "") /\ pc \in PlPatches /\ "" \in PlValues
      BY <2>1 DEF Moved, PlPatches, PlValues
    <3>2. QED
      BY <1>1, <2>1, <3>1, PlWritesNext
  <2>2. CASE pc \in {"check", "unwind"}
    <3>1. PlGo(c, pc) /\ pc \in PlPositions
      BY <2>2 DEF Moved, PlPositions
    <3>2. QED
      BY <1>1, <2>2, <3>1, PlGoes
  <2>3. QED
    BY <2>1, <2>2
<1>3. PlQuietTurn(c)
  <2>1. PlTurnTaken(c)
    BY <1>1, <1>2, PlFitTurn DEF Steady
  <2>2. QED
    BY <1>1, <2>1 DEF PlQuietTurn, PlRecordsStay, Steady, PlInv, PlTyped
<1>4. /\ \/ pc \in {"refresh", "reconcile"} /\ TurnIs(c, "write", pc, "")
         \/ pc \in {"check", "unwind"} /\ TurnIs(c, pc, call[c].patch, call[c].value)
      /\ \A d \in Ids \ {c} : call'[d] = call[d]
  BY PlMovedTo
<1>5. OnlyTurns(c)
  BY <1>3, <1>4, PlOnlyTurns DEF Steady, JournalMoves, TurnIs
<1>6. Kind(c)' = Kind(c) /\ (StartedTwice => StartedTwice') /\ (AllCommitted => AllCommitted')
  BY <1>5, PlHistoryGrows DEF Kind
<1>7. ItemPlaced(c)' /\ StartPlaced(c)' /\ GatePlaced(c)' /\ VersionPlaced(c)'
  <2>1. ItemPlaced(c)'
    BY <1>1, <1>4, <1>6 DEF Steady, Placed, ItemPlaced, AtItem, Writes, TurnIs
  <2>2. StartPlaced(c)'
    BY <1>1, <1>4, <1>6 DEF Steady, Placed, StartPlaced, Writes, TurnIs
  <2>3. GatePlaced(c)' /\ VersionPlaced(c)'
    BY <1>1, <1>4, <1>6 DEF Placed, GatePlaced, PastGates, VersionPlaced, Cleans, Under, Writes, TurnIs
  <2>4. QED
    BY <2>1, <2>2, <2>3
<1>8. QED
  BY <1>1, <1>3, <1>4, <1>5, <1>6, <1>7
     DEF Orderly, Steady, TurnIs, Committing, Cleaning, Cleans, Harmless, Writes, Under, Placed, ItemPlaced,
        AtItem

LEMMA PlWriteRecordOrder ==
    ASSUME PlInv, PlOrder, NEW c \in Ids, WriteRecord(c)
    PROVE  PlOrder'
<1> DEFINE k == call[c].obj
           o == Mine(c)
           n == [Patched(c, o) EXCEPT !.rev = o.rev + 1]
           stale == [o EXCEPT !.status = row.status, !.rev = row.rev, !.gen = row.gen, !.owner = row.owner]
<1>1. /\ call[c].pc = "write" /\ Under(c) /\ o \in PlRows /\ row \in PlRows /\ RecordSound(o) /\ RecordSound(row)
      /\ UNCHANGED <<plan, running, runs, merged, edits, source>> /\ edits \in Nat /\ torn \in BOOLEAN
      /\ call \in [Ids -> PlTurns] /\ Placed(c) /\ ~Private(c)
  BY DEF WriteRecord, Under, Mine, PlInv, PlTyped, PlCallSound, PlOrder, RecordsSound, Private
<1>2. CASE EndRefused(c) /\ UNCHANGED <<durable, heap, torn>>
  <2>1. call'[c].pc = "done" /\ \A d \in Ids \ {c} : call'[d] = call[d]
    BY <1>1, <1>2, PlTurnFields DEF EndRefused, EndCall
  <2>2. \A d \in Ids : journal'[d] = journal[d] \/ (journal[d] = "prepared" /\ journal'[d] = "undone")
    BY <1>2 DEF EndRefused, PlInv, PlTyped
  <2>3. WorldMoves
    BY <1>1, <1>2, <2>1, <2>2 DEF WorldMoves, StandsAs, durable
  <2>4. QED
    BY <2>3, PlWorldOrder
<1>3. ASSUME Moved(c, "done"), UNCHANGED <<durable, heap, journal, torn>> PROVE PlOrder'
  <2>1. call'[c].pc = "done" /\ \A d \in Ids \ {c} : call'[d] = call[d]
    BY <1>3, PlMovedTo
  <2>2. WorldMoves
    BY <1>1, <1>3, <2>1 DEF WorldMoves, StandsAs, durable
  <2>3. QED
    BY <2>2, PlWorldOrder
<1>4. CASE Quiet(c, o) /\ Moved(c, AfterWrite(c)) /\ UNCHANGED <<durable, heap, journal, torn>>
  <2>1. call[c].patch \in {"refresh", "reconcile"} /\ AfterWrite(c) \in {"refresh", "reconcile", "check", "done"}
    BY <1>4 DEF Quiet, AfterWrite
  <2>2. CASE AfterWrite(c) = "done"
    BY <1>3, <1>4, <2>2
  <2>3. CASE AfterWrite(c) # "done"
    <3>1. Orderly(c)
      BY <1>1, <1>4, <2>1, <2>3, PlMovedQuietly DEF Steady, durable
    <3>2. QED
      BY <3>1, PlOrderlyKeeps
  <2>4. QED
    BY <2>2, <2>3
<1>5. CASE /\ ~Refused(c, o) /\ PlAccepted(c)
           /\ row' = n /\ leased' = TRUE /\ heap' = [heap EXCEPT ![k] = n] /\ promised' = Promise(c, o)
           /\ Moved(c, AfterWrite(c)) /\ UNCHANGED <<instance, kids, journal, torn>>
  BY <1>1, <1>5, PlAcceptedOrder
<1>6. CASE o.owner # At(c) /\ UNCHANGED <<heap, torn>> /\ Moved(c, AfterFailure(c))
             /\ UNCHANGED <<durable, journal>>
  <2>1. CASE AfterFailure(c) = "done"
    BY <1>3, <1>6, <2>1
  <2>2. CASE call[c].patch = "reserve" /\ AfterFailure(c) = "unwind"
    <3>1. Orderly(c)
      BY <1>1, <1>6, <2>2, PlMovedQuietly DEF Steady, durable
    <3>2. QED
      BY <3>1, PlOrderlyKeeps
  <2>3. QED
    BY <2>1, <2>2 DEF AfterFailure
<1>7. CASE /\ heap' = [heap EXCEPT ![k] = stale]
           /\ torn' = (torn \/ Shared(c) \/ (AfterFailure(c) # "done" /\ stale # row))
           /\ Moved(c, AfterFailure(c)) /\ UNCHANGED <<durable, journal>>
  <2>1. stale.rev = row.rev /\ stale.status = row.status /\ stale.item = o.item /\ stale.by = o.by
    BY <1>1 DEF PlRows
  <2> HIDE DEF stale
  <2>2. RecordSound(stale)
    BY <1>1, <2>1 DEF RecordSound
  <2>3. /\ torn' \in BOOLEAN /\ (torn => torn') /\ (Shared(c) => torn')
        /\ AfterFailure(c) # "done" => torn' \/ stale = row
    BY <1>1, <1>7 DEF Shared
  <2>4. /\ \A d \in Ids \ {c} : call'[d] = call[d]
        /\ \/ call'[c].pc = "done"
           \/ /\ call[c].patch = "reserve" /\ AfterFailure(c) # "done"
              /\ call'[c].pc = "unwind" /\ call'[c].obj = call[c].obj
    BY <1>7, PlMovedTo DEF AfterFailure, TurnIs
  <2>5. call[c].patch = "reserve" => AtItem(c) /\ journal[c] # "committed"
    BY <1>1 DEF AtItem, Writes, Placed, ItemPlaced
  <2>6. QED
    BY <1>1, <1>7, <2>1, <2>2, <2>3, <2>4, <2>5, PlJoinedOrder DEF durable
<1>8. QED
  BY <1>2, <1>4, <1>5, <1>6, <1>7 DEF WriteRecord

LEMMA PlOrderStep == PlInv /\ PlOrder /\ [PipelinesNext]_pipelinevars => PlOrder'
<1> SUFFICES ASSUME PlInv, PlOrder, [PipelinesNext]_pipelinevars PROVE PlOrder'
  OBVIOUS
<1>1. CASE UNCHANGED pipelinevars
  <2>1. WorldMoves
    BY <1>1 DEF pipelinevars, WorldMoves, StandsAs, PlInv, PlTyped
  <2>2. QED
    BY <2>1, PlWorldOrder
<1>2. ASSUME NEW c \in Ids, PipelineStep(c) PROVE PlOrder'
  <2>1. CASE ReadRecord(c) \/ ClaimRecord(c) \/ WriteRecord(c) \/ ActivateChildren(c)
    BY <2>1, PlReadRecordOrder, PlClaimRecordOrder, PlWriteRecordOrder, PlActivateOrder
  <2>2. CASE \/ StartPipeline(c) \/ BeginCall(c) \/ CheckItem(c) \/ LockRepository(c) \/ PrepareOperation(c)
             \/ ApplyPatch(c) \/ UnwindOperation(c) \/ CheckAbandon(c) \/ OpenFinalization(c)
             \/ CheckFinalization(c) \/ CheckPolicy(c) \/ CaptureTarget(c) \/ Validate(c) \/ RunGates(c)
             \/ RecheckTarget(c) \/ ConsiderSources(c) \/ RemoveSource(c) \/ ResumeCleanup(c)
    <3>1. Orderly(c)
      BY <2>2, PlStartPipelineOrderly, PlBeginCallOrderly, PlCheckItemOrderly, PlLockRepositoryOrderly,
         PlPrepareOperationOrderly, PlApplyPatchOrderly, PlUnwindOperationOrderly, PlCheckAbandonOrderly,
         PlOpenFinalizationOrderly, PlCheckFinalizationOrderly, PlCheckPolicyOrderly, PlCaptureTargetOrderly,
         PlValidateOrderly, PlRunGatesOrderly, PlRecheckTargetOrderly, PlConsiderSourcesOrderly,
         PlRemoveSourceOrderly, PlResumeCleanupOrderly
    <3>2. QED
      BY <3>1, PlOrderlyKeeps
  <2>3. CASE LockLapses(c)
    BY <2>3, PlWorldActions, PlWorldOrder
  <2>4. QED
    BY <1>2, <2>1, <2>2, <2>3 DEF PipelineStep
<1>3. CASE RecoverJournal \/ EditCheckout \/ (\E i \in PlItems : EditSource(i))
           \/ \E b \in PlBridges : PlCrash(b) \/ LeasesLapse(b) \/ PlHeartbeat(b)
  BY <1>3, PlWorldActions, PlWorldOrder
<1>4. CASE ChildrenEnd
  BY <1>4, PlChildrenEndOrder
<1>5. QED
  BY <1>1, <1>2, <1>3, <1>4 DEF PipelinesNext

(* The four promises of a step, from the order of the calls.                *)
LEMMA PlRowChanges ==
    ASSUME PlInv, PlOrder, PipelinesNext, ~torn
    PROVE  \/ row'.item = row.item /\ row'.status \in {row.status, "running", "failed"}
           \/ \E c \in Ids : /\ call[c].pc = "write" /\ Mine(c) = row /\ StatusMoves(c, row, row'.status)
                             /\ \A i \in PlItems : ItemMoves(c, row, row', i)
<1>1. row \in PlRows
  BY DEF PlInv, PlTyped
<1>2. CASE row' = row
  BY <1>2
<1>3. ASSUME NEW c \in Ids, ClaimRecord(c)
      PROVE  row'.item = row.item /\ row'.status = row.status
  <2>1. At(c) \in PlBridges
    BY PlItemOf
  <2>2. \/ row' = row
        \/ row' = [row EXCEPT !.rev = @ + 1, !.gen = @ + 1, !.owner = At(c)]
    BY <1>3 DEF ClaimRecord
  <2>3. QED
    BY <1>1, <2>1, <2>2 DEF PlRows
<1>4. ASSUME NEW c \in Ids, Under(c), PlAccepted(c) PROVE Mine(c) = row
  BY <1>4 DEF PlAccepted, PlOrder, Synced
<1>5. ASSUME NEW c \in Ids, ActivateChildren(c)
      PROVE  row'.item = row.item /\ row'.status \in {row.status, "running"}
  <2>1. CASE row' = row
    BY <2>1
  <2>2. CASE PlAccepted(c) /\ row' = [Mine(c) EXCEPT !.status = "running", !.rev = @ + 1]
    <3>1. Mine(c) = row
      BY <1>4, <1>5, <2>2 DEF ActivateChildren, Under
    <3>2. QED
      BY <1>1, <2>2, <3>1 DEF PlRows
  <2>3. QED
    BY <1>5, <2>1, <2>2 DEF ActivateChildren
<1>6. ASSUME NEW c \in Ids, WriteRecord(c), row' # row
      PROVE  /\ call[c].pc = "write" /\ Mine(c) = row /\ StatusMoves(c, row, row'.status)
             /\ \A i \in PlItems : ItemMoves(c, row, row', i)
  <2>1. call[c].pc = "write" /\ PlAccepted(c) /\ row' = [Patched(c, Mine(c)) EXCEPT !.rev = Mine(c).rev + 1]
    BY <1>6 DEF WriteRecord, durable
  <2>2. Mine(c) = row /\ AskedAndNamed(row)
    BY <1>4, <2>1 DEF Under, PlInv, PlHonest
  <2>3. Patched(c, row) \in PlRows
    BY <1>1, <2>1, <2>2, PlPatchedIs DEF PlSame
  <2>4. /\ row'.status = Patched(c, row).status /\ row'.item = Patched(c, row).item
        /\ row'.by = Patched(c, row).by
    BY <2>1, <2>2, <2>3 DEF PlRows
  <2>5. StatusMoves(c, row, Patched(c, row).status) /\ \A i \in PlItems : ItemMoves(c, row, Patched(c, row), i)
    BY <1>1, <2>1, PlPatchedItems
  <2>6. QED
    BY <2>1, <2>2, <2>4, <2>5 DEF ItemMoves
<1>7. ASSUME ChildrenEnd
      PROVE  row'.item = row.item /\ row'.status \in {row.status, "failed"}
  <2>1. row' = row \/ row' = [row EXCEPT !.status = "failed", !.rev = @ + 1]
    BY <1>7 DEF ChildrenEnd
  <2>2. QED
    BY <1>1, <2>1 DEF PlRows
<1>8. ASSUME NEW c \in Ids, PipelineStep(c), ~ClaimRecord(c), ~WriteRecord(c), ~ActivateChildren(c)
      PROVE  row' = row
  BY <1>8 DEF PipelineStep, ReadRecord, StartPipeline, BeginCall, CheckItem, LockRepository, PrepareOperation,
     ApplyPatch, UnwindOperation, CheckAbandon, OpenFinalization, CheckFinalization, CheckPolicy, CaptureTarget,
     Validate, RunGates, RecheckTarget, ConsiderSources, RemoveSource, ResumeCleanup, LockLapses, durable
<1>9. \/ RecoverJournal \/ EditCheckout \/ (\E i \in PlItems : EditSource(i))
      \/ \E b \in PlBridges : PlCrash(b) \/ LeasesLapse(b) \/ PlHeartbeat(b)
      => row' = row
  BY DEF RecoverJournal, EditCheckout, EditSource, PlCrash, LeasesLapse, PlHeartbeat, durable
<1>10. QED
  <2>1. ASSUME NEW c \in Ids, PipelineStep(c)
        PROVE  \/ row'.item = row.item /\ row'.status \in {row.status, "running", "failed"}
               \/ \E d \in Ids : /\ call[d].pc = "write" /\ Mine(d) = row /\ StatusMoves(d, row, row'.status)
                                 /\ \A i \in PlItems : ItemMoves(d, row, row', i)
    BY <1>2, <1>3, <1>5, <1>6, <1>8, <2>1
  <2>2. QED
    BY <1>2, <1>7, <1>9, <2>1 DEF PipelinesNext

LEMMA PlNoLateApply == PlInv /\ PlOrder /\ PipelinesNext /\ ~torn => NoLateApply
<1> SUFFICES ASSUME PlInv, PlOrder, PipelinesNext, ~torn,
                    NEW c \in Ids, journal[c] = "prepared", journal'[c] = "committed"
             PROVE  row.status \notin Closed \/ Doubled(c) \/ StartedTwice
  BY DEF NoLateApply
<1>1. journal \in [Ids -> PlJournal] /\ journal' # journal
  BY DEF PlInv, PlTyped
<1>2. ~WriteRecord(c) /\ \A d \in Ids : ~WriteRecord(d)
  BY <1>1 DEF WriteRecord, EndRefused
<1>3. \A d \in Ids : ~LockRepository(d) /\ ~UnwindOperation(d) /\ ~PrepareOperation(d)
  BY <1>1 DEF LockRepository, RecoverOpen, UnwindOperation, PrepareOperation
<1>4. \A d \in Ids : ApplyPatch(d) => d = c
  BY <1>1 DEF ApplyPatch
<1>5. ASSUME NEW d \in Ids, PipelineStep(d), ~ApplyPatch(d), ~LockRepository(d), ~UnwindOperation(d),
             ~PrepareOperation(d), ~WriteRecord(d)
      PROVE  journal' = journal
  BY <1>5 DEF PipelineStep, ReadRecord, ClaimRecord, StartPipeline, ActivateChildren, BeginCall, CheckItem,
     CheckAbandon, OpenFinalization, CheckFinalization, CheckPolicy, CaptureTarget,
     Validate, RunGates, RecheckTarget, ConsiderSources, RemoveSource, ResumeCleanup, LockLapses
<1>6. ~RecoverJournal
  BY <1>1 DEF RecoverJournal, RecoverOpen
<1>7. \/ ChildrenEnd \/ EditCheckout \/ (\E i \in PlItems : EditSource(i))
      \/ \E b \in PlBridges : PlCrash(b) \/ LeasesLapse(b) \/ PlHeartbeat(b)
      => journal' = journal
  BY DEF ChildrenEnd, EditCheckout, EditSource, PlCrash, LeasesLapse, PlHeartbeat
<1>8. ApplyPatch(c)
  BY <1>1, <1>2, <1>3, <1>4, <1>5, <1>6, <1>7 DEF PipelinesNext
<1>9. QED
  BY <1>8 DEF ApplyPatch, PlOrder, ApplyHolds

LEMMA PlIntegratedStays == PlInv /\ PlOrder /\ PipelinesNext /\ ~torn => IntegratedStays
<1> SUFFICES ASSUME PlInv, PlOrder, PipelinesNext, ~torn,
                    NEW i \in PlItems, row.item[i] = "integrated", row'.item[i] # "integrated"
             PROVE  \E c \in Ids : plan[c].item = i /\ Doubled(c)
  BY DEF IntegratedStays
<1>1. PICK c \in Ids : call[c].pc = "write" /\ ItemMoves(c, row, row', i)
  BY PlRowChanges
<1>2. Verdict(row, i) = "integrated"
  BY DEF Verdict, Unsure
<1>3. call[c].patch \in {"reserve", "result"} /\ plan[c].item = i
  BY <1>1, <1>2 DEF ItemMoves
<1>4. Kind(c) = "integrate" /\ Placed(c)
  BY <1>1, <1>3 DEF PlOrder, Placed, ItemPlaced, AtItem, Writes
<1>5. PICK d \in Ids : Kind(d) = "integrate" /\ plan[d].item = i /\ journal[d] = "committed"
  BY DEF PlOrder, RecordsSound, RecordSound, Committed
<1>6. call[d].pc # "idle"
  BY <1>5 DEF PlOrder, Placed, ItemPlaced
<1>7. d # c
  <2> SUFFICES ASSUME d = c PROVE FALSE
    OBVIOUS
  <2>1. call[c].patch = "result" /\ call[c].value \in Applied
    BY <1>1, <1>4, <1>5 DEF Placed, ItemPlaced, Writes
  <2>2. ItemAfter(c, row) = "integrated"
    BY <2>1 DEF ItemAfter, Applied
  <2>3. QED
    BY <1>1, <1>3, <2>1, <2>2 DEF ItemMoves
<1>8. Doubled(c)
  BY <1>3, <1>4, <1>5, <1>6, <1>7 DEF Doubled
<1>9. QED
  BY <1>3, <1>8

LEMMA PlJudgedAsApplied == PlInv /\ PlOrder /\ PipelinesNext /\ ~torn => JudgedAsApplied
<1> SUFFICES ASSUME PlInv, PlOrder, PipelinesNext, ~torn, ~SomeDoubled,
                    row.status \notin Closed \cup InCleanup, row'.status \in {"cleanup_pending", "completed"}
             PROVE  \E c \in Ids : Kind(c) = "finalize" /\ call[c].saw = call[c].ver
                      /\ call[c].ver.merged = PlItems
  BY DEF JudgedAsApplied, SomeDoubled, InCleanup
<1>1. PICK c \in Ids : call[c].pc = "write" /\ Mine(c) = row /\ StatusMoves(c, row, row'.status)
  BY PlRowChanges DEF Closed, InCleanup
<1>2. Placed(c) /\ PlCallSound(c) /\ CleanHolds(c)
  BY DEF PlOrder, PlInv
<1>3. call[c].patch \in {"authorize", "finish", "retain"}
  BY <1>1, <1>2 DEF StatusMoves, Awaiting, PlCallSound, PlVerdicts, InCleanup, Closed
<1>4. Kind(c) \in {"finalize", "recover"} /\ (call[c].patch = "retain" => Kind(c) = "recover")
      /\ (call[c].patch = "authorize" => Kind(c) = "finalize")
  BY <1>1, <1>2, <1>3 DEF Placed, GatePlaced, PastGates, Writes, PlCallSound, Judging
<1>5. Kind(c) # "recover"
  BY <1>1, <1>2, <1>3, <1>4 DEF CleanHolds, Cleaning, Writes
<1>6. call[c].saw = call[c].ver /\ call[c].ver.merged = PlItems
  BY <1>1, <1>2, <1>3, <1>4, <1>5 DEF Placed, VersionPlaced, Writes
<1>7. QED
  BY <1>4, <1>5, <1>6

LEMMA PlAbandonedKept == PlInv /\ PlOrder /\ PlOrder' /\ PipelinesNext /\ ~torn => AbandonedKept'
<1> SUFFICES ASSUME PlInv, PlOrder, PlOrder', PipelinesNext, ~torn PROVE AbandonedKept'
  OBVIOUS
<1>1. CASE ~torn'
  BY <1>1 DEF PlOrder, PromiseHolds, AbandonedKept
<1>2. CASE torn'
  <2>1. ASSUME NEW c \in Ids, PipelineStep(c), ~ClaimRecord(c), ~WriteRecord(c)
        PROVE  torn' = torn
    BY <2>1 DEF PipelineStep, ReadRecord, StartPipeline, ActivateChildren, BeginCall, CheckItem, LockRepository,
       PrepareOperation, ApplyPatch, UnwindOperation, CheckAbandon, OpenFinalization, CheckFinalization,
       CheckPolicy,
       CaptureTarget, Validate, RunGates, RecheckTarget, ConsiderSources, RemoveSource, ResumeCleanup,
       LockLapses, outside
  <2>2. \/ RecoverJournal \/ ChildrenEnd \/ EditCheckout \/ (\E i \in PlItems : EditSource(i))
        \/ \E b \in PlBridges : PlCrash(b) \/ LeasesLapse(b) \/ PlHeartbeat(b)
        => torn' = torn
    BY DEF RecoverJournal, ChildrenEnd, EditCheckout, EditSource, PlCrash, LeasesLapse, PlHeartbeat, outside
  <2>3. ASSUME NEW c \in Ids, ClaimRecord(c) \/ WriteRecord(c) PROVE source' = source /\ promised' = promised
    <3>1. ClaimRecord(c) => source' = source /\ promised' = promised
      BY DEF ClaimRecord
    <3>2. WriteRecord(c) => source' = source /\ promised' = promised
      BY <1>2 DEF WriteRecord, durable
    <3>3. QED
      BY <2>3, <3>1, <3>2
  <2>4. source' = source /\ promised' = promised
    BY <1>2, <2>1, <2>2, <2>3 DEF PipelinesNext
  <2>5. QED
    BY <2>4 DEF PlOrder, PromiseHolds, AbandonedKept
<1>3. QED
  BY <1>1, <1>2

(* A call goes by what the row says when it writes                          *)
(* (updatePipelineRecord): no patch is committed after an abandonment       *)
(* closed the pipeline, what the abandonment kept stays, nothing integrated *)
(* is taken back, and what is completed had passed its gates as applied,    *)
(* unless a record in use was brought to the row's revision unread.         *)
THEOREM PipelineRowRespected == PipelinesSpec => RowRespected
<1>1. PipelinesInit => PlInv /\ PlOrder
  BY PlInitInv, PlOrderInit, PlAssumption
<1>2. PlInv /\ PlOrder /\ [PipelinesNext]_pipelinevars => (PlInv /\ PlOrder)'
  BY PlStepKeeps, PlOrderStep
<1>3. PlInv /\ PlOrder /\ (PlInv /\ PlOrder)' /\ [PipelinesNext]_pipelinevars
        => [torn \/ (NoLateApply /\ AbandonedKept' /\ IntegratedStays /\ JudgedAsApplied)]_pipelinevars
  BY PlNoLateApply, PlAbandonedKept, PlIntegratedStays, PlJudgedAsApplied
<1>4. QED
  BY <1>1, <1>2, <1>3, PTL DEF PipelinesSpec, RowRespected
=============================================================================
