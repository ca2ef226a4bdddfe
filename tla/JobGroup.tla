------------------------------ MODULE JobGroup ------------------------------
(***************************************************************************)
(* One delegated job from preparation to its report (lib/execute-job.js),  *)
(* alone or as a member of a parallel call (lib/tools/parallel.js), where  *)
(* the members meet at the barriers of lib/parallel-coordinator.js: all    *)
(* locked, all ready, all agents ended, all gates ended, all finished.     *)
(* Members without a worktree share the target checkout; what each one     *)
(* changed is told from file snapshots, so the barriers are what keeps one *)
(* member's edits out of another's.                                        *)
(***************************************************************************)
EXTENDS Integers, FiniteSets

CONSTANTS
    Members,
    GatedMembers,    \* members with a validation command or self-checks
    FixPasses,       \* runs a failed check may get in a single job (selfCheckPasses)
    MaxWrites        \* bound: files one member writes

ASSUME GroupAssumption ==
    GatedMembers \subseteq Members /\ {FixPasses, MaxWrites} \subseteq Nat /\ "checkout" \notin Members

VARIABLES
    single,     \* one job of run_opencode_agent or the queue: no coordinator
    role,       \* "writer", or "reader": attested as unable to edit
    isolated,   \* the writers work in worktrees of their own
    phase,      \* where each member is
    arrived,    \* members that arrived at each barrier
    stopped,    \* stopSetup, or the abort signal of a single job
    lock,       \* "none", "held", "released", "expiring", "quarantined"
    lost,       \* the lock heartbeat gave up
    agent,      \* the process tree: "none", "alive", "dead"
    doubtful,   \* containmentQuarantined
    disk,       \* files changed in each tree since the call began
    wrote,      \* files each member's own agent or gate wrote
    base,       \* the snapshot before the agents
    changed,    \* changedFiles of the result
    failed,     \* errorType of the result is set
    snapshot,   \* snapshots[index]: [at, files], at = 0 for none
    verified,   \* the group check is done
    passes,     \* fix passes used
    removed     \* the worktree was removed as empty

jobgroupvars == <<single, role, isolated, phase, arrived, stopped, lock, lost, agent, doubtful,
                  disk, wrote, base, changed, failed, snapshot, verified, passes, removed>>
setup == <<single, role, isolated>>
results == <<changed, failed, snapshot, verified, passes, removed>>

Barriers == {"locked", "ready", "agents", "validated", "finished"}
Files == Members \cup {"stray"}      \* the file each member may edit, and one nobody may
Steps == {"asked", "prepared", "atLocked", "setup", "atReady", "running", "atAgents", "early",
          "captured", "atValidated", "judged", "failing", "atFinished", "releasing", "over"}

GroupTypeOK ==
    /\ phase \in [Members -> Steps]
    /\ arrived \in [Barriers -> SUBSET Members]
    /\ lock \in [Members -> {"none", "held", "released", "expiring", "quarantined"}]
    /\ agent \in [Members -> {"none", "alive", "dead"}]
    /\ disk \in [Members \cup {"checkout"} -> SUBSET Files]
    /\ base \in [Members -> SUBSET Files] /\ changed \in [Members -> SUBSET Files]
    /\ passes \in [Members -> 0..FixPasses]

(* A single job is a group of one whose other members do not exist.         *)
GroupInit ==
    /\ single \in BOOLEAN /\ isolated \in BOOLEAN
    /\ role \in {r \in [Members -> {"writer", "reader"}] : \E m \in Members : r[m] = "writer"}
    /\ \E solo \in Members :
         phase = [m \in Members |-> IF single /\ m # solo THEN "over" ELSE "asked"]
    /\ arrived = [b \in Barriers |-> {m \in Members : phase[m] = "over"}]
    /\ stopped = FALSE /\ verified = FALSE
    /\ lock = [m \in Members |-> "none"] /\ lost = [m \in Members |-> FALSE]
    /\ agent = [m \in Members |-> "none"] /\ doubtful = [m \in Members |-> FALSE]
    /\ disk = [t \in Members \cup {"checkout"} |-> {}]
    /\ wrote = [m \in Members |-> {}] /\ base = [m \in Members |-> {}]
    /\ changed = [m \in Members |-> {}] /\ failed = [m \in Members |-> FALSE]
    /\ snapshot = [m \in Members |-> [at |-> 0, files |-> {}]]
    /\ passes = [m \in Members |-> 0] /\ removed = [m \in Members |-> FALSE]

-----------------------------------------------------------------------------
Tree(m) == IF isolated /\ role[m] = "writer" THEN m ELSE "checkout"
Allowed(m) == IF role[m] = "writer" THEN {m} ELSE {}
Gated(m) == m \in GatedMembers /\ role[m] = "writer"

(* barrier(): released when all have arrived, or by stopSetup; the last one *)
(* is never released early.                                                 *)
Open(b) == arrived[b] = Members \/ (stopped /\ b # "finished")
Arrive(m, b) == arrived' = [arrived EXCEPT ![b] = @ \cup {m}]
Go(m, p) == phase' = [phase EXCEPT ![m] = p]

(* changedFilesBetween the snapshot before the agents and the tree now; a   *)
(* difference under a reader that cannot edit is another client's.          *)
Seen(m) == IF role[m] = "reader" THEN {} ELSE disk[Tree(m)] \ base[m]

(* Mutant: a failing job leaves without its arrival at the last barrier.    *)
FailAlone(m) ==
    /\ Go(m, "failing")
    /\ failed' = [failed EXCEPT ![m] = TRUE]
    /\ stopped' = TRUE
    /\ UNCHANGED arrived

(* Every path out of a job before its outcome ends here: finalize(null)     *)
(* stops the others and arrives at the last barrier.                        *)
Fail(m) ==
    /\ Go(m, "failing")
    /\ failed' = [failed EXCEPT ![m] = TRUE]
    /\ stopped' = TRUE
    /\ Arrive(m, "finished")

-----------------------------------------------------------------------------
(* prepareOpenCodeJob: discovery, routing, attestation and prompt; nothing  *)
(* is held yet.                                                             *)
Asked == (\A m \in Members : phase[m] \in {"asked", "over"}) /\ \E m \in Members : phase[m] = "asked"

Prepare ==
    /\ Asked
    /\ phase' = [m \in Members |-> IF phase[m] = "asked" THEN "prepared" ELSE "over"]
    /\ UNCHANGED <<setup, arrived, stopped, lock, lost, agent, doubtful, disk, wrote, base,
                   results>>

(* Plan, provider pause, validation pre-flight, git state: one refusal of a *)
(* parallel call refuses the whole call.                                    *)
RefuseCall ==
    /\ Asked
    /\ phase' = [m \in Members |-> "over"]
    /\ failed' = [m \in Members |-> phase[m] = "asked"]
    /\ UNCHANGED <<setup, arrived, stopped, lock, lost, agent, doubtful, disk, wrote, base,
                   changed, snapshot, verified, passes, removed>>

(* acquireHardLock, then parallel.lockAcquired.                             *)
AcquireLock(m) ==
    /\ phase[m] = "prepared"
    /\ \/ /\ lock' = [lock EXCEPT ![m] = "held"]
          /\ Go(m, "atLocked") /\ Arrive(m, "locked")
          /\ UNCHANGED <<failed, stopped>>
       \/ Fail(m) /\ UNCHANGED lock
    /\ UNCHANGED <<setup, lost, agent, doubtful, disk, wrote, base, changed, snapshot, verified,
                   passes, removed>>

(* The end of a wait at a barrier before the agents: an abort that came     *)
(* meanwhile is thrown.                                                     *)
PassLocked(m) ==
    /\ phase[m] = "atLocked" /\ Open("locked")
    /\ IF stopped THEN Fail(m) ELSE Go(m, "setup") /\ UNCHANGED <<failed, stopped, arrived>>
    /\ UNCHANGED <<setup, lock, lost, agent, doubtful, disk, wrote, base, changed, snapshot,
                   verified, passes, removed>>

(* Worktree, final attestation, ownership, snapshots.  A writable scope     *)
(* that could not be recorded leaves no worktree behind.                    *)
SetUp(m) ==
    /\ phase[m] = "setup"
    /\ \/ /\ base' = [base EXCEPT ![m] = disk[Tree(m)]]
          /\ Go(m, "atReady") /\ Arrive(m, "ready")
          /\ UNCHANGED <<failed, stopped, removed>>
       \/ /\ Fail(m)
          /\ removed' \in {removed, [removed EXCEPT ![m] = isolated /\ role[m] = "writer"]}
          /\ UNCHANGED base
    /\ UNCHANGED <<setup, lock, lost, agent, doubtful, disk, wrote, changed, snapshot, verified,
                   passes>>

(* The run of the agent, from the ready barrier or for a fix pass.          *)
StartRun(m) ==
    /\ phase[m] = "atReady" /\ Open("ready")
    /\ IF stopped
       THEN Fail(m) /\ UNCHANGED agent
       ELSE /\ Go(m, "running")
            /\ agent' = [agent EXCEPT ![m] = "alive"]
            /\ UNCHANGED <<failed, stopped, arrived>>
    /\ UNCHANGED <<setup, lock, lost, doubtful, disk, wrote, base, changed, snapshot, verified,
                   passes, removed>>

(* A live tree writes: its own file or a stray one, a reader none.          *)
AgentWrites(m, f) ==
    /\ agent[m] = "alive" /\ role[m] = "writer" /\ f \notin wrote[m]
    /\ Cardinality(wrote[m]) < MaxWrites
    /\ disk' = [disk EXCEPT ![Tree(m)] = @ \cup {f}]
    /\ wrote' = [wrote EXCEPT ![m] = @ \cup {f}]
    /\ UNCHANGED <<setup, phase, arrived, stopped, lock, lost, agent, doubtful, base, results>>

(* The run is over: succeeded, failed, or with a tree that may be alive.    *)
AgentEnds(m) ==
    /\ phase[m] = "running"
    /\ \E outcome \in {"ok", "error", "unconfirmed"} :
         /\ agent' \in IF outcome = "unconfirmed" THEN {agent, [agent EXCEPT ![m] = "dead"]}
                       ELSE {[agent EXCEPT ![m] = "dead"]}
         /\ doubtful' = [doubtful EXCEPT ![m] = outcome = "unconfirmed"]
         /\ failed' = [failed EXCEPT ![m] = outcome # "ok" \/ lost[m]]
    /\ Go(m, "atAgents") /\ Arrive(m, "agents")
    /\ UNCHANGED <<setup, stopped, lock, lost, disk, wrote, base, changed, snapshot, verified,
                   passes, removed>>

(* parallel.agentFinished: a member without a gate also waits for the gates *)
(* of the others, since its one capture is the final one.                   *)
PassAgents(m) ==
    /\ phase[m] = "atAgents" /\ Open("agents") /\ ~single /\ ~Gated(m)
    /\ Go(m, "early") /\ Arrive(m, "validated")
    /\ UNCHANGED <<setup, stopped, lock, lost, agent, doubtful, disk, wrote, base, results>>

(* evaluateAgentRun: what changed, and is it inside the plan?               *)
Capture(m) ==
    /\ \/ phase[m] = "atAgents" /\ (single \/ (Open("agents") /\ Gated(m)))
       \/ phase[m] = "early" /\ Open("validated")
    /\ \/ /\ changed' = [changed EXCEPT ![m] = Seen(m)]
          /\ failed' = [failed EXCEPT ![m] = @ \/ ~(Seen(m) \subseteq Allowed(m)) \/ lost[m]]
          /\ Go(m, "captured")
          /\ UNCHANGED <<arrived, stopped>>
       \/ Fail(m) /\ UNCHANGED changed
    /\ UNCHANGED <<setup, lock, lost, agent, doubtful, disk, wrote, base, snapshot, verified,
                   passes, removed>>

(* The self-checks and the validation command of a run without a problem    *)
(* so far.  The command runs in the tree and may write there; its process   *)
(* tree may be left unconfirmed, and an abort ends it.                      *)
RunGate(m) ==
    /\ phase[m] = "captured"
    /\ IF Gated(m) /\ ~failed[m]
       THEN \E ok \in (IF stopped THEN {FALSE} ELSE BOOLEAN), f \in {{}, {"stray"}} :
              /\ disk' = [disk EXCEPT ![Tree(m)] = @ \cup f]
              /\ wrote' = [wrote EXCEPT ![m] = @ \cup f]
              /\ failed' = [failed EXCEPT ![m] = ~ok]
              /\ doubtful' \in (IF ok THEN {doubtful} ELSE {doubtful, [doubtful EXCEPT ![m] = TRUE]})
       ELSE UNCHANGED <<disk, wrote, failed, doubtful>>
    /\ Go(m, "atValidated") /\ Arrive(m, "validated")
    /\ UNCHANGED <<setup, stopped, lock, lost, agent, base, changed, snapshot, verified, passes,
                   removed>>

(* Mutant: nothing is compared after the gates.                             *)
FinishWithoutLook(m) ==
    /\ phase[m] = "atValidated" /\ (single \/ Open("validated"))
    /\ snapshot' = [snapshot EXCEPT ![m] =
         [at |-> Cardinality({n \in Members : snapshot[n].at > 0}) + 1, files |-> disk[Tree(m)]]]
    /\ Go(m, "judged")
    /\ UNCHANGED <<setup, arrived, stopped, lock, lost, agent, doubtful, disk, wrote, base, changed,
                   failed, verified, passes, removed>>

(* finishEvaluation: after every gate of the group, what a command changed  *)
(* is unattributed and fails the job.  parallel.snapshot keeps the capture. *)
FinishEvaluation(m) ==
    /\ phase[m] = "atValidated" /\ (single \/ Open("validated"))
    /\ \/ LET late == IF Gated(m) THEN Seen(m) \ changed[m] ELSE {} IN
          /\ changed' = [changed EXCEPT ![m] = @ \cup late]
          /\ failed' = [failed EXCEPT ![m] = @ \/ late # {}]
          /\ snapshot' = [snapshot EXCEPT ![m] =
               [at |-> Cardinality({n \in Members : snapshot[n].at > 0}) + 1,
                files |-> disk[Tree(m)]]]
          /\ Go(m, "judged")
          /\ UNCHANGED <<arrived, stopped>>
       \/ Fail(m) /\ UNCHANGED <<changed, snapshot>>
    /\ UNCHANGED <<setup, lock, lost, agent, doubtful, disk, wrote, base, verified, passes,
                   removed>>

(* A failed check, and nothing else, gives the agent another run in the     *)
(* same tree.  Refused in a parallel call: its barriers open only once.     *)
FixPass(m) ==
    /\ phase[m] = "judged" /\ single /\ Gated(m)
    /\ failed[m] /\ changed[m] \subseteq Allowed(m) /\ ~doubtful[m] /\ agent[m] = "dead"
    /\ ~stopped /\ ~lost[m] /\ passes[m] < FixPasses
    /\ passes' = [passes EXCEPT ![m] = @ + 1]
    /\ Go(m, "running")
    /\ agent' = [agent EXCEPT ![m] = "alive"]
    /\ failed' = [failed EXCEPT ![m] = FALSE]
    /\ UNCHANGED <<setup, arrived, stopped, lock, lost, doubtful, disk, wrote, base, changed,
                   snapshot, verified, removed>>

(* The outcome is final: the worktree's patch must hold what was changed.   *)
Outcome(m) ==
    /\ phase[m] = "judged"
    /\ failed' \in {failed, [failed EXCEPT ![m] = TRUE]}
    /\ Go(m, "atFinished") /\ Arrive(m, "finished")
    /\ UNCHANGED <<setup, stopped, lock, lost, agent, doubtful, disk, wrote, base, changed,
                   snapshot, verified, passes, removed>>

(* verifyGroup: per tree, the last capture against the first snapshot.  A   *)
(* change outside every writer's edits rejects the members without an error *)
(* of their own; a failed check rejects them too.                           *)
GroupChanges(t) ==
    LET here == {m \in Members : Tree(m) = t /\ phase[m] \in {"atFinished", "failing"}}
        last == {m \in here : /\ snapshot[m].at > 0
                              /\ \A n \in here : snapshot[n].at <= snapshot[m].at}
        after == IF last = {} THEN disk[t] ELSE UNION {snapshot[m].files : m \in last}
    IN after \ UNION {base[m] : m \in {n \in here : \A k \in here : base[n] \subseteq base[k]}}

TreeRejected(t) ==
    /\ \E m \in Members : Tree(m) = t /\ role[m] = "writer"
    /\ ~(GroupChanges(t) \subseteq UNION {Allowed(m) : m \in {n \in Members : Tree(n) = t}})

VerifyGroup ==
    /\ ~single /\ ~verified /\ Open("finished")
    /\ verified' = TRUE
    /\ \E broken \in SUBSET {Tree(m) : m \in Members} :
         failed' = [m \in Members |->
           \/ failed[m]
           \/ phase[m] = "atFinished" /\ (Tree(m) \in broken \/ TreeRejected(Tree(m)))]
    /\ UNCHANGED <<setup, phase, arrived, stopped, lock, lost, agent, doubtful, disk, wrote, base,
                   changed, snapshot, passes, removed>>

(* An isolated worktree is removed only when the job produced nothing.      *)
Cleanup(m) ==
    /\ phase[m] \in {"atFinished", "failing"} /\ (single \/ verified)
    /\ removed' = [removed EXCEPT ![m] =
         @ \/ /\ phase[m] = "atFinished" /\ Tree(m) = m /\ ~doubtful[m]
              /\ disk[m] = {} /\ changed[m] = {} /\ ~TreeRejected(m)]
    /\ Go(m, "releasing")
    /\ UNCHANGED <<setup, arrived, stopped, lock, lost, agent, doubtful, disk, wrote, base, changed,
                   failed, snapshot, verified, passes>>

(* releaseAcquiredLock, once, on every path: after the heartbeat stopped.   *)
(* What could not be written leaves the lock to its time to live.           *)
ReleaseLock(m) ==
    /\ phase[m] = "releasing"
    /\ \E kept \in {"expiring", IF doubtful[m] THEN "quarantined" ELSE "released"} :
         lock' = [lock EXCEPT ![m] = IF @ = "held" THEN kept ELSE @]
    /\ Go(m, "over")
    /\ UNCHANGED <<setup, arrived, stopped, lost, agent, doubtful, disk, wrote, base, results>>

-----------------------------------------------------------------------------
(* The caller cancels, the group deadline passes, or a lock is lost: the    *)
(* group is aborted and no barrier but the last one holds anybody.          *)
Abort ==
    /\ ~stopped /\ \E m \in Members : phase[m] \notin {"asked", "over"}
    /\ stopped' = TRUE
    /\ UNCHANGED <<setup, phase, arrived, lock, lost, agent, doubtful, disk, wrote, base, results>>

LockLost(m) ==
    /\ lock[m] = "held" /\ ~lost[m] /\ phase[m] \notin {"prepared", "failing", "releasing", "over"}
    /\ lost' = [lost EXCEPT ![m] = TRUE]
    /\ stopped' = TRUE
    /\ UNCHANGED <<setup, phase, arrived, lock, agent, doubtful, disk, wrote, base, results>>

MemberStep(m) ==
    \/ AcquireLock(m) \/ PassLocked(m) \/ SetUp(m) \/ StartRun(m) \/ AgentEnds(m) \/ PassAgents(m)
    \/ Capture(m) \/ RunGate(m) \/ FinishEvaluation(m) \/ FixPass(m) \/ Outcome(m) \/ Cleanup(m)
    \/ ReleaseLock(m)

GroupNext ==
    \/ Prepare \/ RefuseCall \/ VerifyGroup \/ Abort
    \/ \E m \in Members : MemberStep(m) \/ LockLost(m)
    \/ \E m \in Members : \E f \in {m, "stray"} : AgentWrites(m, f)

(* The event loop goes on with some member; agents end by their time limit. *)
GroupFairness ==
    WF_jobgroupvars(Prepare \/ RefuseCall \/ VerifyGroup \/ \E m \in Members : MemberStep(m))

GroupSpec == GroupInit /\ [][GroupNext]_jobgroupvars /\ GroupFairness

-----------------------------------------------------------------------------
Accepted(m) == phase[m] = "over" /\ ~failed[m] /\ lock[m] # "none"

(* An accepted writer reports everything it wrote and wrote only what it    *)
(* was allowed to, whatever its siblings did in the same checkout and       *)
(* whenever the group was aborted.                                          *)
AcceptedIsOwn == \A m \in Members : Accepted(m) => wrote[m] \subseteq changed[m] \cap Allowed(m)

(* A group that succeeds as a whole left nothing in any tree but what its   *)
(* members were allowed to change.                                          *)
SuccessAccounted ==
    (~single /\ \A m \in Members : Accepted(m)) =>
      \A t \in {Tree(m) : m \in Members} :
        disk[t] \subseteq UNION {Allowed(m) : m \in {n \in Members : Tree(n) = t}}

(* No snapshot is taken after an agent of the group started, so nothing an  *)
(* agent wrote is hidden in the baseline of another.                        *)
BaselineClean ==
    \A m, n \in Members : phase[n] # "over" /\ lock[m] # "none" => base[m] \cap wrote[n] = {}

(* The lock over a tree that may still write is not given away, and its     *)
(* worktree is not removed under it.                                        *)
LiveTreeHeld ==
    \A m \in Members : agent[m] = "alive" => lock[m] \notin {"none", "released"} /\ ~removed[m]

(* Work is not thrown away: a worktree somebody wrote to stays.             *)
OutputKept == \A m \in Members : removed[m] => disk[m] = {}

(* No member waits at a barrier for good: every call ends, and every lock   *)
(* it took is released or quarantined.                                      *)
GroupEnds ==
    \A m \in Members : <>[](phase[m] = "over" /\ lock[m] # "held")

(* What a call reports is what its members did, and what they hold while    *)
(* they may write is theirs (execute-job.js, parallel-coordinator.js).      *)
GroupSound ==
    GroupTypeOK /\ AcceptedIsOwn /\ SuccessAccounted /\ BaselineClean /\ LiveTreeHeld /\ OutputKept
=============================================================================
