----------------------------- MODULE Worktrees -----------------------------
(* The Git worktrees writer jobs run in (lib/worktrees.js) and the registry table            *)
(* worktree_artifacts that says whose each of them is: creation on the checkout's HEAD, the   *)
(* claim of a retained worktree by a job that continues it (continueWorktree), the end of a   *)
(* job, the removal of a worktree whose work was integrated (lib/integration-cleanup.js), the *)
(* recovery of claims after a crash and the collection of old worktrees by bin/bridge-gc.js.  *)
(*                                                                                           *)
(* One transaction on the registry, one git command or one reading of the disk is one action. *)
(* A worktree's path is made of its creator's job id, so paths are named by jobs.  Leases     *)
(* hold: a handler that goes on after its job's row was failed by another bridge, and a       *)
(* serial integration that outlives its lock, are not modelled; the supervised agents of a    *)
(* crashed bridge have ended before its jobs are failed (SupervisedRun).                      *)
EXTENDS Integers, FiniteSets

CONSTANTS
    WtJobs,         \* jobs, and the paths of the worktrees they create
    NoJob,          \* the owner of a row made by a reconciliation: the directory's basename
    WtCapacity,     \* retainedWorktreeMaxCount
    WtTries,        \* WORKTREE_CREATE_HEAD_MOVE_ATTEMPTS
    WtMaxWork,      \* bound: how often the content of a worktree changes
    WtScenarios     \* who creates and who continues what, and what happens around them

(* A scenario: jobs that create, the worktree each other job continues, the worktrees earlier *)
(* jobs left (with their number of changes), whether a bridge runs, the options of the        *)
(* collector and how often each event happens.                                                *)
WtHappenings == {"commit", "hit", "dirty", "edit", "stop", "start", "fail", "land", "gc"}

(* A job creates a worktree or continues the one named in continueWorktree (executeJob), never *)
(* both, and a job that left a worktree before has ended.                                     *)
ASSUME WtAssumption ==
    /\ WtMaxWork \in Nat /\ WtTries \in Nat \ {0} /\ NoJob \notin WtJobs
    /\ \A s \in WtScenarios :
         /\ s.fresh \cup s.old \cup DOMAIN s.follows \subseteq WtJobs
         /\ s.fresh \cap s.old = {} /\ DOMAIN s.follows \cap (s.fresh \cup s.old) = {}
         /\ \A j \in DOMAIN s.follows : s.follows[j] \in s.fresh \cup s.old
         /\ s.work \in 0 .. WtMaxWork /\ s.up \in BOOLEAN /\ s.events \in [WtHappenings -> Nat]

VARIABLES
    setting,    \* the scenario
    tree,       \* directories that exist
    content,    \* per path: the content of its worktree; 0 is a clean checkout of its base
    reg,        \* table worktree_artifacts: status and job_id of a path
    removal,    \* table integration_worktree_cleanup: the content a pending row may remove
    integrated, \* per path: the contents that were integrated
    active,     \* jobs with an active row in opencode_jobs
    step,       \* where the handler of a job is
    mem,        \* what the handler of a job has read
    tip, hits,  \* commits of the checkout, and those that touch the jobs' scope
    dirt,       \* does the checkout have uncommitted changes in that scope?
    up,         \* is a bridge running?
    land,       \* the holder of the serial_integration lock: an integration or a cleanup
    gc,         \* a run of bin/bridge-gc.js --apply
    room,       \* how often each event may still happen
    adopted     \* history: worktrees of live creators registered again without their job

seen == <<mem, tip, hits, dirt>>
disk == <<tree, content, integrated>>
handlers == <<active, step>>
fixed == <<setting, up, gc, adopted>>
worktreevars == <<fixed, disk, reg, removal, handlers, seen, land, room>>

Active == {"creating", "retained", "cleanup_failed", "in_use", "cleanup_pending"}
RowStatuses == Active \cup {"none", "cleaned"}
Row(status, job) == [status |-> status, job |-> job]
NoRow == Row("none", NoJob)
Off == -1
Making == {"base", "known", "list", "reconcile", "reserve", "add", "check", "mark",
           "redo", "redone", "discard", "discarded"}
Steps == Making \cup {"new", "claim", "working", "empty", "emptied", "measure", "release",
                      "done", "over", "dead"}

Fresh == setting.fresh
Tree(j) == IF j \in Fresh THEN j ELSE setting.follows[j]
Users(p) == {j \in WtJobs : step[j] = "working" /\ Tree(j) = p}
Counted == {p \in WtJobs : reg[p].status \in Active}

WtTypeOK ==
    /\ tree \subseteq WtJobs /\ content \in [WtJobs -> 0 .. WtMaxWork]
    /\ reg \in [WtJobs -> [status : RowStatuses, job : WtJobs \cup {NoJob}]]
    /\ removal \in [WtJobs -> Off .. WtMaxWork] /\ integrated \in [WtJobs -> SUBSET (0 .. WtMaxWork)]
    /\ active \subseteq WtJobs /\ step \in [WtJobs -> Steps]
    /\ mem \in [WtJobs -> [base : Nat, known : SUBSET WtJobs, found : SUBSET WtJobs,
                           tries : 0 .. WtTries - 1, added : Nat]]
    /\ tip \in Nat /\ hits \subseteq 1 .. tip /\ dirt \in BOOLEAN /\ up \in BOOLEAN
    /\ land \in [step : {"idle", "locked", "collected", "draining", "removing", "removed"},
                 path : WtJobs \cup {NoJob}, content : 0 .. WtMaxWork, by : {"bridge", "gc"}]
    /\ gc \in [step : {"off", "classify", "drain", "sweep", "removing", "removed"},
               path : WtJobs \cup {NoJob}, rows : [WtJobs -> [status : RowStatuses, job : WtJobs \cup {NoJob}]],
               todo : SUBSET WtJobs, stale : SUBSET WtJobs, woken : BOOLEAN]
    /\ room \in [WtHappenings -> Nat] /\ adopted \subseteq WtJobs

NoMemory == [base |-> 0, known |-> {}, found |-> {}, tries |-> 0, added |-> 0]
NoLanding == [step |-> "idle", path |-> NoJob, content |-> 0, by |-> "bridge"]
NoCollection ==
    [step |-> "off", path |-> NoJob, rows |-> [p \in WtJobs |-> NoRow],
     todo |-> {}, stale |-> {}, woken |-> FALSE]

WtStart(scenario) ==
    /\ setting = scenario
    /\ tree = scenario.old /\ content = [p \in WtJobs |-> IF p \in scenario.old THEN scenario.work ELSE 0]
    /\ reg = [p \in WtJobs |-> IF p \in scenario.old THEN Row("retained", p) ELSE NoRow]
    /\ removal = [p \in WtJobs |-> Off] /\ integrated = [p \in WtJobs |-> {}]
    /\ active = {} /\ step = [j \in WtJobs |-> IF j \in scenario.old THEN "over" ELSE "new"]
    /\ mem = [j \in WtJobs |-> NoMemory]
    /\ tip = 0 /\ hits = {} /\ dirt = FALSE
    /\ up = scenario.up /\ land = NoLanding /\ gc = NoCollection
    /\ room = scenario.events /\ adopted = {}

WtInit == \E scenario \in WtScenarios : WtStart(scenario)

-----------------------------------------------------------------------------
(* The handlers.                                                                             *)
Befalls(kind) == room[kind] > 0 /\ room' = [room EXCEPT ![kind] = @ - 1]
HandlerAt(j, s) == up /\ step[j] = s
Goto(j, s) == step' = [step EXCEPT ![j] = s] /\ UNCHANGED active
Enter(j, s) == step' = [step EXCEPT ![j] = s] /\ active' = active \cup {j}

SetStatus(p, status) ==     \* markWorktreeArtifactState: whatever the row says, if there is one
    reg' = IF reg[p] = NoRow THEN reg ELSE [reg EXCEPT ![p].status = status]
Touched(j, to) == hits \cap (mem[j].base + 1 .. to) # {}
Elsewhere == UNCHANGED fixed

(* createWorktreeForJob: a checkout with changes in the job's scope is refused; the HEAD read  *)
(* here is the base of the worktree.                                                         *)
BeginCreate(j) ==
    /\ j \in Fresh /\ HandlerAt(j, "new")
    /\ IF dirt THEN Enter(j, "done") /\ UNCHANGED mem
       ELSE Enter(j, "known") /\ mem' = [mem EXCEPT ![j].base = tip]
    /\ Elsewhere /\ UNCHANGED <<disk, reg, removal, tip, hits, dirt, land, room>>

CreateAgain(j) ==
    /\ HandlerAt(j, "base") /\ Goto(j, "known")
    /\ mem' = [mem EXCEPT ![j].base = tip]
    /\ Elsewhere /\ UNCHANGED <<disk, reg, removal, tip, hits, dirt, land, room>>

(* reconcileWorktreeArtifactRegistry reads the active rows, lists the directories, and then   *)
(* adopts the unknown directories and drops the rows without one in a transaction.            *)
ReadKnown(j) ==
    /\ HandlerAt(j, "known") /\ Goto(j, "list")
    /\ mem' = [mem EXCEPT ![j].known = Counted]
    /\ Elsewhere /\ UNCHANGED <<disk, reg, removal, tip, hits, dirt, land, room>>

ListTrees(j) ==
    /\ HandlerAt(j, "list") /\ Goto(j, "reconcile")
    /\ mem' = [mem EXCEPT ![j].found = tree \ mem[j].known, ![j].known = {}]
    /\ Elsewhere /\ UNCHANGED <<disk, reg, removal, tip, hits, dirt, land, room>>

(* The row of a path after the transaction: an insert never replaces an active row.           *)
Adopted(j, p) ==
    IF p \in mem[j].found /\ reg[p].status \notin Active THEN Row("retained", NoJob) ELSE reg[p]

ReconcileRegistry(j) ==
    /\ HandlerAt(j, "reconcile") /\ Goto(j, "reserve")
    /\ reg' = [p \in WtJobs |->
                 IF Adopted(j, p).status \in Active \ {"cleanup_pending"} /\ p \notin tree
                 THEN [Adopted(j, p) EXCEPT !.status = "cleaned"] ELSE Adopted(j, p)]
    /\ mem' = [mem EXCEPT ![j].found = {}]
    /\ adopted' = adopted \cup {p \in mem[j].found : Adopted(j, p) # reg[p] /\ step[p] \notin {"over", "dead"}}
    /\ UNCHANGED <<setting, up, gc, disk, removal, tip, hits, dirt, land, room>>

(* reserveWorktreeArtifact: within the capacity, and never over an active row.                *)
Reserve(j) ==
    /\ HandlerAt(j, "reserve")
    /\ IF Cardinality(Counted) < WtCapacity /\ reg[j].status \notin Active
       THEN reg' = [reg EXCEPT ![j] = Row("creating", j)] /\ Goto(j, "add")
       ELSE UNCHANGED reg /\ Goto(j, "done")
    /\ Elsewhere /\ UNCHANGED <<disk, removal, seen, land, room>>

(* git worktree add on the base.                                                             *)
AddTree(j) ==
    /\ HandlerAt(j, "add") /\ Goto(j, "check")
    /\ tree' = tree \cup {j} /\ content' = [content EXCEPT ![j] = 0]
    /\ mem' = [mem EXCEPT ![j].added = tip]
    /\ Elsewhere /\ UNCHANGED <<integrated, reg, removal, tip, hits, dirt, land, room>>

(* The branch exists already or git fails (releaseFailedWorktreeReservation): a directory that *)
(* is left stays registered, otherwise the reservation is dropped.                            *)
AddFails(j) ==
    /\ HandlerAt(j, "add") /\ Befalls("fail") /\ Goto(j, "done")
    /\ \/ /\ tree' = tree \cup {j} /\ SetStatus(j, "retained")
       \/ /\ UNCHANGED tree
          /\ reg' = IF reg[j].status = "creating" THEN [reg EXCEPT ![j] = NoRow] ELSE reg
    /\ Elsewhere /\ UNCHANGED <<content, integrated, removal, seen, land>>

(* The checks after creation (classifyHeadMoveDuringCreation): changes of the checkout fail    *)
(* the job, commits that touch its scope have the worktree made again, a few times.           *)
Verdict(j) ==
    IF dirt THEN "discard"
    ELSE IF ~Touched(j, tip) THEN "mark"
    ELSE IF mem[j].tries < WtTries - 1 THEN "redo" ELSE "discard"

CheckTree(j) ==
    /\ HandlerAt(j, "check") /\ Goto(j, Verdict(j))
    /\ mem' = [mem EXCEPT ![j].tries = IF Verdict(j) = "redo" THEN @ + 1 ELSE @]
    /\ Elsewhere /\ UNCHANGED <<disk, reg, removal, tip, hits, dirt, land, room>>

MarkRetained(j) ==
    /\ HandlerAt(j, "mark") /\ Goto(j, "working") /\ SetStatus(j, "retained")
    /\ Elsewhere /\ UNCHANGED <<disk, removal, seen, land, room>>

(* attachRetainedWorktree: the worktree must be there; the claim decides.                     *)
Attach(j) ==
    /\ j \in DOMAIN setting.follows /\ HandlerAt(j, "new")
    /\ Enter(j, IF Tree(j) \in tree THEN "claim" ELSE "done")
    /\ Elsewhere /\ UNCHANGED <<disk, reg, removal, seen, land, room>>

(* Mutant: a claim over a creator that still works there.                                     *)
UsableRetained(p) ==
    /\ land.step = "idle" /\ p \in tree
    /\ \/ reg[p].status = "retained"
       \/ reg[p].status = "in_use" /\ reg[p].job \notin active

(* claimRetainedWorktree: refused while an integration holds the repository or while the job  *)
(* the row names may still be running.                                                       *)
Usable(p) ==
    /\ land.step = "idle" /\ p \in tree
    /\ reg[p].status \in {"retained", "in_use"} /\ reg[p].job \notin active

Claim(j) ==
    /\ HandlerAt(j, "claim")
    /\ IF Usable(Tree(j))
       THEN reg' = [reg EXCEPT ![Tree(j)] = Row("in_use", j)] /\ Goto(j, "working")
       ELSE UNCHANGED reg /\ Goto(j, "done")
    /\ Elsewhere /\ UNCHANGED <<disk, removal, seen, land, room>>

(* The agent changes files of the worktree.                                                  *)
Write(j) ==
    /\ HandlerAt(j, "working") /\ Tree(j) \in tree /\ content[Tree(j)] < WtMaxWork
    /\ content' = [content EXCEPT ![Tree(j)] = @ + 1]
    /\ Elsewhere /\ UNCHANGED <<tree, integrated, reg, removal, handlers, seen, land, room>>

(* producedNothing: a fresh worktree with a verified empty diff.                              *)
ProducedNothing(j) == j \in Fresh /\ content[j] = 0

EndAgent(j) ==
    /\ HandlerAt(j, "working")
    /\ Goto(j, IF ProducedNothing(j) THEN "empty" ELSE IF j \in Fresh THEN "measure" ELSE "release")
    /\ Elsewhere /\ UNCHANGED <<disk, reg, removal, seen, land, room>>

(* cleanupWorktree of a worktree the job made itself: git worktree remove --force, and then   *)
(* the row, whatever it says.                                                                *)
RemoveOwn(j) ==
    /\ \E s \in {"redo", "discard", "empty"} :
         /\ HandlerAt(j, s)
         /\ Goto(j, CASE s = "redo" -> "redone" [] s = "discard" -> "discarded" [] s = "empty" -> "emptied")
    /\ tree' = tree \ {j} /\ content' = [content EXCEPT ![j] = 0]
    /\ Elsewhere /\ UNCHANGED <<integrated, reg, removal, seen, land, room>>

(* A failed removal leaves the worktree; before the agent ran, the reservation is released.   *)
RemoveOwnFails(j) ==
    /\ \E s \in {"redo", "discard", "empty"} :
         /\ HandlerAt(j, s) /\ SetStatus(j, IF s = "empty" THEN "cleanup_failed" ELSE "retained")
         /\ Goto(j, IF s = "empty" THEN "measure" ELSE "done")
    /\ Befalls("fail")
    /\ Elsewhere /\ UNCHANGED <<disk, removal, seen, land>>

MarkRemoved(j) ==
    /\ \E s \in {"redone", "discarded", "emptied"} :
         HandlerAt(j, s) /\ Goto(j, IF s = "redone" THEN "base" ELSE "done")
    /\ SetStatus(j, "cleaned")
    /\ Elsewhere /\ UNCHANGED <<disk, removal, seen, land, room>>

(* updateRetainedWorktreeMeasurement of a worktree the job made itself.                       *)
Measure(j) ==
    /\ HandlerAt(j, "measure") /\ Goto(j, "done") /\ SetStatus(j, "retained")
    /\ Elsewhere /\ UNCHANGED <<disk, removal, seen, land, room>>

MeasureFails(j) ==
    /\ HandlerAt(j, "measure") /\ Goto(j, "done") /\ SetStatus(j, "cleanup_failed") /\ Befalls("fail")
    /\ Elsewhere /\ UNCHANGED <<disk, removal, seen, land>>

(* releaseRetainedWorktreeClaim: only the claim this job still has.                           *)
Release(j) ==
    /\ HandlerAt(j, "release") /\ Goto(j, "done")
    /\ reg' = IF reg[Tree(j)] = Row("in_use", j) THEN [reg EXCEPT ![Tree(j)].status = "retained"] ELSE reg
    /\ Elsewhere /\ UNCHANGED <<disk, removal, seen, land, room>>

(* The outcome of the job is stored.                                                         *)
JobEnds(j) ==
    /\ HandlerAt(j, "done") /\ step' = [step EXCEPT ![j] = "over"] /\ active' = active \ {j}
    /\ Elsewhere /\ UNCHANGED <<disk, reg, removal, seen, land, room>>

-----------------------------------------------------------------------------
(* Integration of a finished job's worktree and the removal of its source, both under the     *)
(* serial_integration lock of the repository.                                                *)
LandAt(s) == land.step = s
Unlock == land' = NoLanding
InUse(p) == reg[p].status = "in_use"

(* integratePatchSerially refuses a source in use; the path locks of a running writer keep an *)
(* integration of its own worktree out.                                                       *)
LandBegin(p) ==
    /\ up /\ LandAt("idle") /\ p \in tree /\ content[p] > 0 /\ Befalls("land")
    /\ ~InUse(p) /\ step[p] \in {"over", "dead"}
    /\ land' = [NoLanding EXCEPT !.step = "locked", !.path = p]
    /\ Elsewhere /\ UNCHANGED <<disk, reg, removal, handlers, seen>>

(* collectIntegrationPatch looks at the status again; what it collects is applied.            *)
LandCollect ==
    /\ LandAt("locked")
    /\ LET p == land.path IN
       IF InUse(p) \/ p \notin tree THEN Unlock /\ UNCHANGED integrated
       ELSE /\ land' = [land EXCEPT !.step = "collected", !.content = content[p]]
            /\ integrated' = [integrated EXCEPT ![p] = @ \cup {content[p]}]
    /\ Elsewhere /\ UNCHANGED <<tree, content, reg, removal, handlers, seen, room>>

(* enqueueIntegrationCleanup: the removal is stored if the caller asked for it and no job      *)
(* claimed the source.                                                                       *)
LandEnqueue ==
    /\ LandAt("collected") /\ Unlock
    /\ LET p == land.path IN
       \/ UNCHANGED <<reg, removal>>
       \/ /\ ~InUse(p) /\ removal' = [removal EXCEPT ![p] = land.content]
          /\ reg' = CASE reg[p] = NoRow -> [reg EXCEPT ![p] = Row("cleanup_pending", NoJob)]
                      [] reg[p].status \in {"retained", "cleanup_failed", "cleanup_pending"} ->
                           [reg EXCEPT ![p].status = "cleanup_pending"]
                      [] OTHER -> reg
    /\ Elsewhere /\ UNCHANGED <<disk, handlers, seen, room>>

(* drain: by the bridge, or by the collector that resumes what a bridge left.                 *)
DrainBegin(p) ==
    /\ LandAt("idle") /\ removal[p] # Off
    /\ \E by \in (IF up THEN {"bridge"} ELSE {}) \cup (IF gc.step = "drain" THEN {"gc"} ELSE {}) :
         land' = [NoLanding EXCEPT !.step = "draining", !.path = p, !.by = by]
    /\ Elsewhere /\ UNCHANGED <<disk, reg, removal, handlers, seen, room>>

(* sourceMatches: the source still has the content that was reviewed and integrated.          *)
SourceMatches(p) == content[p] = removal[p]

(* What is in use is tried again later; a removal that a crash cut short is finished; a        *)
(* changed source or target keeps the worktree for review, a failure keeps the stored row.    *)
DrainCheck ==
    /\ LandAt("draining")
    /\ LET p == land.path IN
       \/ InUse(p) /\ Unlock /\ UNCHANGED <<reg, removal>>
       \/ ~InUse(p) /\ p \notin tree /\ land' = [land EXCEPT !.step = "removed"] /\ UNCHANGED <<reg, removal>>
       \/ /\ ~InUse(p) /\ p \in tree /\ SourceMatches(p)
          /\ land' = [land EXCEPT !.step = "removing"] /\ UNCHANGED <<reg, removal>>
       \/ /\ ~InUse(p) /\ Unlock
          /\ \/ removal' = [removal EXCEPT ![p] = Off] /\ SetStatus(p, "retained")
             \/ UNCHANGED removal /\ SetStatus(p, "cleanup_pending")
    /\ Elsewhere /\ UNCHANGED <<disk, handlers, seen, room>>

DrainRemove ==
    /\ LandAt("removing") /\ land' = [land EXCEPT !.step = "removed"]
    /\ tree' = tree \ {land.path} /\ content' = [content EXCEPT ![land.path] = 0]
    /\ SetStatus(land.path, "cleaned")
    /\ Elsewhere /\ UNCHANGED <<integrated, removal, handlers, seen, room>>

(* The stored removal and the row go together.                                               *)
DrainFinish ==
    /\ LandAt("removed") /\ Unlock
    /\ removal' = [removal EXCEPT ![land.path] = Off]
    /\ reg' = IF reg[land.path].status \in {"cleanup_pending", "cleaned", "cleanup_failed"}
              THEN [reg EXCEPT ![land.path] = NoRow] ELSE reg
    /\ Elsewhere /\ UNCHANGED <<disk, handlers, seen, room>>

-----------------------------------------------------------------------------
(* Bridges that stop and start, and what startup recovers.                                    *)
Stop ==
    /\ up /\ up' = FALSE /\ Befalls("stop")
    /\ step' = [j \in WtJobs |-> IF step[j] \in {"new", "over"} THEN step[j] ELSE "dead"]
    /\ land' = IF land.by = "bridge" THEN NoLanding ELSE land
    /\ UNCHANGED <<setting, disk, reg, removal, active, seen, gc, adopted>>

Start ==
    /\ ~up /\ up' = TRUE /\ Befalls("start")
    /\ gc' = [gc EXCEPT !.woken = gc.step = "removing"]
    /\ UNCHANGED <<setting, disk, reg, removal, handlers, seen, land, adopted>>

(* The queue's recovery fails the job of a dead bridge.                                       *)
RecoverJob(j) ==
    /\ up /\ step[j] = "dead" /\ j \in active /\ active' = active \ {j}
    /\ Elsewhere /\ UNCHANGED <<disk, reg, removal, step, seen, land, room>>

(* recoverStaleWorktreeClaims: worktreeClaimOwnerAlive decides.                               *)
RecoverClaims ==
    /\ up
    /\ LET stale == {p \in WtJobs : reg[p].status = "in_use" /\ reg[p].job \notin active} IN
       /\ stale # {}
       /\ reg' = [p \in WtJobs |-> IF p \in stale THEN [reg[p] EXCEPT !.status = "retained"] ELSE reg[p]]
    /\ Elsewhere /\ UNCHANGED <<disk, removal, handlers, seen, land, room>>

(* Commits in the checkout, changes there, changes a person makes in a retained worktree (not *)
(* in the moment of its removal: the code looks right before it).                             *)
Commit(kind) ==
    /\ kind \in {"commit", "hit"} /\ Befalls(kind) /\ tip' = tip + 1
    /\ hits' = IF kind = "hit" THEN hits \cup {tip + 1} ELSE hits
    /\ Elsewhere /\ UNCHANGED <<disk, reg, removal, handlers, mem, dirt, land>>

Dirty ==
    /\ Befalls("dirty") /\ dirt' = TRUE
    /\ Elsewhere /\ UNCHANGED <<disk, reg, removal, handlers, mem, tip, hits, land>>

Edit(p) ==
    /\ Befalls("edit") /\ p \in tree /\ step[p] = "over" /\ Users(p) = {}
    /\ content[p] < WtMaxWork /\ content' = [content EXCEPT ![p] = @ + 1]
    /\ land.step # "removing" /\ gc.step # "removing"
    /\ Elsewhere /\ UNCHANGED <<tree, integrated, reg, removal, handlers, seen, land>>

-----------------------------------------------------------------------------
(* bin/bridge-gc.js --apply.                                                                  *)
GcGoto(s) == gc' = [gc EXCEPT !.step = s]
Beside == UNCHANGED <<setting, removal, handlers, seen, up, land, adopted>>
Pending == {p \in WtJobs : removal[p] # Off}

(* activeReasons of inspectProjectDatabase.                                                   *)
ProjectActive == up \/ active # {} \/ Pending # {}

(* inventory reads the database; stored removals are resumed and everything else is kept.     *)
GcInspect ==
    /\ gc.step = "off" /\ Befalls("gc")
    /\ gc' = [NoCollection EXCEPT
                !.step = IF Pending # {} THEN "drain" ELSE IF ProjectActive THEN "off" ELSE "classify",
                !.rows = IF ProjectActive THEN @ ELSE reg]
    /\ UNCHANGED <<disk, reg>> /\ Beside

GcDrained ==
    /\ gc.step = "drain" /\ LandAt("idle") /\ GcGoto("off")
    /\ UNCHANGED <<disk, reg, room>> /\ Beside

(* Uncommitted work keeps a worktree unless --force-dirty; a removal by directory, for a       *)
(* repository that is gone, is only asked for with it.                                        *)
Removable(p) ==
    /\ p \in tree /\ gc.rows[p].status \notin {"in_use", "cleanup_pending"}
    /\ CASE setting.repo = "missing" -> setting.force
         [] setting.repo = "unknown" -> FALSE
         [] setting.repo = "present" ->
              /\ gc.rows[p].status = "cleaned" \/ setting.retained
              /\ content[p] = 0 \/ setting.force

GcClassify ==
    /\ gc.step = "classify"
    /\ gc' = [gc EXCEPT !.step = "sweep",
                !.todo = {p \in WtJobs : Removable(p)},
                !.stale = {p \in WtJobs : gc.rows[p].status \in {"creating", "retained", "cleanup_failed"}
                                          /\ p \notin tree},
                !.rows = NoCollection.rows]
    /\ UNCHANGED <<disk, reg, room>> /\ Beside

(* Mutant: the inventory is trusted.                                                         *)
StillRemovable(p) == TRUE

(* removalBlocker: the project and the worktree are looked at again.                          *)
MayGo(p) == ~ProjectActive /\ (setting.force \/ content[p] = 0)

GcRecheck(p) ==
    /\ gc.step = "sweep" /\ p \in gc.todo
    /\ gc' = IF MayGo(p)
             THEN [gc EXCEPT !.step = "removing", !.path = p, !.todo = @ \ {p}, !.woken = FALSE]
             ELSE [gc EXCEPT !.todo = @ \ {p}]
    /\ UNCHANGED <<disk, reg, room>> /\ Beside

GcRemove ==
    /\ gc.step = "removing" /\ GcGoto("removed")
    /\ tree' = tree \ {gc.path} /\ content' = [content EXCEPT ![gc.path] = 0]
    /\ UNCHANGED <<integrated, reg, room>> /\ Beside

(* markRegistryCleaned, for a removed worktree and for the rows found without one.            *)
Cleaned(p) ==
    reg' = IF reg[p].status \in {"creating", "retained", "cleanup_failed", "in_use"}
           THEN [reg EXCEPT ![p].status = "cleaned"] ELSE reg

GcMark ==
    /\ gc.step = "removed" /\ Cleaned(gc.path)
    /\ gc' = [gc EXCEPT !.step = "sweep", !.path = NoJob]
    /\ UNCHANGED <<disk, room>> /\ Beside

GcStale(p) ==
    /\ gc.step = "sweep" /\ gc.todo = {} /\ p \in gc.stale /\ Cleaned(p)
    /\ gc' = [gc EXCEPT !.stale = @ \ {p}]
    /\ UNCHANGED <<disk, room>> /\ Beside

GcEnd ==
    /\ gc.step = "sweep" /\ gc.todo = {} /\ gc.stale = {} /\ GcGoto("off")
    /\ UNCHANGED <<disk, reg, room>> /\ Beside

-----------------------------------------------------------------------------
Handler(j) ==
    \/ BeginCreate(j) \/ CreateAgain(j) \/ ReadKnown(j) \/ ListTrees(j) \/ ReconcileRegistry(j) \/ Reserve(j)
    \/ AddTree(j) \/ AddFails(j) \/ CheckTree(j) \/ MarkRetained(j)
    \/ Attach(j) \/ Claim(j) \/ Write(j) \/ EndAgent(j)
    \/ RemoveOwn(j) \/ RemoveOwnFails(j) \/ MarkRemoved(j)
    \/ Measure(j) \/ MeasureFails(j) \/ Release(j) \/ JobEnds(j)

Landing ==
    \/ \E p \in WtJobs : LandBegin(p) \/ DrainBegin(p)
    \/ LandCollect \/ LandEnqueue \/ DrainCheck \/ DrainRemove \/ DrainFinish

Collector ==
    \/ GcInspect \/ GcDrained \/ GcClassify \/ GcRemove \/ GcMark \/ GcEnd
    \/ \E p \in WtJobs : GcRecheck(p) \/ GcStale(p)

Outside ==
    \/ Stop \/ Start \/ RecoverClaims \/ Dirty
    \/ \E j \in WtJobs : RecoverJob(j) \/ Edit(j)
    \/ \E kind \in {"commit", "hit"} : Commit(kind)

WtNext == (\E j \in WtJobs : Handler(j)) \/ Landing \/ Collector \/ Outside

WtSpec == WtInit /\ [][WtNext]_worktreevars

-----------------------------------------------------------------------------
(* In what follows `adopted` excepts a worktree whose registration was lost while its creator  *)
(* was at work: between the reservation and git worktree add the row has no directory, so      *)
(* another job's reconciliation marks it cleaned, and a third one adopts the directory under   *)
(* its basename, which is nobody's job id.                                                    *)

(* A worktree that a job works in has no second user: a job that continues it waits for its   *)
(* creator and for every earlier claim (claimRetainedWorktree).                               *)
OneUser == \A p \in WtJobs \ adopted : Cardinality(Users(p)) <= 1

(* The same of every worktree, as claimRetainedWorktree has it: "Fresh writers register        *)
(* retained at creation too; they must finish before continuation."                           *)
CreatorsFinish == \A p \in WtJobs : Cardinality(Users(p)) <= 1

(* While a job continues a worktree the row is in_use and names it, whatever reconciliations,  *)
(* measurements, releases of earlier jobs, recoveries and cleanups do meanwhile: that row is   *)
(* all that integration, cleanup and other jobs look at.                                      *)
ClaimStands ==
    \A j \in WtJobs \ Fresh :
        step[j] = "working" /\ Tree(j) \in tree \ adopted => reg[Tree(j)] = Row("in_use", j)

(* From the moment an integration collected a source until it is done with it, and while a     *)
(* cleanup is about to remove one, nobody works there ("serial integration and claiming the    *)
(* same source must not race after collection").                                              *)
SourceSettled ==
    land.step \in {"collected", "removing"} /\ land.path \notin adopted => Users(land.path) = {}

(* A job works in a worktree that counts as one: the row the capacity and the collector read   *)
(* is active, for a creator also when a reconciliation took the reservation for abandoned.    *)
WorkingRegistered ==
    \A j \in WtJobs :
        step[j] = "working" /\ Tree(j) \in tree /\ (j \in Fresh \/ Tree(j) \notin adopted)
            => reg[Tree(j)].status \in Active

(* A job that starts in a new worktree sees every commit in its scope that was there when git  *)
(* made the worktree, however often HEAD moved meanwhile (classifyHeadMoveDuringCreation).     *)
BaseCurrent ==
    \A j \in Fresh : step[j] = "working" => hits \cap (mem[j].base + 1 .. mem[j].added) = {}

CollectorTook(p) == gc.step = "removing" /\ gc.path = p

(* No worktree is removed under a job that works in it: not by a cleanup after integration and *)
(* not by the collector, unless a bridge came up after the collector's last look at it.        *)
NotPulledAway ==
    \A p \in tree \ tree' : Users(p) = {} \/ p \in adopted \/ (CollectorTook(p) /\ gc.woken)

(* What is removed held no work, or work that was integrated as it was; only --force-dirty     *)
(* throws work away.                                                                         *)
WorkKept ==
    \A p \in tree \ tree' :
        \/ content[p] \in integrated[p] \cup {0} \/ p \in adopted
        \/ (CollectorTook(p) /\ (setting.force \/ gc.woken))

(* What the registry says of a worktree is what is done in it, for each of  *)
(* its users in turn (claimRetainedWorktree, createWorktreeWhileLocked).    *)
ClaimsHold ==
    WtTypeOK /\ OneUser /\ ClaimStands /\ WorkingRegistered /\ SourceSettled /\ BaseCurrent

(* A removal takes neither a worktree in use nor work that is nowhere else  *)
(* (removeIntegratedWorktreeSource, bridge-gc).                             *)
RemovalsSafe == [][NotPulledAway /\ WorkKept]_worktreevars
=============================================================================
