-------------------------- MODULE AutoIntegration --------------------------
(***************************************************************************)
(* Queue auto-integration (lib/queue/auto-integration.js): the bridges of  *)
(* a repository land the new files of finished jobs, alone or as a batch,  *)
(* and commit them, while jobs, operators and other bridges work beside    *)
(* them.  A claim on the finished row says which bridge lands a job; the   *)
(* serial lock of the repository covers the application, the commit and    *)
(* the scheduling of the source's removal (lib/integration-serial.js,      *)
(* lib/integration-cleanup.js).  A job writes one path, named for it.      *)
(***************************************************************************)
EXTENDS Integers, FiniteSets

CONSTANTS
    AiBridges,   \* bridge processes
    AiJobs,      \* write jobs that asked for auto-integration
    AiScenarios  \* bound: records [up, at, creates, events], one of which a behaviour
                 \* follows: the bridges that run, the one each job runs on (NoBridge: it does
                 \* not end), the jobs whose patch only creates files, and how often each of
                 \* the things that may happen around them happens

Happenings == {"crash", "lapse", "age", "lock", "edit", "write"}

ASSUME AiAssumption ==
    /\ IsFiniteSet(AiJobs) /\ AiBridges \cap {"nobody", "writer"} = {}
    /\ \A s \in AiScenarios : s.creates \subseteq AiJobs /\ s.events \in [Happenings -> Nat]

VARIABLES
    finished,  \* jobs whose row is completed
    course,      \* the scenario
    life,      \* each bridge: "running", "silent" (its lease lapsed), "dead" (leased), "gone"
    record,    \* autoIntegration of each row: [status, by, old]
    scheduled, \* AUTO_INTEGRATION_RESCHEDULED of each bridge
    pendingJobs,   \* AUTO_INTEGRATION_PENDING of each bridge
    waiting,   \* AUTO_INTEGRATION_WAITING of each bridge
    turn,      \* the running turn of each bridge's chain
    checkout,  \* each path in the target: "absent", "job" or "other"
    head,      \* each path in the commit HEAD names
    commits,   \* commits on top of the first HEAD
    copy,      \* each job's worktree: "job", "edited" or "gone"
    holder,    \* the holder of the serial lock: a bridge, Writer or NoBridge
    task,      \* integration_worktree_cleanup: [status, at] of each worktree
    landed,    \* history: paths whose reviewed content has been in HEAD
    aged,      \* history: jobs whose claim has been 30 minutes old
    left       \* events of the scenario that have not happened

aivars == <<finished, course, life, record, scheduled, pendingJobs, waiting, turn, checkout, head, commits,
            copy, holder, task, landed, aged, left>>
environment == <<finished, course, life, aged, left>>
target == <<checkout, head, commits, landed>>

NoBridge == "nobody"
Writer == "writer"
NoState == <<>>
FinalRecords == {"committed", "already_committed", "skipped_not_new_files", "failed", "applied_not_committed"}
OpenRecords == {"none", "integrating", "waiting_for_lock"}
Contents == {"absent", "job", "other"}
AtRestTurn == [pc |-> "idle", todo |-> {}, cur |-> {}, alone |-> {}, dropped |-> {}, later |-> {},
               seen |-> NoState, old |-> 0, first |-> NoState, out |-> "none"]

AiTypeOK ==
    /\ finished \subseteq AiJobs /\ left \in [Happenings -> Nat] /\ commits \in Nat
    /\ life \in [AiBridges -> {"running", "silent", "dead", "gone"}]
    /\ record \in [AiJobs -> [status : OpenRecords \cup FinalRecords, by : AiBridges \cup {NoBridge},
                              old : BOOLEAN]]
    /\ \A b \in AiBridges : /\ pendingJobs[b] \cup waiting[b] \subseteq scheduled[b]
                            /\ scheduled[b] \subseteq finished
                            /\ turn[b].cur \cap turn[b].alone = {}
    /\ checkout \in [AiJobs -> Contents] /\ head \in [AiJobs -> Contents \cup {"edited"}]
    /\ copy \in [AiJobs -> {"job", "edited", "gone"}]
    /\ holder \in AiBridges \cup {NoBridge, Writer}

AutoStart(scenario) ==
    /\ course = scenario /\ left = scenario.events /\ finished = {}
    /\ life = [b \in AiBridges |-> IF b \in scenario.up THEN "running" ELSE "gone"]
    /\ record = [j \in AiJobs |-> [status |-> "none", by |-> NoBridge, old |-> FALSE]]
    /\ scheduled = [b \in AiBridges |-> {}] /\ pendingJobs = scheduled /\ waiting = scheduled
    /\ turn = [b \in AiBridges |-> AtRestTurn]
    /\ checkout = [j \in AiJobs |-> "absent"] /\ head = checkout /\ commits = 0
    /\ copy = [j \in AiJobs |-> "job"] /\ holder = NoBridge
    /\ task = [j \in AiJobs |-> [status |-> "none", at |-> NoState]]
    /\ landed = {} /\ aged = {}

AutoInit == \E scenario \in AiScenarios : AutoStart(scenario)

Alive(b) == life[b] \in {"running", "silent"}
State == [checkout |-> checkout, head |-> head, commits |-> commits]
(* What a receipt holds of the paths and sources of a landing.              *)
Evidence(P) == [p \in P |-> <<checkout[p], head[p], copy[p]>>]
Turned(b, t) == turn' = [turn EXCEPT ![b] = t]

-----------------------------------------------------------------------------
(* Scheduling: when the job's terminal write is accepted, by the recovery   *)
(* pass of any bridge, and by the timer of a job that waits.                *)
Schedule(b, J) ==
    /\ scheduled' = [scheduled EXCEPT ![b] = @ \cup J]
    /\ pendingJobs' = [pendingJobs EXCEPT ![b] = @ \cup J]

FinishJob(b, j) ==
    /\ Alive(b) /\ course.at[j] = b /\ j \notin finished
    /\ finished' = finished \cup {j}
    /\ Schedule(b, {j})
    /\ UNCHANGED <<course, life, record, waiting, turn, target, copy, holder, task, aged, left>>

OpenJobs(b) == {j \in finished : record[j].status \in OpenRecords /\ copy[j] # "gone"} \ scheduled[b]

RescheduleOpen(b) ==
    /\ Alive(b) /\ OpenJobs(b) # {}
    /\ Schedule(b, OpenJobs(b))
    /\ UNCHANGED <<environment, record, waiting, turn, target, copy, holder, task>>

TimerFires(b, j) ==
    /\ Alive(b) /\ j \in waiting[b]
    /\ waiting' = [waiting EXCEPT ![b] = @ \ {j}]
    /\ Schedule(b, {j})
    /\ UNCHANGED <<environment, record, turn, target, copy, holder, task>>

(* A turn takes everything its repository has pendingJobs on this bridge.       *)
StartTurn(b) ==
    /\ Alive(b) /\ turn[b].pc = "idle" /\ pendingJobs[b] # {}
    /\ Turned(b, IF Cardinality(pendingJobs[b]) = 1
                   THEN [AtRestTurn EXCEPT !.pc = "pick", !.alone = pendingJobs[b]]
                   ELSE [AtRestTurn EXCEPT !.pc = "claim", !.todo = pendingJobs[b]])
    /\ pendingJobs' = [pendingJobs EXCEPT ![b] = {}]
    /\ UNCHANGED <<environment, record, scheduled, waiting, target, copy, holder, task>>

Forgotten(b) == turn[b].dropped

EndTurn(b) ==
    /\ Alive(b) /\ turn[b].pc = "pick" /\ turn[b].alone = {}
    /\ Turned(b, AtRestTurn)
    /\ scheduled' = [scheduled EXCEPT ![b] = (@ \ Forgotten(b)) \cup pendingJobs[b]]
    /\ waiting' = [waiting EXCEPT ![b] = @ \cup turn[b].later]
    /\ UNCHANGED <<environment, record, pendingJobs, target, copy, holder, task>>

-----------------------------------------------------------------------------
(* Mutant: the process id of a claimer is not looked at.                    *)
ClaimerGoneByLease(c) == c \in AiBridges => life[c] \in {"silent", "gone"}
ClaimerGone(c) == c \in AiBridges => life[c] = "gone"

MayClaim(b, j) ==
    \/ record[j].status = "none"
    \/ /\ record[j].status \notin FinalRecords
       /\ record[j].by = b \/ ClaimerGone(record[j].by) \/ record[j].old

Claimed(b, j) ==
    record' = IF MayClaim(b, j)
                THEN [record EXCEPT ![j] = [status |-> "integrating", by |-> b, old |-> FALSE]]
                ELSE record

AlreadyCommitted(j) == copy[j] = "job" /\ head[j] = "job"

(* Each job of a group is claimed; those with their own scope, without a    *)
(* worktree or already in HEAD are left for the path of one job.            *)
ClaimMember(b) ==
    /\ Alive(b) /\ turn[b].pc = "claim"
    /\ \/ \E j \in turn[b].todo :
            LET t == [turn[b] EXCEPT !.todo = @ \ {j}]
            IN /\ Claimed(b, j)
               /\ \/ ~MayClaim(b, j) /\ Turned(b, [t EXCEPT !.dropped = @ \cup {j}])
                  \/ MayClaim(b, j) /\ Turned(b, [t EXCEPT !.alone = @ \cup {j}])
                  \/ /\ MayClaim(b, j) /\ copy[j] # "gone" /\ ~AlreadyCommitted(j)
                     /\ Turned(b, [t EXCEPT !.cur = @ \cup {j}])
       \/ /\ turn[b].todo = {} /\ UNCHANGED record
          /\ IF Cardinality(turn[b].cur) > 1
               THEN Turned(b, [turn[b] EXCEPT !.pc = "renew", !.todo = turn[b].cur, !.cur = {}])
               ELSE Turned(b, [turn[b] EXCEPT !.pc = "pick", !.alone = @ \cup turn[b].cur, !.cur = {}])
    /\ UNCHANGED <<environment, scheduled, pendingJobs, waiting, target, copy, holder, task>>

RenewMember(b) ==
    /\ Alive(b) /\ turn[b].pc = "renew"
    /\ \/ \E j \in turn[b].todo :
            /\ Claimed(b, j)
            /\ Turned(b, IF MayClaim(b, j)
                           THEN [turn[b] EXCEPT !.todo = @ \ {j}, !.cur = @ \cup {j}]
                           ELSE [turn[b] EXCEPT !.todo = @ \ {j}, !.dropped = @ \cup {j}])
       \/ /\ turn[b].todo = {} /\ UNCHANGED record
          /\ IF Cardinality(turn[b].cur) > 1
               THEN Turned(b, [turn[b] EXCEPT !.pc = "preview"])
               ELSE Turned(b, [turn[b] EXCEPT !.pc = "pick", !.alone = @ \cup turn[b].cur, !.cur = {}])
    /\ UNCHANGED <<environment, scheduled, pendingJobs, waiting, target, copy, holder, task>>

(* The path of one job: its claim, then a look at HEAD.                     *)
ClaimAlone(b) ==
    /\ Alive(b) /\ turn[b].pc = "pick"
    /\ \E j \in turn[b].alone :
         LET t == [turn[b] EXCEPT !.alone = @ \ {j}]
         IN /\ Claimed(b, j)
            /\ Turned(b, IF MayClaim(b, j) THEN [t EXCEPT !.pc = "check", !.cur = {j}]
                                            ELSE [t EXCEPT !.dropped = @ \cup {j}])
    /\ UNCHANGED <<environment, scheduled, pendingJobs, waiting, target, copy, holder, task>>

CheckHead(b) ==
    /\ Alive(b) /\ turn[b].pc = "check"
    /\ LET found == \E j \in turn[b].cur : AlreadyCommitted(j)
       IN Turned(b, [turn[b] EXCEPT !.pc = IF found THEN "found" ELSE "preview",
                                    !.out = IF found THEN "already_committed" ELSE "none"])
    /\ UNCHANGED <<environment, record, scheduled, pendingJobs, waiting, target, copy, holder, task>>

-----------------------------------------------------------------------------
(* Removing a source outside an integration of its own: under the lock, for *)
(* the identity the job finished with and only where no cleanup is stored.  *)
MayRemove(j) == holder = NoBridge /\ task[j].status = "none" /\ copy[j] = "job"
Removed(P) == copy' = [j \in AiJobs |-> IF j \in P THEN "gone" ELSE copy[j]]

SettleFound(b) ==
    /\ Alive(b) /\ turn[b].pc = "found"
    /\ Removed({j \in turn[b].cur : MayRemove(j)})
    /\ Turned(b, [turn[b] EXCEPT !.pc = "record"])
    /\ UNCHANGED <<environment, record, scheduled, pendingJobs, waiting, target, holder, task>>

SweepCommitted(b, j) ==
    /\ Alive(b) /\ record[j].status = "already_committed" /\ MayRemove(j)
    /\ Removed({j})
    /\ UNCHANGED <<environment, record, scheduled, pendingJobs, waiting, turn, target, holder, task>>

(* The background removal of what an integration scheduled; a chain of this *)
(* bridge that runs goes first.                                             *)
CleanupOutcome(j) ==
    IF copy[j] # "edited" /\ (task[j].status = "commit" \/ task[j].at = State) THEN "removed" ELSE "retained"

DrainCleanup(b, j) ==
    /\ Alive(b) /\ turn[b].pc = "idle" /\ pendingJobs[b] = {} /\ holder = NoBridge
    /\ task[j].status \in {"commit", "target"}
    /\ task' = [task EXCEPT ![j] = [status |-> IF CleanupOutcome(j) = "removed" THEN "none" ELSE "retained",
                                    at |-> NoState]]
    /\ Removed(IF CleanupOutcome(j) = "removed" THEN {j} ELSE {})
    /\ UNCHANGED <<environment, record, scheduled, pendingJobs, waiting, turn, target, holder>>

-----------------------------------------------------------------------------
(* One call of the engine ends without landing: a batch falls back to the   *)
(* path of one job; a job alone is tried again, waits for a later try, or   *)
(* its failure is recorded (the rounds and later tries are not counted).    *)
FallBack(b) == Turned(b, [turn[b] EXCEPT !.pc = "pick", !.alone = @ \cup turn[b].cur, !.cur = {}])
Ends(b, out) == Turned(b, [turn[b] EXCEPT !.pc = "record", !.out = out])
IsBatch(b) == Cardinality(turn[b].cur) > 1
Fails(b) == IF IsBatch(b) THEN FallBack(b) ELSE Ends(b, "failed")
CannotLand(b) ==
    \/ Turned(b, [turn[b] EXCEPT !.pc = "preview"])
    \/ IF IsBatch(b) THEN FallBack(b) ELSE Ends(b, "waiting_for_lock") \/ Ends(b, "failed")
NotNew(P) == P \ course.creates

(* The dry run refuses a path that is changed in the checkout.              *)
DryRunRefused(P) == \E p \in P : copy[p] = "job" /\ checkout[p] # head[p]

Preview(b) ==
    /\ Alive(b) /\ turn[b].pc = "preview"
    /\ LET P == turn[b].cur
           changed == {p \in P : copy[p] # "job"}
           leave == IF changed # {} THEN changed ELSE NotNew(P)
       IN IF holder # NoBridge THEN CannotLand(b)
          ELSE IF DryRunRefused(P) THEN Fails(b)
          ELSE IF leave = {} THEN Turned(b, [turn[b] EXCEPT !.pc = "apply", !.seen = Evidence(P)])
          ELSE IF ~IsBatch(b) THEN Ends(b, IF changed # {} THEN "failed" ELSE "skipped_not_new_files")
          ELSE IF Cardinality(P \ leave) > 1
               THEN Turned(b, [turn[b] EXCEPT !.cur = @ \ leave, !.alone = @ \cup leave])
               ELSE FallBack(b)
    /\ UNCHANGED <<environment, record, scheduled, pendingJobs, waiting, target, copy, holder, task>>

(* The reviewed apply: the receipt must still hold, and the validation pass *)
(* (IntegrationJournal models the operation).  Where the target already has *)
(* the very file, git finds nothing to do.  The lock is kept for the commit.*)
Apply(b) ==
    /\ Alive(b) /\ turn[b].pc = "apply"
    /\ LET P == turn[b].cur
           sound == turn[b].seen = Evidence(P)
           conflict == \E p \in P : head[p] = "other"
       IN \/ /\ holder # NoBridge \/ ~sound
             /\ CannotLand(b) /\ UNCHANGED <<checkout, holder>>
          \/ /\ holder = NoBridge /\ sound
             /\ Fails(b) /\ UNCHANGED <<checkout, holder>>
          \/ /\ holder = NoBridge /\ sound /\ ~conflict
             /\ checkout' = [p \in AiJobs |-> IF p \in P THEN "job" ELSE checkout[p]]
             /\ holder' = b
             /\ Turned(b, [turn[b] EXCEPT !.pc = "prepare",
                             !.seen = [State EXCEPT !.checkout = checkout']])
    /\ UNCHANGED <<environment, record, scheduled, pendingJobs, waiting, head, commits, landed, copy, task>>

(* The commit, in the lock: the sources are hashed, the target must hold    *)
(* the same content, and HEAD is moved from the commit that was read.       *)
NotCommitted(b) == [turn[b] EXCEPT !.pc = "enqueue", !.out = "applied_not_committed"]

Prepare(b) ==
    /\ Alive(b) /\ turn[b].pc = "prepare"
    /\ Turned(b, IF \E p \in turn[b].cur : copy[p] = "gone" THEN NotCommitted(b)
                 ELSE [turn[b] EXCEPT !.pc = "compare", !.first = [p \in turn[b].cur |-> copy[p]]])
    /\ UNCHANGED <<environment, record, scheduled, pendingJobs, waiting, target, copy, holder, task>>

SameContent(b) == \A p \in turn[b].cur : checkout[p] = turn[b].first[p]

Compare(b) ==
    /\ Alive(b) /\ turn[b].pc = "compare"
    /\ \/ holder # b /\ Turned(b, NotCommitted(b))   \* the heartbeat has noticed
       \/ ~SameContent(b) /\ Turned(b, NotCommitted(b))
       \/ SameContent(b) /\ Turned(b, [turn[b] EXCEPT !.pc = "readHead"])
    /\ UNCHANGED <<environment, record, scheduled, pendingJobs, waiting, target, copy, holder, task>>

ReadHead(b) ==
    /\ Alive(b) /\ turn[b].pc = "readHead"
    /\ Turned(b, [turn[b] EXCEPT !.pc = "move", !.old = commits, !.seen.head = head])
    /\ UNCHANGED <<environment, record, scheduled, pendingJobs, waiting, target, copy, holder, task>>

(* Mutant: after HEAD moved, the new commit is not searched for the paths.  *)
StillNewUnseen(b) == TRUE
StillNew(b) == \A p \in turn[b].cur : head[p] = "absent"

MoveHead(b) ==
    /\ Alive(b) /\ turn[b].pc = "move"
    /\ IF commits = turn[b].old
         THEN /\ head' = [p \in AiJobs |-> IF p \in turn[b].cur THEN turn[b].first[p] ELSE head[p]]
              /\ commits' = commits + 1
              /\ landed' = landed \cup {p \in turn[b].cur : turn[b].first[p] = "job"}
              /\ Turned(b, [turn[b] EXCEPT !.pc = "enqueue", !.out = "committed"])
         ELSE /\ UNCHANGED <<head, commits, landed>>
              /\ \/ Turned(b, NotCommitted(b))   \* too many moves, or the paths are taken
                 \/ StillNew(b) /\ Turned(b, [turn[b] EXCEPT !.old = commits])
    /\ UNCHANGED <<environment, record, scheduled, pendingJobs, waiting, checkout, copy, holder, task>>

(* The removal of each source is stored, for the commit where there is one  *)
(* and the target still holds the files, otherwise for the target as the    *)
(* operation left it; then the lock is released.                            *)
CleanupOf(b, p) ==
    CASE copy[p] = "gone" -> task[p]
      [] copy[p] # "gone" /\ turn[b].out # "committed" -> [status |-> "target", at |-> turn[b].seen]
      [] copy[p] # "gone" /\ turn[b].out = "committed" ->
           IF checkout[p] = "job" THEN [status |-> "commit", at |-> NoState] ELSE task[p]

StoreCleanup(b) ==
    /\ Alive(b) /\ turn[b].pc = "enqueue"
    /\ task' = [p \in AiJobs |-> IF p \in turn[b].cur THEN CleanupOf(b, p) ELSE task[p]]
    /\ holder' = IF holder = b THEN NoBridge ELSE holder
    /\ Turned(b, [turn[b] EXCEPT !.pc = "record"])
    /\ UNCHANGED <<environment, record, scheduled, pendingJobs, waiting, target, copy>>

-----------------------------------------------------------------------------
(* An outcome is written only while this bridge holds the job's claim.      *)
HoldsClaim(b, j) == record[j].by \in {b, NoBridge}

RecordOutcome(b) ==
    /\ Alive(b) /\ turn[b].pc = "record"
    /\ \/ \E j \in turn[b].cur :
            /\ record' = IF HoldsClaim(b, j)
                            THEN [record EXCEPT ![j] = [status |-> turn[b].out, by |-> b, old |-> FALSE]]
                            ELSE record
            /\ Turned(b, [turn[b] EXCEPT !.cur = @ \ {j},
                 !.later = IF turn[b].out = "waiting_for_lock" THEN @ \cup {j} ELSE @])
       \/ /\ turn[b].cur = {} /\ UNCHANGED record
          /\ Turned(b, [turn[b] EXCEPT !.pc = "pick", !.out = "none", !.seen = NoState, !.first = NoState,
                                      !.old = 0])
    /\ UNCHANGED <<environment, scheduled, pendingJobs, waiting, target, copy, holder, task>>

-----------------------------------------------------------------------------
(* What happens around the bridges.                                         *)
Happens(kind) == left[kind] > 0 /\ left' = [left EXCEPT ![kind] = @ - 1]

AiCrash(b) ==
    /\ Happens("crash") /\ Alive(b)
    /\ life' = [life EXCEPT ![b] = IF @ = "running" THEN "dead" ELSE "gone"]
    /\ turn' = [turn EXCEPT ![b] = AtRestTurn]
    /\ scheduled' = [scheduled EXCEPT ![b] = {}] /\ pendingJobs' = [pendingJobs EXCEPT ![b] = {}]
    /\ waiting' = [waiting EXCEPT ![b] = {}]
    /\ UNCHANGED <<finished, course, record, target, copy, holder, task,
                   aged>>

(* The instance lease of a bridge runs out, or is renewed.                  *)
InstanceLease(b) ==
    /\ \/ life[b] = "running" /\ Happens("lapse") /\ life' = [life EXCEPT ![b] = "silent"]
       \/ life[b] = "silent" /\ life' = [life EXCEPT ![b] = "running"] /\ UNCHANGED left
       \/ life[b] = "dead" /\ life' = [life EXCEPT ![b] = "gone"] /\ UNCHANGED left
    /\ UNCHANGED <<finished, course, record, scheduled, pendingJobs, waiting, turn, target, copy, holder, task,
                   aged>>

(* A claim becomes 30 minutes old.                                          *)
ClaimAges(j) ==
    /\ Happens("age") /\ record[j].status \in {"integrating", "waiting_for_lock"} /\ ~record[j].old
    /\ record' = [record EXCEPT ![j].old = TRUE] /\ aged' = aged \cup {j}
    /\ UNCHANGED <<finished, course, life, scheduled, pendingJobs, waiting, turn, target, copy, holder, task>>

(* The serial lock of a bridge is lost, or a writer's lock is in the way.   *)
LockMoves ==
    /\ \/ holder \in AiBridges /\ Happens("lock") /\ holder' = NoBridge
       \/ holder = NoBridge /\ Happens("lock") /\ holder' = Writer
       \/ holder = Writer /\ holder' = NoBridge /\ UNCHANGED left
    /\ UNCHANGED <<finished, course, life, record, scheduled, pendingJobs, waiting, turn, target, copy, task,
                   aged>>

EditCopy(j) ==
    /\ Happens("edit") /\ copy[j] = "job" /\ copy' = [copy EXCEPT ![j] = "edited"]
    /\ UNCHANGED <<finished, course, life, record, scheduled, pendingJobs, waiting, turn, target, holder, task,
                   aged>>

(* Somebody writes a path of the target, and commits it or not.             *)
WriteTarget(j) ==
    /\ Happens("write")
    /\ \E content \in {"job", "other"} :
         /\ checkout' = [checkout EXCEPT ![j] = content]
         /\ \/ UNCHANGED <<head, commits, landed>>
            \/ /\ head' = [head EXCEPT ![j] = content] /\ commits' = commits + 1
               /\ landed' = IF content = "job" THEN landed \cup {j} ELSE landed
    /\ UNCHANGED <<finished, course, life, record, scheduled, pendingJobs, waiting, turn, copy, holder, task,
                   aged>>

AutoNext ==
    \/ \E b \in AiBridges :
         \/ RescheduleOpen(b) \/ StartTurn(b) \/ EndTurn(b) \/ ClaimMember(b) \/ RenewMember(b)
         \/ ClaimAlone(b) \/ CheckHead(b) \/ SettleFound(b) \/ Preview(b) \/ Apply(b) \/ Prepare(b)
         \/ Compare(b) \/ ReadHead(b) \/ MoveHead(b) \/ StoreCleanup(b) \/ RecordOutcome(b)
         \/ AiCrash(b) \/ InstanceLease(b)
         \/ \E j \in AiJobs : FinishJob(b, j) \/ TimerFires(b, j) \/ SweepCommitted(b, j) \/ DrainCleanup(b, j)
    \/ \E j \in AiJobs : ClaimAges(j) \/ EditCopy(j) \/ WriteTarget(j)
    \/ LockMoves

AutoSpec == AutoInit /\ [][AutoNext]_aivars

-----------------------------------------------------------------------------
(* Two live bridges work on one job only after its claim has been half an   *)
(* hour old: the claim is decided on the row's revision, and a process that *)
(* lives, its lease lapsed or not, keeps it (claimAutoIntegration).         *)
Working(b) == IF turn[b].pc \in {"idle", "pick"} THEN {} ELSE turn[b].cur
OneLander ==
    \A b, c \in AiBridges :
        b # c /\ Alive(b) /\ Alive(c) => Working(b) \cap Working(c) \subseteq aged

(* A job recorded as committed has had its reviewed content in HEAD         *)
(* (autoIntegrateQueueJob, alreadyCommittedInTarget).                       *)
CommittedLanded ==
    \A j \in AiJobs : record[j].status \in {"committed", "already_committed"} => j \in landed

(* No outcome is overwritten, neither by a bridge whose claim was taken     *)
(* over nor by a second landing (recordAutoIntegrationOutcome).             *)
OutcomeStays ==
    \A j \in AiJobs : record[j].status \in FinalRecords => record'[j].status = record[j].status

(* A bridge's commit holds, for each path, the content the job finished     *)
(* with, and replaces nothing that came into HEAD after the first reading   *)
(* of it (autoIntegrationCommitHooks).                                      *)
LandsReviewed ==
    \A b \in AiBridges :
        turn[b].pc = "move" /\ turn'[b].out = "committed" =>
            \A p \in turn[b].cur :
                /\ p \in course.creates /\ head'[p] = "job"
                /\ head[p] = "other" => turn[b].seen.head[p] = "other"

(* A source is removed only unchanged and while the target holds its files, *)
(* or after HEAD has (cleanupCommittedSourceWhileLocked, drain).            *)
RemovedLanded ==
    \A j \in AiJobs : copy'[j] = "gone" /\ copy[j] # "gone" =>
        copy[j] = "job" /\ (j \in landed \/ checkout[j] = "job")

(* A finished job is landed by one bridge, and what is recorded of it is    *)
(* true (autoIntegrateQueueJob and its claim).                              *)
LandedByOne == AiTypeOK /\ OneLander /\ CommittedLanded

(* It lands as reviewed, its outcome is final, and its source goes last.    *)
LandsReviewedWork == [][OutcomeStays /\ LandsReviewed /\ RemovedLanded]_aivars
=============================================================================
