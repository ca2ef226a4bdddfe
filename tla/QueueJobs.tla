----------------------------- MODULE QueueJobs -----------------------------
(* The durable job queue of the bridge (lib/queue/*.js, server.js): the rows of table       *)
(* opencode_jobs that every bridge process of a repository shares, the record each process  *)
(* keeps of a job in QUEUE_JOBS, the scheduler, the worker that runs a claimed job, the     *)
(* lease heartbeat, cancellation, and the recovery of what a dead process left behind.      *)
(*                                                                                          *)
(* One database transaction is one action.  A write that awaits between the copy of the     *)
(* record and its transaction (updateQueueRecordDurable) is a Begin action, which puts it   *)
(* in flight, and a commit, a refusal or a throw.                                           *)
EXTENDS Integers, FiniteSets

CONSTANTS
    Inst,       \* bridge processes (BRIDGE_INSTANCE_ID); a restarted bridge is another one
    NoInst,     \* the owner of a row enqueued for a worker to adopt
    Job,
    Batch,      \* the jobs that are children of one pipeline
    MaxGen,     \* bound: how many owner generations a job has
    Timely,     \* TRUE: the lease fence fires on time.  FALSE: a process may sleep past it
    Callers,    \* the instances whose own cancel_opencode_job is called for a job they track
    Events      \* which of the events below may happen, besides crashes

ASSUME InstAssumption == NoInst \notin Inst /\ Callers \subseteq Inst
ASSUME JobAssumption == Batch \subseteq Job
ASSUME BoundAssumption == MaxGen \in Nat \ {0} /\ Timely \in BOOLEAN
ASSUME EventAssumption ==
    Events \subseteq {"lapse",         \* heartbeats fail or come late: a lease may lapse
                      "throw",         \* a write of the scheduler or of a worker throws
                      "exhaust",       \* every attempt of a worker to write its outcome throws
                      "cancel_throw"}  \* the write of cancel_opencode_job throws

VARIABLES
    \* table opencode_jobs
    st,         \* status
    owner,      \* owner_instance_id
    gen,        \* owner_generation
    cancel,     \* is cancellation_requested_at set?
    lease,      \* is lease_expires_at in the future?
    \* tables opencode_pipelines, bridge_instances, locks
    pipe,       \* the status of the pipeline whose children are Batch
    ilease,     \* per instance: is its lease_expires_at in the future?
    lock,       \* per job: the hard lock its worker took ("kept": quarantined)
    \* the processes
    alive,
    \* QUEUE_JOBS: the record instance i keeps of job j, at [i][j]
    mst,        \* status, or "none" when the job is not tracked
    mgen,       \* ownerGeneration, 0 when the record names another owner
    mcan,       \* cancellationRequested
    mrev,       \* its revision, compared with the revision of the row it owns
    \* the worker (startQueueRecord) of a claimed record
    work,       \* "run", or the outcome it still has to write, or "none"
    abort,      \* was its abortController aborted?
    \* a write in flight: the candidate copied from the record, before its transaction
    fly,        \* the status it will write, "note" and "claim" for those two, or "none"
    frev,
    fcan,
    \* cancel_opencode_job in the process that tracks the job
    tool,       \* "pre" or "active": the record is marked, its write is pending
    told        \* per job: was a caller told that the job is cancelled or being cancelled?

rows == <<st, owner, gen, cancel, lease, pipe>>
records == <<mst, mgen, mcan, mrev>>
flight == <<fly, frev, fcan>>
vars == <<rows, ilease, lock, alive, records, work, abort, flight, tool, told>>

(* A variable with a value for every record.                                                *)
PerRecord(T) == [Inst -> [Job -> T]]
All(v) == [j \in Job |-> v]
Every(v) == [i \in Inst |-> All(v)]

Pre == {"pending", "planned", "blocked"}
Terminal == {"completed", "failed", "cancelled", "interrupted"}
Open == Pre \cup {"running"}
Bad == Terminal \ {"completed"}
Outcome == {"completed", "failed", "cancelled", "blocked"}
Revision == {"same",      \* the row has the revision of the copy
             "renewed",   \* the row is ahead, by lease renewals only
             "newer"}     \* the row was rewritten since

TypeOK ==
    /\ st \in [Job -> {"none"} \cup Open \cup Terminal]
    /\ owner \in [Job -> Inst \cup {NoInst}]
    /\ gen \in [Job -> 0 .. MaxGen]
    /\ cancel \in [Job -> BOOLEAN] /\ lease \in [Job -> BOOLEAN] /\ told \in [Job -> BOOLEAN]
    /\ pipe \in {"none", "running", "failed", "cancelled"}
    /\ ilease \in [Inst -> BOOLEAN] /\ alive \in [Inst -> BOOLEAN]
    /\ lock \in [Job -> {"none", "held", "kept"}]
    /\ mst \in PerRecord({"none"} \cup Open \cup Terminal)
    /\ mgen \in PerRecord(0 .. MaxGen)
    /\ mcan \in PerRecord(BOOLEAN) /\ fcan \in PerRecord(BOOLEAN) /\ abort \in PerRecord(BOOLEAN)
    /\ mrev \in PerRecord(Revision) /\ frev \in PerRecord(Revision)
    /\ work \in PerRecord({"none", "run"} \cup Outcome)
    /\ fly \in PerRecord({"none", "note", "claim", "planned"} \cup Outcome)
    /\ tool \in PerRecord({"none", "pre", "active", "durable"})

Init ==
    /\ st = [j \in Job |-> "none"] /\ owner = [j \in Job |-> NoInst]
    /\ gen = [j \in Job |-> 0]
    /\ cancel = [j \in Job |-> FALSE] /\ lease = [j \in Job |-> FALSE]
    /\ told = [j \in Job |-> FALSE] /\ lock = [j \in Job |-> "none"]
    /\ pipe = "none"
    /\ ilease = [i \in Inst |-> TRUE] /\ alive = [i \in Inst |-> TRUE]
    /\ mst = Every("none") /\ mgen = Every(0)
    /\ mcan = Every(FALSE) /\ mrev = Every("same")
    /\ work = Every("none") /\ abort = Every(FALSE)
    /\ fly = Every("none") /\ frev = Every("same")
    /\ fcan = Every(FALSE)
    /\ tool = Every("none")

-----------------------------------------------------------------------------
(* Records and rows.                                                                        *)

(* The row belongs to this instance under the generation of its record.                     *)
Owns(i, j) == owner[j] = i /\ gen[j] = mgen[i][j] /\ mgen[i][j] # 0

(* The revision check of a write: an exact match, or heartbeatOnlyQueueAdvance.             *)
RevisionFits(r) == r # "newer"

Record(i, j, status, g, c, r) ==
    /\ mst' = [mst EXCEPT ![i][j] = status]
    /\ mgen' = [mgen EXCEPT ![i][j] = g]
    /\ mcan' = [mcan EXCEPT ![i][j] = c]
    /\ mrev' = [mrev EXCEPT ![i][j] = r]

(* loadPersistedQueueRecord: the record takes over the row.                                 *)
Load(i, j) == Record(i, j, st[j], IF owner[j] = i THEN gen[j] ELSE 0, cancel[j], "same")

(* QUEUE_JOBS.delete.                                                                       *)
Drop(i, j) == Record(i, j, "none", 0, FALSE, "same")

(* The write in flight has its answer.                                                      *)
Landed(i, j) ==
    /\ fly' = [fly EXCEPT ![i][j] = "none"]
    /\ frev' = [frev EXCEPT ![i][j] = "same"]
    /\ fcan' = [fcan EXCEPT ![i][j] = FALSE]

(* The row of j moved on: a copy its owner has in flight is behind it.                      *)
Behind(j, how) ==
    frev' = [i \in Inst |-> [frev[i] EXCEPT ![j] =
                             IF i = owner[j] /\ fly[i][j] # "none" THEN how ELSE @]]

(* openLockDb renews the lease of the instance that opens the database.                     *)
OpenDb(i) == ilease' = [ilease EXCEPT ![i] = TRUE]

(* A terminal status is written, and propagatePipelineTerminalInTransaction cancels what    *)
(* the other children of the pipeline still have to do.  Its update of an active sibling    *)
(* keeps the revision in record_json, so a copy of that row stays heartbeat-only behind.    *)
Finish(j, status) ==
    LET done == [st EXCEPT ![j] = status]
        fails == j \in Batch /\ pipe = "running" /\ \E k \in Batch : done[k] \in Bad
        hit == IF fails THEN Batch \ {j} ELSE {}
    IN  /\ st' = [k \in Job |-> IF k \in hit /\ st[k] \in Pre THEN "cancelled" ELSE done[k]]
        /\ cancel' = [k \in Job |-> cancel[k] \/ (k \in hit /\ st[k] \in Open)]
        /\ lease' = [k \in Job |-> lease[k] /\ k # j /\ ~(k \in hit /\ st[k] \in Pre)]
        /\ pipe' = IF ~fails THEN pipe
                   ELSE IF \E k \in Batch : done[k] \in {"failed", "interrupted"} THEN "failed"
                   ELSE "cancelled"

-----------------------------------------------------------------------------
(* enqueueQueueJob and activatePipelineBatch.                                               *)

Enqueue(i, j) ==
    /\ alive[i] /\ st[j] = "none" /\ j \notin Batch
    /\ st' = [st EXCEPT ![j] = "pending"]
    /\ owner' = [owner EXCEPT ![j] = i]
    /\ gen' = [gen EXCEPT ![j] = 1]
    /\ lease' = [lease EXCEPT ![j] = TRUE]
    /\ Record(i, j, "pending", 1, FALSE, "same")
    /\ OpenDb(i)
    /\ UNCHANGED <<cancel, pipe, lock, alive, work, abort, flight, tool, told>>

(* A row without an owner, for the running queue worker to adopt.                           *)
EnqueueUnowned(j) ==
    /\ st[j] = "none" /\ j \notin Batch
    /\ st' = [st EXCEPT ![j] = "pending"]
    /\ UNCHANGED <<owner, gen, cancel, lease, pipe, ilease, lock, alive, records, work,
                   abort, flight, tool, told>>

(* The children are inserted held and released in one transaction.                          *)
ActivateBatch(i) ==
    /\ alive[i] /\ pipe = "none" /\ Batch # {}
    /\ pipe' = "running"
    /\ st' = [j \in Job |-> IF j \in Batch THEN "pending" ELSE st[j]]
    /\ owner' = [j \in Job |-> IF j \in Batch THEN i ELSE owner[j]]
    /\ gen' = [j \in Job |-> IF j \in Batch THEN 1 ELSE gen[j]]
    /\ lease' = [j \in Job |-> j \in Batch \/ lease[j]]
    /\ mst' = [mst EXCEPT ![i] = [j \in Job |-> IF j \in Batch THEN "pending" ELSE @[j]]]
    /\ mgen' = [mgen EXCEPT ![i] = [j \in Job |-> IF j \in Batch THEN 1 ELSE @[j]]]
    /\ OpenDb(i)
    /\ UNCHANGED <<cancel, lock, alive, mcan, mrev, work, abort, flight, tool, told>>

-----------------------------------------------------------------------------
(* Writes of a record: the candidate is copied, then persistQueueRecord awaits.             *)

Begin(i, j, w) ==
    /\ alive[i] /\ fly[i][j] = "none"
    /\ fly' = [fly EXCEPT ![i][j] = w]
    /\ frev' = [frev EXCEPT ![i][j] = mrev[i][j]]
    /\ fcan' = [fcan EXCEPT ![i][j] = mcan[i][j]]

(* A pass of scheduleQueue reaches the record: it is planned, then blocked or rejected for  *)
(* a write conflict, or claimed.  The pass checked the record before an await, so a         *)
(* cancellation by the tool may have marked it since.                                       *)
ScheduleWrite(i, j, w) ==
    /\ work[i][j] = "none"
    /\ \/ mst[i][j] \in Pre
       \/ mst[i][j] = "cancelled" /\ tool[i][j] = "pre"
    /\ w \in {"failed", "claim"} => mst[i][j] = "planned" \/ tool[i][j] = "pre"
    /\ IF w = "cancelled" THEN mcan[i][j] /\ mst[i][j] \in Pre
                          ELSE ~mcan[i][j] \/ tool[i][j] = "pre"
    /\ Begin(i, j, w)
    /\ UNCHANGED <<rows, ilease, lock, alive, records, work, abort, tool, told>>

(* onLockAcquired, onWorktreePrepared and onChildSpawn record what the worker did.          *)
NoteBegin(i, j) ==
    /\ work[i][j] = "run" /\ mst[i][j] = "running"
    /\ Begin(i, j, "note")
    /\ UNCHANGED <<rows, ilease, lock, alive, records, work, abort, tool, told>>

(* commitQueueTerminalRecord, or the blocked state of blockQueueRecordAfterLockRefusal and  *)
(* blockQueueRecordForWorkspace.  When its attempts throw, the worker's last write is the   *)
(* infrastructure failure.                                                                  *)
OutcomeBegin(i, j, w) ==
    /\ work[i][j] \in Outcome
    /\ \/ w = work[i][j]
       \/ w = "failed" /\ "exhaust" \in Events /\ work[i][j] # "blocked"
    /\ Begin(i, j, w)
    /\ UNCHANGED <<rows, ilease, lock, alive, records, work, abort, tool, told>>

\* mutant: a note is written as a status of its own
WrittenAsIs(w) == w

(* A note keeps the status.                                                                 *)
Written(w) == IF w = "note" THEN "running" ELSE w
Plain(i, j) == alive[i] /\ fly[i][j] \in {"planned", "blocked", "note"}
Final(i, j) == alive[i] /\ fly[i][j] \in {"completed", "failed", "cancelled"}

\* mutant: the update does not ask whether the job was cancelled
UpdateAllowsCancelled(i, j, r) ==
    Owns(i, j) /\ st[j] \in Open /\ RevisionFits(r) /\ lease[j]

(* The predicate of the non-terminal update in persistQueueRecord.                          *)
UpdateAllowed(i, j, r) ==
    Owns(i, j) /\ st[j] \in Open /\ RevisionFits(r) /\ lease[j] /\ ~cancel[j]

(* Object.assign(record, candidate): the record becomes the candidate, whatever was done    *)
(* to it since the copy.  A worker whose blocked state is recorded ends.                    *)
WriteCommits(i, j) ==
    /\ Plain(i, j) /\ UpdateAllowed(i, j, frev[i][j])
    /\ st' = [st EXCEPT ![j] = Written(fly[i][j])]
    /\ cancel' = [cancel EXCEPT ![j] = fcan[i][j]]
    /\ Record(i, j, Written(fly[i][j]), mgen[i][j], fcan[i][j], "same")
    /\ work' = [work EXCEPT ![i][j] = IF @ = "blocked" THEN "none" ELSE @]
    /\ Landed(i, j) /\ OpenDb(i)
    /\ UNCHANGED <<owner, gen, lease, pipe, lock, alive, abort, tool, told>>

(* updateQueueRecordDurableReacquiringLease: only the lease or the revision stood in the    *)
(* way, so the owner re-takes its lease and tries once more, from the row it was given.     *)
Retakes(i, j) ==
    /\ fly[i][j] = "planned" \/ work[i][j] = "blocked"
    /\ Owns(i, j) /\ st[j] \in Open /\ ~cancel[j]

WriteRetakes(i, j) ==
    /\ Plain(i, j) /\ ~UpdateAllowed(i, j, frev[i][j]) /\ Retakes(i, j)
    /\ lease' = [lease EXCEPT ![j] = TRUE]
    /\ Load(i, j) /\ OpenDb(i)
    /\ frev' = [frev EXCEPT ![i][j] = "same"]
    /\ fcan' = [fcan EXCEPT ![i][j] = FALSE]
    /\ UNCHANGED <<st, owner, gen, cancel, pipe, lock, alive, work, abort, fly, tool, told>>

(* The write was refused: the record takes over the row, then the caller reacts.  A plan    *)
(* for a row that another owner has drops the record; a note stops the worker; a worker     *)
(* that could not record its blocked state goes on to a cancellation or gives up.           *)
WriteRefused(i, j) ==
    /\ Plain(i, j) /\ ~UpdateAllowed(i, j, frev[i][j]) /\ ~Retakes(i, j)
    /\ \/ /\ fly[i][j] = "planned"
          /\ IF Owns(i, j) THEN Load(i, j) ELSE Drop(i, j)
          /\ UNCHANGED <<work, abort>>
       \/ /\ fly[i][j] = "note"
          /\ Load(i, j)
          /\ abort' = [abort EXCEPT ![i][j] = TRUE]
          /\ UNCHANGED work
       \/ /\ fly[i][j] = "blocked" /\ work[i][j] = "none"
          /\ Load(i, j)
          /\ UNCHANGED <<work, abort>>
       \/ /\ fly[i][j] = "blocked" /\ work[i][j] = "blocked" /\ cancel[j]
          /\ Load(i, j)
          /\ work' = [work EXCEPT ![i][j] = "cancelled"]
          /\ UNCHANGED abort
       \/ /\ fly[i][j] = "blocked" /\ work[i][j] = "blocked"
          /\ IF st[j] \in Terminal THEN Load(i, j) ELSE Drop(i, j)
          /\ work' = [work EXCEPT ![i][j] = "none"]
          /\ UNCHANGED abort
    /\ Landed(i, j) /\ OpenDb(i)
    /\ UNCHANGED <<rows, lock, alive, tool, told>>

\* mutant: a result that is ready is written whatever the row says of cancellation
TerminalIgnoresCancel(i, j, w, r) ==
    IF Owns(i, j) /\ RevisionFits(r) /\ st[j] \in Open THEN w ELSE "none"

\* mutant: the generation and the revision alone fence an outcome
TerminalIgnoresEnd(i, j, w, r) == IF Owns(i, j) /\ RevisionFits(r) THEN w ELSE "none"

(* persistTerminalQueueRecord: what it writes for outcome w, "none" when it is refused.     *)
(* There is no lease predicate: the generation and the revision fence a stale owner.        *)
TerminalWrite(i, j, w, r) ==
    IF ~Owns(i, j) THEN "none" ELSE
    CASE st[j] \in Pre /\ w \in {"failed", "cancelled"} /\ RevisionFits(r) ->
            IF cancel[j] THEN "cancelled" ELSE w
      [] st[j] = "running" /\ cancel[j] -> "cancelled"
      [] st[j] = "running" /\ ~cancel[j] /\ RevisionFits(r) -> w
      [] OTHER -> "none"

FinalCommits(i, j) ==
    LET status == TerminalWrite(i, j, fly[i][j], frev[i][j])
    IN  /\ Final(i, j) /\ status # "none"
        /\ Finish(j, status)
        /\ Record(i, j, status, mgen[i][j], status = "cancelled" \/ fcan[i][j], "same")
        /\ work' = [work EXCEPT ![i][j] = "none"]
        /\ Landed(i, j) /\ OpenDb(i)
        /\ UNCHANGED <<owner, gen, lock, alive, abort, tool, told>>

(* A worker's refused outcome means lost ownership, which drops the record; the scheduler   *)
(* only reloads it.                                                                         *)
FinalRefused(i, j) ==
    /\ Final(i, j) /\ TerminalWrite(i, j, fly[i][j], frev[i][j]) = "none"
    /\ IF work[i][j] = "none" THEN Load(i, j) ELSE Drop(i, j)
    /\ work' = [work EXCEPT ![i][j] = "none"]
    /\ Landed(i, j) /\ OpenDb(i)
    /\ UNCHANGED <<rows, lock, alive, abort, tool, told>>

(* A throw leaves the record as it was.  A note that throws fails the execution, which      *)
(* releases its lock on the way out.                                                        *)
WriteThrows(i, j) ==
    /\ alive[i] /\ fly[i][j] # "none" /\ "throw" \in Events
    /\ work' = [work EXCEPT ![i][j] = IF fly[i][j] = "note" THEN "failed" ELSE @]
    /\ abort' = [abort EXCEPT ![i][j] = FALSE]
    /\ lock' = [lock EXCEPT ![j] = IF fly[i][j] = "note" /\ @ = "held" THEN "none" ELSE @]
    /\ Landed(i, j)
    /\ UNCHANGED <<rows, ilease, alive, records, tool, told>>

\* mutant: the abandoned record stays tracked, so the heartbeat goes on covering the row
AbandonKeeps(i, j) ==
    /\ alive[i] /\ work[i][j] \in Outcome /\ fly[i][j] = "none" /\ "exhaust" \in Events
    /\ work' = [work EXCEPT ![i][j] = "none"]
    /\ UNCHANGED <<rows, ilease, lock, alive, records, abort, flight, tool, told>>

(* Every attempt of the worker threw: abandonLocalQueueWorker leaves the row to recovery,   *)
(* except that a blocked worker still has a cancellation to record.                         *)
Abandon(i, j) ==
    /\ alive[i] /\ work[i][j] \in Outcome /\ fly[i][j] = "none" /\ "exhaust" \in Events
    /\ \/ work[i][j] = "blocked" /\ mcan[i][j]
          /\ work' = [work EXCEPT ![i][j] = "cancelled"] /\ UNCHANGED records
       \/ ~(work[i][j] = "blocked" /\ mcan[i][j])
          /\ work' = [work EXCEPT ![i][j] = "none"] /\ Drop(i, j)
    /\ UNCHANGED <<rows, ilease, lock, alive, abort, flight, tool, told>>

-----------------------------------------------------------------------------
(* claimQueueRecord and the worker.                                                         *)

(* The claim reads the record after its await, and wants its exact revision.                *)
Claimable(i, j) ==
    /\ st[j] \in Pre /\ Owns(i, j) /\ mrev[i][j] = "same" /\ lease[j] /\ ~cancel[j]
    /\ j \in Batch => pipe = "running"

ClaimCommits(i, j) ==
    /\ alive[i] /\ fly[i][j] = "claim" /\ Claimable(i, j)
    /\ st' = [st EXCEPT ![j] = "running"]
    /\ mst' = [mst EXCEPT ![i][j] = "running"]
    /\ work' = [work EXCEPT ![i][j] = IF mcan[i][j] THEN "cancelled" ELSE "run"]
    /\ abort' = [abort EXCEPT ![i][j] = FALSE]
    /\ Landed(i, j) /\ OpenDb(i)
    /\ UNCHANGED <<owner, gen, cancel, lease, pipe, lock, alive, mgen, mcan, mrev, tool, told>>

(* A job whose pipeline ended is cancelled here; a cancelled row marks the record.          *)
ClaimRefused(i, j) ==
    LET ended == j \in Batch /\ pipe # "running" /\ st[j] \in Pre
        won == ended \/ st[j] = "cancelled" \/ cancel[j]
    IN  /\ alive[i] /\ fly[i][j] = "claim" /\ ~Claimable(i, j)
        /\ st' = [st EXCEPT ![j] = IF ended THEN "cancelled" ELSE @]
        /\ cancel' = [cancel EXCEPT ![j] = @ \/ ended]
        /\ lease' = [lease EXCEPT ![j] = @ /\ ~ended]
        /\ mst' = [mst EXCEPT ![i][j] = IF won THEN "cancelled" ELSE @]
        /\ mcan' = [mcan EXCEPT ![i][j] = @ \/ won]
        /\ Landed(i, j) /\ OpenDb(i)
        /\ UNCHANGED <<owner, gen, pipe, lock, alive, mgen, mrev, work, abort, tool, told>>

(* The queueOwner check inside acquireHardLock's transaction.                               *)
LockAllowed(i, j) == Owns(i, j) /\ st[j] = "running" /\ ~cancel[j]

AcquireLock(i, j) ==
    /\ alive[i] /\ work[i][j] = "run" /\ fly[i][j] = "none" /\ lock[j] = "none"
    /\ LockAllowed(i, j)
    /\ lock' = [lock EXCEPT ![j] = "held"]
    /\ OpenDb(i)
    /\ UNCHANGED <<rows, alive, records, work, abort, flight, tool, told>>

(* The execution returns with outcome o, or throws, which fails it.  A cancelled job is     *)
(* cancelled unless it throws or its process tree could not be confirmed gone, which fails  *)
(* it and keeps the lock quarantined.                                                       *)
EndRun(i, j, o, keep) ==
    /\ alive[i] /\ work[i][j] = "run" /\ fly[i][j] = "none"
    /\ keep => lock[j] = "held" /\ o = "failed"
    /\ mcan[i][j] => o \in {"cancelled", "failed"}
    /\ o = "cancelled" => mcan[i][j] \/ abort[i][j]
    /\ work' = [work EXCEPT ![i][j] = o]
    /\ abort' = [abort EXCEPT ![i][j] = FALSE]
    /\ lock' = [lock EXCEPT ![j] = IF keep THEN "kept" ELSE IF @ = "held" THEN "none" ELSE @]
    /\ UNCHANGED <<rows, ilease, alive, records, flight, tool, told>>

-----------------------------------------------------------------------------
(* heartbeatKnownQueueState and leases.                                                     *)

Beats(i, j) == mst[i][j] \in Open /\ mgen[i][j] # 0

(* renewPersistedQueueRecordLease, or for a job that has not started                        *)
(* reacquirePersistedQueueRecordLease.                                                      *)
Renews(i, j) ==
    /\ Beats(i, j) /\ Owns(i, j) /\ st[j] \in Open /\ ~cancel[j]
    /\ lease[j] \/ (mst[i][j] \in Pre /\ mrev[i][j] = "same")

(* The renewal failed because the row was cancelled; and the cancellation poll.             *)
LearnsCancel(i, j) ==
    \/ Beats(i, j) /\ ~Renews(i, j) /\ (cancel[j] \/ st[j] = "cancelled")
    \/ mst[i][j] # "none" /\ owner[j] = i /\ cancel[j] /\ st[j] \in Open

Heartbeat(i) ==
    /\ alive[i] /\ \E j \in Job : Beats(i, j)
    /\ OpenDb(i)
    /\ lease' = [j \in Job |-> lease[j] \/ Renews(i, j)]
    /\ mrev' = [mrev EXCEPT ![i] = [j \in Job |->
                   IF Renews(i, j) \/ LearnsCancel(i, j) THEN "same" ELSE @[j]]]
    /\ frev' = [frev EXCEPT ![i] = [j \in Job |->
                   IF Renews(i, j) /\ fly[i][j] # "none" /\ @[j] = "same" THEN "renewed" ELSE @[j]]]
    /\ mcan' = [mcan EXCEPT ![i] = [j \in Job |-> @[j] \/ LearnsCancel(i, j)]]
    /\ abort' = [abort EXCEPT ![i] = [j \in Job |->
                   \/ @[j]
                   \/ /\ work[i][j] = "run"
                      /\ LearnsCancel(i, j) \/ (Beats(i, j) /\ ~Renews(i, j))]]
    /\ UNCHANGED <<st, owner, gen, cancel, pipe, lock, alive, mst, mgen, work, fly, fcan,
                   tool, told>>

(* resetQueueLeaseFence's timer: no renewal came before the deadline.                       *)
Fence(i, j) ==
    /\ alive[i] /\ work[i][j] = "run" /\ ~abort[i][j] /\ "lapse" \in Events
    /\ abort' = [abort EXCEPT ![i][j] = TRUE]
    /\ UNCHANGED <<rows, ilease, lock, alive, records, work, flight, tool, told>>

(* Nobody renews the row: the owner is gone, does not track it any more, or is refused; or  *)
(* its heartbeats fail.  Timely: the fence has stopped the worker by then.                  *)
Unrenewed(j) ==
    \/ "lapse" \in Events
    \/ ~alive[owner[j]] \/ ~Beats(owner[j], j) \/ ~Owns(owner[j], j) \/ cancel[j]

LapseJob(j) ==
    /\ lease[j] /\ Unrenewed(j)
    /\ Timely => ~(work[owner[j]][j] = "run" /\ ~abort[owner[j]][j])
    /\ lease' = [lease EXCEPT ![j] = FALSE]
    /\ UNCHANGED <<st, owner, gen, cancel, pipe, ilease, lock, alive, records, work, abort,
                   flight, tool, told>>

LapseInst(i) ==
    /\ ilease[i]
    /\ "lapse" \in Events \/ ~alive[i] \/ \A j \in Job : ~Beats(i, j)
    /\ ilease' = [ilease EXCEPT ![i] = FALSE]
    /\ UNCHANGED <<rows, lock, alive, records, work, abort, flight, tool, told>>

(* The process dies, with everything it kept in memory.                                     *)
Crash(i) ==
    /\ alive[i] /\ \E k \in Inst : k # i /\ alive[k]
    /\ alive' = [alive EXCEPT ![i] = FALSE]
    /\ mst' = [mst EXCEPT ![i] = All("none")]
    /\ mgen' = [mgen EXCEPT ![i] = All(0)]
    /\ mcan' = [mcan EXCEPT ![i] = All(FALSE)]
    /\ mrev' = [mrev EXCEPT ![i] = All("same")]
    /\ work' = [work EXCEPT ![i] = All("none")]
    /\ abort' = [abort EXCEPT ![i] = All(FALSE)]
    /\ fly' = [fly EXCEPT ![i] = All("none")]
    /\ frev' = [frev EXCEPT ![i] = All("same")]
    /\ fcan' = [fcan EXCEPT ![i] = All(FALSE)]
    /\ tool' = [tool EXCEPT ![i] = All("none")]
    /\ UNCHANGED <<rows, ilease, lock, told>>

-----------------------------------------------------------------------------
(* Recovery: reconcileStaleQueueRecords and the adoption of jobs that never started.        *)

OwnerGone(j) == ~(owner[j] \in Inst /\ ilease[owner[j]])

(* A started row that this instance does not track, whose lease lapsed, and whose owner is  *)
(* this instance itself or one whose instance lease lapsed too.                             *)
Stale(i, j) ==
    /\ mst[i][j] = "none" /\ st[j] = "running" /\ ~lease[j]
    /\ owner[j] = i \/ OwnerGone(j)

\* mutant: a lock whose id the worker had not recorded in the row is not found
LockOverlooked(j) == lock

(* releaseQueueJobLocks: by the recorded lock id or the association written with the lock.  *)
(* A quarantined lock is kept.                                                              *)
LockReleased(j) == [lock EXCEPT ![j] = IF @ = "held" THEN "none" ELSE @]

Reconcile(i, j) ==
    /\ alive[i] /\ Stale(i, j)
    /\ Finish(j, IF cancel[j] THEN "cancelled" ELSE "interrupted")
    /\ lock' = LockReleased(j)
    /\ UNCHANGED <<owner, gen, ilease, alive, records, work, abort, flight, tool, told>>

\* mutant: a started row is adopted like one that never started
AdoptableStarted(i, j) ==
    mst[i][j] = "none" /\ tool[i][j] = "none" /\ st[j] \in Open /\ ~lease[j] /\ OwnerGone(j)

(* The row's lease and its owner's instance lease lapsed, and it never started.             *)
Adoptable(i, j) ==
    mst[i][j] = "none" /\ tool[i][j] = "none" /\ st[j] \in Pre /\ ~lease[j] /\ OwnerGone(j)

(* claimPersistedQueueRecordForStartup: a takeover always writes a new generation.          *)
Adopt(i, j) ==
    /\ alive[i] /\ Adoptable(i, j) /\ gen[j] < MaxGen
    /\ st' = [st EXCEPT ![j] = "pending"]
    /\ owner' = [owner EXCEPT ![j] = i]
    /\ gen' = [gen EXCEPT ![j] = @ + 1]
    /\ lease' = [lease EXCEPT ![j] = TRUE]
    /\ Record(i, j, "pending", gen[j] + 1, cancel[j], "same")
    /\ UNCHANGED <<cancel, pipe, ilease, lock, alive, work, abort, flight, tool, told>>

(* The request cannot be decrypted: failPersistedQueueStartupRecovery.                      *)
FailAdoption(i, j) ==
    /\ alive[i] /\ Adoptable(i, j)
    /\ Finish(j, "failed")
    /\ UNCHANGED <<owner, gen, ilease, lock, alive, records, work, abort, flight, tool, told>>

(* pruneInMemoryState, and what a finished worker leaves: a record in a terminal status.    *)
Prune(i, j) ==
    /\ alive[i] /\ mst[i][j] \in Terminal
    /\ work[i][j] = "none" /\ fly[i][j] = "none" /\ tool[i][j] = "none"
    /\ Drop(i, j)
    /\ UNCHANGED <<rows, ilease, lock, alive, work, abort, flight, tool, told>>

-----------------------------------------------------------------------------
(* Cancellation.                                                                            *)

\* mutant: an active row is cancelled at once, without waiting for its worker
CancelsAtOnce(j) == Finish(j, "cancelled")

(* cancelPersistedQueueJob's transaction: a job that has not started ends here, an active   *)
(* one is asked to stop.                                                                    *)
CancelRow(j) ==
    IF st[j] \in Pre
    THEN Finish(j, "cancelled")
    ELSE cancel' = [cancel EXCEPT ![j] = @ \/ st[j] = "running"] /\ UNCHANGED <<st, lease, pipe>>

(* The tool in a process that does not track the row's current revision, or a command line. *)
DurableCancel(j) ==
    /\ st[j] \in Open /\ ~told[j]
    /\ CancelRow(j)
    /\ Behind(j, "newer")
    /\ mrev' = [i \in Inst |-> [mrev[i] EXCEPT ![j] =
                                   IF i = owner[j] /\ mst[i][j] # "none" THEN "newer" ELSE @]]
    /\ told' = [told EXCEPT ![j] = TRUE]
    /\ UNCHANGED <<owner, gen, ilease, lock, alive, mst, mgen, mcan, work, abort, fly, fcan, tool>>

(* cancel_opencode_job in the process that tracks the job: the record, refreshed from the   *)
(* row, is marked in place, and then persistQueueRecord(record) awaits.                     *)
CancelBegin(i, j) ==
    /\ i \in Callers /\ alive[i] /\ tool[i][j] = "none" /\ ~told[j]
    /\ mst[i][j] # "none" /\ Owns(i, j) /\ mrev[i][j] = "same" /\ st[j] \in Open
    /\ Record(i, j, IF st[j] = "running" THEN "running" ELSE "cancelled", mgen[i][j], TRUE, "same")
    /\ tool' = [tool EXCEPT ![i][j] = IF st[j] = "running" THEN "active" ELSE "pre"]
    /\ UNCHANGED <<rows, ilease, lock, alive, work, abort, flight, told>>

ToolWriting(i, j) == alive[i] /\ tool[i][j] \in {"pre", "active"}

(* What the tool's write does with the record as it is by then.                             *)
ToolPersists(i, j) ==
    IF mst[i][j] \in {"completed", "failed", "cancelled"}
    THEN TerminalWrite(i, j, mst[i][j], mrev[i][j]) # "none"
    ELSE mst[i][j] \in Open /\ UpdateAllowed(i, j, mrev[i][j])

(* Persisted: the caller is told so, and an active job's worker is aborted.                 *)
CancelPersists(i, j) ==
    /\ ToolWriting(i, j) /\ ToolPersists(i, j)
    /\ IF mst[i][j] \in Open
       THEN /\ st' = [st EXCEPT ![j] = mst[i][j]]
            /\ cancel' = [cancel EXCEPT ![j] = mcan[i][j]]
            /\ UNCHANGED <<lease, pipe, mst>>
       ELSE /\ Finish(j, TerminalWrite(i, j, mst[i][j], mrev[i][j]))
            /\ mst' = [mst EXCEPT ![i][j] = TerminalWrite(i, j, @, mrev[i][j])]
    /\ mrev' = [mrev EXCEPT ![i][j] = "same"]
    /\ Behind(j, "newer")
    /\ abort' = [abort EXCEPT ![i][j] = @ \/ (tool[i][j] = "active" /\ work[i][j] = "run")]
    /\ tool' = [tool EXCEPT ![i][j] = "none"]
    /\ told' = [told EXCEPT ![j] = TRUE]
    /\ OpenDb(i)
    /\ UNCHANGED <<owner, gen, lock, alive, mgen, mcan, work, fly, fcan>>

(* Refused: the record takes over the row, and the tool turns to cancelPersistedQueueJob.   *)
(* A record dropped meanwhile is no longer anybody's; the tool's write of it could only do  *)
(* what cancelPersistedQueueJob does to the row.                                            *)
CancelRefused(i, j) ==
    /\ ToolWriting(i, j) /\ ~ToolPersists(i, j)
    /\ IF mst[i][j] = "none" THEN UNCHANGED records ELSE Load(i, j)
    /\ OpenDb(i)
    /\ tool' = [tool EXCEPT ![i][j] = "durable"]
    /\ UNCHANGED <<rows, lock, alive, work, abort, flight, told>>

CancelRetried(i, j) ==
    /\ alive[i] /\ tool[i][j] = "durable"
    /\ CancelRow(j)
    /\ IF st[j] \in Terminal \/ mst[i][j] = "none" THEN UNCHANGED <<records, abort, frev>>
       ELSE /\ Record(i, j, IF st[j] = "running" THEN mst[i][j] ELSE "cancelled",
                      mgen[i][j], TRUE, "same")
            /\ abort' = [abort EXCEPT ![i][j] = @ \/ (st[j] = "running" /\ work[i][j] = "run")]
            /\ Behind(j, "newer")
    /\ tool' = [tool EXCEPT ![i][j] = "none"]
    /\ told' = [told EXCEPT ![j] = TRUE]
    /\ OpenDb(i)
    /\ UNCHANGED <<owner, gen, lock, alive, work, fly, fcan>>

(* The tool's write throws: the caller gets an error, the record stays marked.              *)
CancelThrows(i, j) ==
    /\ ToolWriting(i, j) /\ "cancel_throw" \in Events
    /\ tool' = [tool EXCEPT ![i][j] = "none"]
    /\ UNCHANGED <<rows, ilease, lock, alive, records, work, abort, flight, told>>

-----------------------------------------------------------------------------
Next ==
    \/ \E i \in Inst : Heartbeat(i) \/ LapseInst(i) \/ Crash(i) \/ ActivateBatch(i)
    \/ \E j \in Job : EnqueueUnowned(j) \/ LapseJob(j) \/ DurableCancel(j)
    \/ \E i \in Inst, j \in Job :
         \/ Enqueue(i, j)
         \/ \E w \in {"planned", "blocked", "failed", "cancelled", "claim"} : ScheduleWrite(i, j, w)
         \/ NoteBegin(i, j) \/ (\E w \in Outcome : OutcomeBegin(i, j, w))
         \/ WriteCommits(i, j) \/ WriteRetakes(i, j) \/ WriteRefused(i, j)
         \/ FinalCommits(i, j) \/ FinalRefused(i, j)
         \/ WriteThrows(i, j) \/ Abandon(i, j)
         \/ ClaimCommits(i, j) \/ ClaimRefused(i, j)
         \/ AcquireLock(i, j) \/ (\E o \in Outcome, keep \in BOOLEAN : EndRun(i, j, o, keep))
         \/ Fence(i, j)
         \/ Reconcile(i, j) \/ Adopt(i, j) \/ FailAdoption(i, j) \/ Prune(i, j)
         \/ CancelBegin(i, j) \/ CancelPersists(i, j) \/ CancelRefused(i, j)
         \/ CancelRetried(i, j) \/ CancelThrows(i, j)

Spec == Init /\ [][Next]_vars

-----------------------------------------------------------------------------
(* Properties.                                                                              *)

(* persistTerminalQueueRecord, cancelPersistedQueueJob, reconcileStaleQueueRecords,         *)
(* adoption and propagation race for the same row: whichever ends the job first, no late    *)
(* write of another one changes its terminal status.                                        *)
TerminalStable == [][\A j \in Job : st[j] \in Terminal => st'[j] = st[j]]_vars

(* Once cancellation of a started job is durably requested, the only way the row ends is    *)
(* cancelled, and the request is not withdrawn: not by a result that was ready, a blocked   *)
(* state, a note in flight, a reconciliation or a sibling's failure.                        *)
CancellationWins ==
    [][\A j \in Job : cancel[j] /\ st[j] = "running"
                         => st'[j] \in {"running", "cancelled"} /\ cancel'[j]]_vars

(* Whatever leases lapse and however late a process wakes up, a job never has workers in    *)
(* two processes: a started row is never handed to another owner, and a claim needs the     *)
(* generation and the revision of the row.                                                  *)
OneWorker ==
    \A j \in Job : \A i, k \in Inst : work[i][j] # "none" /\ work[k][j] # "none" => i = k

(* With the fence on time, a worker that was not told to stop still owns a running row      *)
(* under a lease that has not lapsed, so its result can be recorded: nobody ends, adopts or *)
(* reconciles a job under a live worker.                                                    *)
WorkingOwns ==
    Timely => \A i \in Inst, j \in Job :
                 work[i][j] = "run" /\ ~abort[i][j] => st[j] = "running" /\ Owns(i, j) /\ lease[j]

(* A lock taken for a job is held only while its row is running: the crash of the worker at *)
(* any point leaves no lock that survives the reconciliation of the row, and no outcome is  *)
(* recorded before the lock is released.                                                    *)
LockFreed == \A j \in Job : lock[j] = "held" => st[j] = "running"

(* A pipeline fails with its first bad child and takes the others with it: as soon as the   *)
(* parent has ended, every child has ended or is asked to stop, and a child that did not    *)
(* complete never leaves the parent running.                                                *)
BatchFailsTogether ==
    /\ pipe \in {"failed", "cancelled"} =>
         \A j \in Batch : st[j] \in Terminal \/ cancel[j]
    /\ pipe = "running" => \A j \in Batch : st[j] \notin Bad

(* What a worker may rely on whatever the other processes, the tool and the clock do: it    *)
(* has the only write in flight for its record, and until the row ends the row is running   *)
(* and is its own.                                                                          *)
WorkerOk(i, j) ==
    /\ fly[i][j] = "note" => work[i][j] = "run"
    /\ work[i][j] # "none" =>
         /\ alive[i]
         /\ IF work[i][j] = "run" THEN fly[i][j] \in {"none", "note"}
                                 ELSE fly[i][j] \in {"none", "failed", work[i][j]}
         /\ \/ st[j] \in Terminal
            \/ /\ st[j] = "running" /\ Owns(i, j) /\ mst[i][j] \notin Pre
               /\ work[i][j] = "run" => mst[i][j] = "running"

(* A held lock has a worker that will release it, or an owner that died with it.            *)
LockOk(j) ==
    lock[j] = "held" =>
      /\ st[j] = "running"
      /\ \/ \E i \in Inst : work[i][j] = "run"
         \/ owner[j] \in Inst /\ ~alive[owner[j]]

(* The invariant behind OneWorker, LockFreed and BatchFailsTogether: a worker never         *)
(* outlives its claim to the row, startQueueRecord's lock always has somebody to free it,   *)
(* and the children of a pipeline exist from its activation on.                             *)
QueueInv ==
    /\ \A i \in Inst, j \in Job : WorkerOk(i, j)
    /\ OneWorker
    /\ \A j \in Job : LockOk(j)
    /\ \A j \in Batch : st[j] = "none" <=> pipe = "none"

(* Where no heartbeat and no write fails, a job is recorded as interrupted only after the   *)
(* process that ran it died: renewals that race a worker's writes never make it lose the    *)
(* row it owns.                                                                             *)
InterruptedByCrash == \A j \in Job : st[j] = "interrupted" => ~alive[owner[j]]

(* The promise of cancel_opencode_job: once its caller was told that the job is cancelled   *)
(* or being cancelled, the row has ended or carries the request.                            *)
CancelLands == \A j \in Job : told[j] => st[j] \in Terminal \/ cancel[j]

(* The promise of blockQueueRecordAfterLockRefusal's comment for every refused write: no    *)
(* record stays "running" in memory without a worker, counted against the capacity.         *)
RunningHasWorker ==
    \A i \in Inst, j \in Job : mst[i][j] = "running" => work[i][j] # "none"

(* A write that was begun is answered.                                                      *)
Answer(i, j) ==
    \/ WriteCommits(i, j) \/ WriteRetakes(i, j) \/ WriteRefused(i, j)
    \/ FinalCommits(i, j) \/ FinalRefused(i, j)
    \/ ClaimCommits(i, j) \/ ClaimRefused(i, j)

(* The timers and loops that keep running: the heartbeat, the passing of time over a lease  *)
(* nobody renews, recovery, the answers of the database, and the steps of a worker and of   *)
(* the tool.  Strong fairness for what waits for the world: a pass that reaches the record  *)
(* again and again finds it free to plan and to claim, and an execution that is tried       *)
(* again and again ends with something else than another wait.                              *)
Fairness ==
    /\ \A i \in Inst : WF_vars(Heartbeat(i)) /\ WF_vars(LapseInst(i))
    /\ \A j \in Job : WF_vars(LapseJob(j))
    /\ \A i \in Inst, j \in Job :
         /\ WF_vars(Reconcile(i, j) \/ Adopt(i, j) \/ FailAdoption(i, j))
         /\ WF_vars(Answer(i, j))
         /\ WF_vars(ScheduleWrite(i, j, "cancelled") \/ \E w \in Outcome : OutcomeBegin(i, j, w))
         /\ WF_vars(CancelPersists(i, j) \/ CancelRefused(i, j) \/ CancelRetried(i, j))
         /\ SF_vars(ScheduleWrite(i, j, "planned")) /\ SF_vars(ScheduleWrite(i, j, "claim"))
         /\ SF_vars(\E o \in Outcome \ {"blocked"} : EndRun(i, j, o, FALSE))

FairSpec == Spec /\ Fairness

(* Every accepted job ends, through crashes of its owner, throwing writes, abandoned        *)
(* workers and cancellations at any moment.                                                 *)
JobsEnd == \A j \in Job : st[j] = "pending" ~> st[j] \in Terminal
=============================================================================
