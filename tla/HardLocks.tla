----------------------------- MODULE HardLocks -----------------------------
(* The durable path locks of the bridge (lib/locks.js): SQLite rows that every bridge       *)
(* process of a repository shares, the in-memory heartbeat of the process that holds one,   *)
(* and the handlers that release, quarantine, reclaim, reconcile and upgrade them.          *)
(*                                                                                          *)
(* Every SQL statement of lib/locks.js addresses all rows of a run id at once, so the rows  *)
(* of one run are one record here.  One handler transaction is one action; an await between *)
(* two transactions is a pair of actions.                                                   *)
EXTENDS Integers, SequencesExt

CONSTANTS
    Run,        \* lock run ids (makeLockId): each is used for one acquisition
    Path,       \* normalized lock paths, as sequences of path segments
    Request,    \* the lock requests the bridge's callers make
    Ttl,        \* the lease duration, in clock ticks
    Guard,      \* expiryGuardMs: how long before the confirmed expiry the fence fires
    MaxTime,    \* bound: the clock stops here, and no lease is granted beyond it
    Timely      \* TRUE: timers fire on time.  FALSE: the machine may sleep past a deadline

Repo == <<>>    \* REPOSITORY_SCOPE_LOCK_PATH ".": the prefix of every path

Mode == {"read", "write", "serial_integration"}
Kind == {"job", "queue", "manual", "integration", "recovery", "finalizer"}

(* What acquireHardLock lets through: repository scope only for the bridge's own readers    *)
(* and integrations, only worktree writers are marked as not editing the checkout.          *)
WellFormed(q) ==
    /\ q \in [kind : Kind, mode : Mode, paths : SUBSET Path, edits : BOOLEAN]
    /\ q.paths # {}
    /\ Repo \in q.paths => q.kind # "manual" /\ q.mode # "write"
    /\ ~q.edits => q.mode = "write" /\ q.kind \in {"job", "queue"}
    /\ q.kind \in {"job", "queue"} => q.mode # "serial_integration"
    /\ q.kind = "integration" => q.mode = "serial_integration"
    /\ q.kind = "recovery" => q.mode = "serial_integration" /\ q.paths = {Repo}
    /\ q.kind = "finalizer" => q.mode = "read" /\ q.paths = {Repo}

ASSUME PathAssumption == Repo \in Path /\ Path \subseteq Seq(STRING)
ASSUME RequestAssumption == \A q \in Request : WellFormed(q)
ASSUME TimeAssumption ==
    /\ Guard \in Nat \ {0} /\ Ttl \in Nat /\ Guard < Ttl
    /\ MaxTime \in Nat /\ Ttl < MaxTime
    /\ Timely \in BOOLEAN

Forever == MaxTime + 1      \* Number.MAX_SAFE_INTEGER: the expiry of a quarantined lock
NoPulse == 0                \* the clock starts at 1

VARIABLES
    now,        \* Date.now()
    \* table locks: the rows of each run
    scope,      \* their paths, mode and edits_checkout; NoScope when there are no rows
    exp,        \* their expires_at
    \* table runs
    status,
    evidence,   \* runs.containment: is the recorded process tree complete?
    \* memory of the process that acquired the lock
    phase,      \* how far the holder got
    req,        \* what it asked for
    stop,       \* was its work told to stop: by its caller, or by its lost lock?
    confirmed,  \* lastConfirmedExpiresAt
    pulse,      \* the clock a heartbeat pulse in flight read before its await
    \* the world
    tree,       \* may a recorded process of the run's payload tree still be running?
    journal     \* runs whose integration operation is unresolved in the journal

tables == <<scope, exp, status, evidence>>
memory == <<phase, req, stop, confirmed, pulse>>
vars == <<now, tables, memory, tree, journal>>

Scope == [paths : SUBSET Path, mode : Mode, edits : BOOLEAN]
NoScope == [paths |-> {}, mode |-> "read", edits |-> TRUE]
NoRequest == [kind |-> "job", mode |-> "read", paths |-> {}, edits |-> TRUE]
ExclusiveScope == [paths |-> {Repo}, mode |-> "serial_integration", edits |-> TRUE]

Status == {"none", "running", "released", "expired", "quarantined", "quarantine_released"}
Evidence == {"none", "incomplete", "complete"}
Phase == {"idle", "active", "releasing", "containing", "protecting", "validating",
          "crashed", "done"}
Stop == {"none", "signalled", "lost"}

-----------------------------------------------------------------------------
(* Conflicts: overlaps in lib/paths.js, conflictsWithActiveLock in lib/locks.js.            *)

Overlaps(P, Q) == \E p \in P, q \in Q : IsPrefix(p, q) \/ IsPrefix(q, p)

WorktreeWriter(l) == l.mode = "write" /\ ~l.edits
Serial(l) == l.mode = "serial_integration"

Conflict(a, b) ==
    /\ ~(a.mode = "read" /\ b.mode = "read")
    /\ \/ (Serial(a) \/ Serial(b)) /\ ~WorktreeWriter(a) /\ ~WorktreeWriter(b)
       \/ Overlaps(a.paths, b.paths)

-----------------------------------------------------------------------------
(* The lock tables.                                                                         *)

Present(r) == scope[r].paths # {}
Expired(r) == exp[r] <= now
Live(r) == Present(r) /\ ~Expired(r)

(* Definitions marked "mutant" are plausible bugs: each, put in the place of the definition  *)
(* that follows it, is caught by a property.                                                *)

(* expireLocksFromDb, and what a handler leaves of it when it also writes run r's rows:     *)
(* every other expired row is deleted and its run marked expired.                           *)
ScopesAfter(r, own) ==
    [s \in Run |-> IF s = r THEN own ELSE IF Expired(s) THEN NoScope ELSE scope[s]]
StatusAfter(r, own) ==
    [s \in Run |-> IF s = r THEN own
                   ELSE IF Present(s) /\ Expired(s) /\ status[s] = "running" THEN "expired"
                   ELSE status[s]]

(* cleanupExpiredLocks, and listLocks, which prunes before it lists.                        *)
CleanupExpired(r) ==
    /\ Present(r) /\ Expired(r)
    /\ scope' = ScopesAfter(r, NoScope)
    /\ status' = StatusAfter(r, IF status[r] = "running" THEN "expired" ELSE status[r])
    /\ UNCHANGED <<now, exp, evidence, memory, tree, journal>>

ScopeOf(q) == [paths |-> q.paths, mode |-> q.mode, edits |-> q.edits]

\* mutant: another integration does not wait for an open operation
OnlyWritersWait(q) == q.mode = "write"

(* Everything but a reader waits for the journal; recovery has the authority to go on.      *)
WaitsForJournal(q) == q.mode # "read" /\ q.kind # "recovery"

(* The transaction of acquireHardLock up to its COMMIT.  A refusal rolls everything back    *)
(* (the pruning too), so it is no step.                                                     *)
Grantable(r, q) ==
    /\ phase[r] = "idle"
    /\ now + Ttl <= MaxTime
    /\ WaitsForJournal(q) => journal = {}
    /\ \A s \in Run : Live(s) => ~Conflict(ScopeOf(q), scope[s])

Grant(r, q) ==
    /\ scope' = ScopesAfter(r, ScopeOf(q))
    /\ status' = StatusAfter(r, "running")
    /\ exp' = [exp EXCEPT ![r] = now + Ttl]

Acquire(r, q) ==
    /\ Grantable(r, q)
    /\ Grant(r, q)
    /\ phase' = [phase EXCEPT ![r] = "active"]
    /\ req' = [req EXCEPT ![r] = q]
    /\ confirmed' = [confirmed EXCEPT ![r] = now + Ttl]
    /\ UNCHANGED <<now, evidence, stop, pulse, tree, journal>>

(* COMMIT reports an error after the rows became durable.  The caller is refused; the       *)
(* cleanup that follows removes this call's own rows, or fails and leaves them to expire.   *)
AcquireCommitError(r, q) ==
    /\ Grantable(r, q)
    /\ \/ Grant(r, q)
       \/ /\ scope' = ScopesAfter(r, NoScope)
          /\ status' = StatusAfter(r, "released")
          /\ UNCHANGED exp
    /\ phase' = [phase EXCEPT ![r] = "done"]
    /\ req' = [req EXCEPT ![r] = q]
    /\ UNCHANGED <<now, evidence, stop, confirmed, pulse, tree, journal>>

-----------------------------------------------------------------------------
(* startHardLockHeartbeat.  Manual locks have no heartbeat.                                 *)

Heartbeating(r) == phase[r] = "active" /\ req[r].kind # "manual"

(* pulse up to its await of openLockDb: the clock is read here and used after it.           *)
PulseBegin(r) ==
    /\ Heartbeating(r) /\ stop[r] # "lost" /\ pulse[r] = NoPulse
    /\ confirmed[r] > now /\ now + Ttl <= MaxTime
    /\ pulse' = [pulse EXCEPT ![r] = now]
    /\ UNCHANGED <<now, tables, phase, req, stop, confirmed, tree, journal>>

(* The process slept past the lease: the next pulse, or the overdue fence, notices.         *)
PulseTooLate(r) ==
    /\ Heartbeating(r) /\ stop[r] # "lost" /\ pulse[r] = NoPulse
    /\ confirmed[r] <= now
    /\ stop' = [stop EXCEPT ![r] = "lost"]
    /\ UNCHANGED <<now, tables, phase, req, confirmed, pulse, tree, journal>>

Renewable(r) == Present(r) /\ exp[r] > pulse[r] /\ exp[r] # Forever
Quarantined(r) == Present(r) /\ exp[r] = Forever

\* mutant: the renewal is an upsert, so it brings back pruned rows
PulseUpserts(r) ==
    /\ Heartbeating(r) /\ pulse[r] # NoPulse /\ stop[r] # "lost"
    /\ scope' = [scope EXCEPT ![r] = ScopeOf(req[r])]
    /\ exp' = [exp EXCEPT ![r] = pulse[r] + Ttl]
    /\ confirmed' = [confirmed EXCEPT ![r] = pulse[r] + Ttl]
    /\ pulse' = [pulse EXCEPT ![r] = NoPulse]
    /\ UNCHANGED <<now, status, evidence, phase, req, stop, tree, journal>>

\* mutant: each renewal extends the last expiry instead of the clock
PulseExtends(r) ==
    /\ Heartbeating(r) /\ pulse[r] # NoPulse /\ stop[r] # "lost" /\ Renewable(r)
    /\ exp' = [exp EXCEPT ![r] = confirmed[r] + Ttl]
    /\ confirmed' = [confirmed EXCEPT ![r] = confirmed[r] + Ttl]
    /\ pulse' = [pulse EXCEPT ![r] = NoPulse]
    /\ UNCHANGED <<now, scope, status, evidence, phase, req, stop, tree, journal>>

(* pulse after the await, unless the lock was lost in between.                              *)
PulseRenews(r) ==
    /\ Heartbeating(r) /\ pulse[r] # NoPulse /\ stop[r] # "lost" /\ Renewable(r)
    /\ exp' = [exp EXCEPT ![r] = pulse[r] + Ttl]
    /\ confirmed' = [confirmed EXCEPT ![r] = pulse[r] + Ttl]
    /\ pulse' = [pulse EXCEPT ![r] = NoPulse]
    /\ UNCHANGED <<now, scope, status, evidence, phase, req, stop, tree, journal>>

(* Nothing was renewed: the rows are gone, or (already quarantined) they need no renewal.   *)
PulseRefused(r) ==
    /\ Heartbeating(r) /\ pulse[r] # NoPulse /\ (stop[r] = "lost" \/ ~Renewable(r))
    /\ stop' = [stop EXCEPT ![r] = IF Quarantined(r) THEN @ ELSE "lost"]
    /\ confirmed' = [confirmed EXCEPT ![r] =
                       IF stop[r] # "lost" /\ Quarantined(r) THEN Forever ELSE @]
    /\ pulse' = [pulse EXCEPT ![r] = NoPulse]
    /\ UNCHANGED <<now, tables, phase, req, tree, journal>>

PastGuard(r) == confirmed[r] # Forever /\ now >= confirmed[r] - Guard

\* mutant: a renewal that failed to persist counts as confirmed
FailureConfirms(r) ==
    /\ Heartbeating(r) /\ pulse[r] # NoPulse /\ stop[r] # "lost"
    /\ confirmed' = [confirmed EXCEPT ![r] = pulse[r] + Ttl]
    /\ pulse' = [pulse EXCEPT ![r] = NoPulse]
    /\ UNCHANGED <<now, tables, phase, req, stop, tree, journal>>

(* The database was busy or unreadable: the holder goes on under the last confirmed lease,  *)
(* but never past the guarded deadline.                                                     *)
PulseFails(r) ==
    /\ Heartbeating(r) /\ pulse[r] # NoPulse /\ stop[r] # "lost"
    /\ stop' = [stop EXCEPT ![r] = IF PastGuard(r) THEN "lost" ELSE @]
    /\ pulse' = [pulse EXCEPT ![r] = NoPulse]
    /\ UNCHANGED <<now, tables, phase, req, confirmed, tree, journal>>

FenceDue(r) == Heartbeating(r) /\ stop[r] # "lost" /\ PastGuard(r)

(* scheduleFence's timer: fail closed before the confirmed lease can expire.                *)
Fence(r) ==
    /\ FenceDue(r)
    /\ stop' = [stop EXCEPT ![r] = "lost"]
    /\ UNCHANGED <<now, tables, phase, req, confirmed, pulse, tree, journal>>

(* The caller's own signal (a queue cancellation, a lost queue lease) stops the work; the   *)
(* lock heartbeat goes on until the work has ended.                                         *)
Signal(r) ==
    /\ phase[r] = "active" /\ req[r].kind \in {"job", "queue"} /\ stop[r] = "none"
    /\ stop' = [stop EXCEPT ![r] = "signalled"]
    /\ UNCHANGED <<now, tables, phase, req, confirmed, pulse, tree, journal>>

-----------------------------------------------------------------------------
(* The end of a holder's work: executeOpenCodeJob, integratePatchSerially,                  *)
(* finalizePipelineRecordUnderLease.                                                        *)

Launch(r) ==
    /\ \/ phase[r] = "active" /\ req[r].kind \in {"job", "queue"} /\ stop[r] = "none"
       \/ phase[r] = "validating"
    /\ ~tree[r]
    /\ tree' = [tree EXCEPT ![r] = TRUE]
    /\ UNCHANGED <<now, tables, memory, journal>>

TreeExits(r) ==
    /\ tree[r]
    /\ tree' = [tree EXCEPT ![r] = FALSE]
    /\ UNCHANGED <<now, tables, memory, journal>>

(* The holder moves on with its heartbeat stopped: an in-flight pulse sees "stopped" and    *)
(* does nothing, and the caller has awaited it.                                             *)
Leave(r, to) ==
    /\ phase' = [phase EXCEPT ![r] = to]
    /\ pulse' = [pulse EXCEPT ![r] = NoPulse]
    /\ UNCHANGED <<now, tables, req, stop, confirmed, tree, journal>>

(* The work returned and its process tree is confirmed gone.                                *)
Finish(r) == phase[r] = "active" /\ ~tree[r] /\ Leave(r, "releasing")

(* processTreeUnconfirmed: the tree may survive, so the lock must not be released.          *)
FinishUnconfirmed(r) ==
    phase[r] = "active" /\ req[r].kind \in {"job", "queue"} /\ tree[r] /\ Leave(r, "containing")

(* releaseHardLock: delete the rows the token owns, whatever their expiry, and prune.       *)
Release(r) ==
    /\ phase[r] = "releasing" /\ Present(r)
    /\ scope' = ScopesAfter(r, NoScope)
    /\ status' = StatusAfter(r, "released")
    /\ phase' = [phase EXCEPT ![r] = "done"]
    /\ UNCHANGED <<now, exp, evidence, req, stop, confirmed, pulse, tree, journal>>

(* No row matches any more, or the database cannot be opened: the lease expires on its own. *)
ReleaseFails(r) == phase[r] = "releasing" /\ Leave(r, "done")

(* quarantineHardLock: hold the whole scope without expiry, re-inserting pruned rows.       *)
Quarantine(r, e) ==
    /\ phase[r] = "containing"
    /\ scope' = [scope EXCEPT ![r] = IF Present(r) THEN @ ELSE ScopeOf(req[r])]
    /\ exp' = [exp EXCEPT ![r] = Forever]
    /\ status' = [status EXCEPT ![r] = "quarantined"]
    /\ evidence' = [evidence EXCEPT ![r] = e]
    /\ phase' = [phase EXCEPT ![r] = "done"]
    /\ UNCHANGED <<now, req, stop, confirmed, pulse, tree, journal>>

QuarantineFails(r) == phase[r] = "containing" /\ Leave(r, "done")

(* The bridge process dies.  Its rows stay, and so may the payload tree.                    *)
Crash(r) ==
    /\ phase[r] \in {"active", "releasing", "containing", "protecting", "validating"}
    /\ req[r].kind # "manual"
    /\ Leave(r, "crashed")

-----------------------------------------------------------------------------
(* Other processes acting on a run's rows.                                                  *)

\* mutant: complete evidence is taken for proof that the processes are gone
ReclaimUnproven(r) ==
    /\ Quarantined(r) /\ evidence[r] = "complete"
    /\ scope' = [scope EXCEPT ![r] = NoScope]
    /\ status' = [status EXCEPT ![r] = IF @ = "quarantined" THEN "quarantine_released" ELSE @]
    /\ UNCHANGED <<now, exp, evidence, memory, tree, journal>>

(* reclaimProvenGoneLockQuarantines: only complete evidence whose recorded processes are    *)
(* all gone (containmentStillPossible) frees a row without expiry.                          *)
Reclaim(r) ==
    /\ Quarantined(r) /\ evidence[r] = "complete" /\ ~tree[r]
    /\ scope' = [scope EXCEPT ![r] = NoScope]
    /\ status' = [status EXCEPT ![r] = IF @ = "quarantined" THEN "quarantine_released" ELSE @]
    /\ UNCHANGED <<now, exp, evidence, memory, tree, journal>>

(* releaseQueueJobLocks: a reconciliation pass that ended a queue job whose owner's lease   *)
(* lapsed also frees the job's lock, unless it is quarantined.  With timely timers the      *)
(* owner's own queue fence has stopped the job by then.                                     *)
ReconcileReleases(r) ==
    /\ Present(r) /\ exp[r] # Forever /\ req[r].kind = "queue"
    /\ Timely => stop[r] # "none" \/ phase[r] # "active"
    /\ scope' = [scope EXCEPT ![r] = NoScope]
    /\ status' = [status EXCEPT ![r] = IF @ = "running" THEN "expired" ELSE @]
    /\ UNCHANGED <<now, exp, evidence, memory, tree, journal>>

-----------------------------------------------------------------------------
(* The pipeline finalizer's checkout validation: its repository reader becomes an exclusive *)
(* row without expiry while the validation command runs.                                    *)

(* runCheckoutValidation drains the heartbeat before it changes the durable mode.           *)
Drain(r) ==
    /\ phase[r] = "active" /\ req[r].kind = "finalizer" /\ stop[r] = "none"
    /\ Leave(r, "protecting")

\* mutant: the upgrade does not look at the other readers
ProtectableAlone(r) ==
    Live(r) /\ scope[r].mode = "read" /\ exp[r] # Forever /\ status[r] = "running" /\ journal = {}

Protectable(r) ==
    /\ Live(r) /\ scope[r].mode = "read" /\ exp[r] # Forever /\ status[r] = "running"
    /\ journal = {}
    /\ \A s \in Run \ {r} : Live(s) => ~Conflict(ExclusiveScope, scope[s])

ProtectRows(r) ==
    /\ scope' = ScopesAfter(r, [paths |-> scope[r].paths, mode |-> "serial_integration",
                                edits |-> TRUE])
    /\ status' = StatusAfter(r, "running")
    /\ exp' = [exp EXCEPT ![r] = Forever]
    /\ evidence' = [evidence EXCEPT ![r] = "incomplete"]

(* beginFinalizerValidationProtection commits, or its ambiguous commit is verified.         *)
Protect(r) ==
    /\ phase[r] = "protecting" /\ Protectable(r)
    /\ ProtectRows(r)
    /\ phase' = [phase EXCEPT ![r] = "validating"]
    /\ UNCHANGED <<now, req, stop, confirmed, pulse, tree, journal>>

(* Refused or rolled back: finalization fails and releases the reader.                      *)
ProtectRefused(r) == phase[r] = "protecting" /\ Leave(r, "releasing")

(* The commit was ambiguous and could not be verified: never release, never run a payload.  *)
ProtectUnconfirmed(r) ==
    /\ phase[r] = "protecting" /\ Protectable(r)
    /\ ProtectRows(r) \/ UNCHANGED tables
    /\ phase' = [phase EXCEPT ![r] = "done"]
    /\ UNCHANGED <<now, req, stop, confirmed, pulse, tree, journal>>

(* matchesFinalizerProtection: the exact provisional receipt is still in the tables.        *)
Protected(r) ==
    /\ Quarantined(r) /\ scope[r].mode = "serial_integration" /\ scope[r].edits
    /\ status[r] = "running" /\ evidence[r] = "incomplete"

\* mutant: the restored reader keeps the protection's expiry
RestoreForever(r) ==
    /\ Protected(r) /\ now + Ttl <= MaxTime
    /\ scope' = [scope EXCEPT ![r] = [paths |-> scope[r].paths, mode |-> "read",
                                      edits |-> req[r].edits]]
    /\ evidence' = [evidence EXCEPT ![r] = "none"]
    /\ UNCHANGED <<exp, status>>

RestoreRows(r) ==
    /\ Protected(r) /\ now + Ttl <= MaxTime
    /\ scope' = [scope EXCEPT ![r] = [paths |-> scope[r].paths, mode |-> "read",
                                      edits |-> req[r].edits]]
    /\ exp' = [exp EXCEPT ![r] = now + Ttl]
    /\ evidence' = [evidence EXCEPT ![r] = "none"]
    /\ UNCHANGED status

(* restoreFinalizerReadLease after a trusted validation outcome; the heartbeat restarts.    *)
Restore(r) ==
    /\ phase[r] = "validating" /\ ~tree[r]
    /\ RestoreRows(r)
    /\ phase' = [phase EXCEPT ![r] = "active"]
    /\ confirmed' = [confirmed EXCEPT ![r] = now + Ttl]
    /\ UNCHANGED <<now, req, stop, pulse, tree, journal>>

(* The restoration failed or could not be verified: the lock is not released.               *)
RestoreFails(r) ==
    /\ phase[r] = "validating" /\ ~tree[r]
    /\ RestoreRows(r) \/ UNCHANGED tables
    /\ phase' = [phase EXCEPT ![r] = "done"]
    /\ UNCHANGED <<now, req, stop, confirmed, pulse, tree, journal>>

(* An uncertain outcome: quarantineHardLock with the exact protection receipt.              *)
QuarantineProtected(r, e) ==
    /\ phase[r] = "validating" /\ Protected(r)
    /\ status' = [status EXCEPT ![r] = "quarantined"]
    /\ evidence' = [evidence EXCEPT ![r] = e]
    /\ phase' = [phase EXCEPT ![r] = "done"]
    /\ UNCHANGED <<now, scope, exp, req, stop, confirmed, pulse, tree, journal>>

(* Evidence or quarantine failed: the provisional protection stays.                         *)
QuarantineProtectedFails(r) == phase[r] = "validating" /\ Leave(r, "done")

-----------------------------------------------------------------------------
(* The integration journal's use of the lock: every journal transaction first asserts that  *)
(* the serial row is still owned (assertIntegrationLockOwned).                              *)

Owned(r) == Live(r) /\ scope[r].mode = "serial_integration"

OpenOperation(r) ==
    /\ phase[r] = "active" /\ req[r].kind = "integration" /\ Owned(r)
    /\ journal' = journal \cup {r}
    /\ UNCHANGED <<now, tables, memory, tree>>

(* The integration resolves its own operation; recovery resolves whatever it finds.         *)
CloseOperation(r) ==
    /\ phase[r] = "active" /\ Owned(r)
    /\ \E o \in journal :
        /\ req[r].kind = "recovery" \/ (req[r].kind = "integration" /\ o = r)
        /\ journal' = journal \ {o}
    /\ UNCHANGED <<now, tables, memory, tree>>

-----------------------------------------------------------------------------

Tick ==
    /\ now < MaxTime
    /\ Timely => \A r \in Run : ~FenceDue(r)
    /\ now' = now + 1
    /\ UNCHANGED <<tables, memory, tree, journal>>

Init ==
    /\ now = 1
    /\ scope = [r \in Run |-> NoScope]
    /\ exp = [r \in Run |-> 0]
    /\ status = [r \in Run |-> "none"]
    /\ evidence = [r \in Run |-> "none"]
    /\ phase = [r \in Run |-> "idle"]
    /\ req = [r \in Run |-> NoRequest]
    /\ stop = [r \in Run |-> "none"]
    /\ confirmed = [r \in Run |-> 0]
    /\ pulse = [r \in Run |-> NoPulse]
    /\ tree = [r \in Run |-> FALSE]
    /\ journal = {}

(* Steps of the process that holds run r's lock, and of its payload tree.                   *)
Heartbeat(r) ==
    \/ PulseBegin(r) \/ PulseTooLate(r) \/ PulseRenews(r) \/ PulseRefused(r) \/ PulseFails(r)
    \/ Fence(r)
Ending(r) ==
    \/ Finish(r) \/ FinishUnconfirmed(r) \/ Release(r) \/ ReleaseFails(r)
    \/ \E e \in {"incomplete", "complete"} : Quarantine(r, e)
    \/ QuarantineFails(r)
Finalizing(r) ==
    \/ Protect(r) \/ ProtectRefused(r) \/ ProtectUnconfirmed(r)
    \/ Restore(r) \/ RestoreFails(r)
    \/ \E e \in {"incomplete", "complete"} : QuarantineProtected(r, e)
    \/ QuarantineProtectedFails(r)

Next ==
    \/ Tick
    \/ \E r \in Run :
        \/ \E q \in Request : Acquire(r, q) \/ AcquireCommitError(r, q)
        \/ CleanupExpired(r) \/ Heartbeat(r) \/ Signal(r) \/ Launch(r) \/ TreeExits(r)
        \/ Ending(r) \/ Crash(r) \/ Drain(r) \/ Finalizing(r)
        \/ Reclaim(r) \/ ReconcileReleases(r) \/ OpenOperation(r) \/ CloseOperation(r)

Spec == Init /\ [][Next]_vars

(* What the code's own scheduling provides: the fence timer fires, a stopped holder's       *)
(* finally block runs, some process keeps reclaiming, a killed process tree exits.          *)
Fairness ==
    /\ WF_vars(Tick)
    /\ \A r \in Run :
        /\ WF_vars(Fence(r)) /\ WF_vars(TreeExits(r)) /\ WF_vars(Reclaim(r))
        /\ WF_vars(Ending(r) /\ (stop[r] # "none" \/ phase[r] # "active"))
        /\ WF_vars(Finalizing(r))

FairSpec == Spec /\ Fairness

-----------------------------------------------------------------------------
(* Properties.                                                                              *)

TypeOK ==
    /\ now \in 1 .. MaxTime
    /\ scope \in [Run -> Scope] /\ exp \in [Run -> 0 .. Forever]
    /\ status \in [Run -> Status] /\ evidence \in [Run -> Evidence]
    /\ phase \in [Run -> Phase] /\ req \in [Run -> Request \cup {NoRequest}]
    /\ stop \in [Run -> Stop]
    /\ confirmed \in [Run -> 0 .. Forever] /\ pulse \in [Run -> 0 .. (MaxTime - Ttl)]
    /\ tree \in [Run -> BOOLEAN]
    /\ journal \subseteq Run

(* TableExclusion: two runs whose rows are both in the table never conflict, whether or not *)
(* the rows have expired, unless one was re-inserted by a containment quarantine.  This is  *)
(* what lets a renewal use the clock it read before its await: an expired row that nobody   *)
(* pruned may be renewed, because nothing conflicting was granted while it was there.       *)
TableExclusion ==
    \A r, s \in Run :
        /\ r # s /\ Present(r) /\ Present(s)
        /\ status[r] # "quarantined" /\ status[s] # "quarantined"
        => ~Conflict(scope[r], scope[s])

(* A holder that goes on working: its heartbeat has not lost the lock and nobody stopped it. *)
Believes(r) ==
    \/ Heartbeating(r) /\ stop[r] = "none"
    \/ phase[r] = "validating"

(* What such a holder relies on: the scope it asked for, exclusive while it validates.      *)
Claim(r) ==
    IF phase[r] = "validating"
    THEN [paths |-> req[r].paths, mode |-> "serial_integration", edits |-> TRUE]
    ELSE ScopeOf(req[r])

(* BelieverOwns: with timely timers, a holder that goes on working owns an unexpired row    *)
(* for exactly what it relies on, so a lost renewal, a busy database, a reconciliation and  *)
(* a validation upgrade all stop the work before another process may take the paths.        *)
BelieverOwns ==
    Timely => \A r \in Run : Believes(r) =>
        /\ Live(r) /\ status[r] = "running"
        /\ scope[r].paths = Claim(r).paths
        /\ scope[r].mode = Claim(r).mode /\ scope[r].edits = Claim(r).edits

(* FencedExclusion: with timely timers, two holders that both go on working never conflict  *)
(* in what they rely on, whatever the tables say.                                           *)
FencedExclusion ==
    Timely => \A r, s \in Run :
        r # s /\ Believes(r) /\ Believes(s) => ~Conflict(Claim(r), Claim(s))

(* QuarantineHeld: a quarantined run keeps its complete scope in the table, without expiry. *)
(* No renewal in flight, pruning, reconciliation or release takes it away.                  *)
QuarantineHeld ==
    \A r \in Run : status[r] = "quarantined" =>
        exp[r] = Forever /\ scope[r].paths = req[r].paths

(* ValidationExclusive: while the finalizer's validation command runs on the checkout, no   *)
(* other lock is granted: its row stays serial and without expiry, and the only other rows  *)
(* are quarantined ones.                                                                    *)
ValidationExclusive ==
    \A r, s \in Run :
        phase[r] = "validating" =>
            /\ Protected(r)
            /\ s # r /\ Present(s) => status[s] = "quarantined"

(* What the safety proofs add to these properties: rows always carry the paths the holder   *)
(* asked for, a quarantine is the last thing its holder does, and only the finalizer        *)
(* upgrades its row.                                                                        *)
HolderOk(r) ==
    /\ Present(r) => scope[r].paths = req[r].paths
    /\ phase[r] = "active" /\ Present(r) =>
        scope[r].mode = req[r].mode /\ scope[r].edits = req[r].edits
    /\ status[r] = "quarantined" =>
        phase[r] = "done" /\ exp[r] = Forever /\ scope[r].paths = req[r].paths
    /\ phase[r] \in {"protecting", "validating"} => req[r].kind = "finalizer"
    /\ phase[r] = "validating" => Protected(r)

HolderInv == \A r \in Run : HolderOk(r)

(* The lease arithmetic behind BelieverOwns: a working holder's confirmed expiry is the     *)
(* one in the table and still ahead, and a pulse in flight can only move it forward.        *)
FenceOk(r) ==
    /\ phase[r] = "idle" => stop[r] = "none" /\ pulse[r] = NoPulse
    /\ phase[r] \in {"protecting", "validating"} => pulse[r] = NoPulse
    /\ Heartbeating(r) /\ stop[r] = "none" =>
        /\ Present(r) /\ status[r] = "running"
        /\ exp[r] = confirmed[r] /\ confirmed[r] <= MaxTime
        /\ now < confirmed[r] /\ confirmed[r] <= now + Ttl
        /\ pulse[r] # NoPulse => pulse[r] <= now /\ confirmed[r] <= pulse[r] + Ttl

FenceInv == Timely => \A r \in Run : FenceOk(r)

(* JournalExcludesWriters: while an integration operation is unresolved (its integration    *)
(* may have crashed half-way through the checkout), the only writers with a row are the     *)
(* operation's own integration, recovery, worktree writers and quarantined runs; and an     *)
(* integration that still holds its row has at most its own operation open.                 *)
JournalExcludesWriters ==
    journal # {} => \A s \in Run :
        Present(s) /\ scope[s].mode # "read" /\ status[s] # "quarantined" =>
            journal = {s} \/ req[s].kind = "recovery" \/ WorktreeWriter(scope[s])

(* QuarantineEndsProven: a run stops being quarantined only once no recorded process of its *)
(* payload tree is left, and then its rows go with the status.                              *)
QuarantineEndsProven ==
    [][\A r \in Run : status[r] = "quarantined" /\ status'[r] # "quarantined" =>
        ~tree[r] /\ ~Present(r)']_vars

(* LocksEnd: every lock is eventually freed or expired; what stays is a run without proof   *)
(* that its process tree is gone, which waits for the operator.                             *)
LocksEnd ==
    \A r \in Run : Present(r) ~>
        \/ ~Live(r)
        \/ exp[r] = Forever /\ evidence[r] = "incomplete"
           /\ phase[r] \in {"done", "crashed"}

=============================================================================
