------------------------- MODULE IntegrationJournal -------------------------
(***************************************************************************)
(* The serial integration of a reviewed patch into the user's checkout and *)
(* the durable journal that undoes it: lib/integration-serial.js (the      *)
(* repository lock, recovery under it, quarantine resolution),             *)
(* lib/integration-apply.js (the apply itself), lib/integration-patch.js   *)
(* (the write of the patched paths), lib/integration-journal.js (rows,     *)
(* transitions, recovery) and lib/rollback.js (in-process undo).           *)
(*                                                                         *)
(* One repository.  File is the set of paths a patch touches; the rest of  *)
(* the tree enters no decision of recovery.  A process of Proc is a bridge *)
(* process running at most one integration, recovery pass or quarantine    *)
(* resolution at a time.  Reads of many files that decide one transition   *)
(* are one step with it; every write of one file is a step of its own, and *)
(* the set of files still to be written on the strength of an earlier read *)
(* is todo[p].                                                             *)
(***************************************************************************)
EXTENDS Naturals, FiniteSets

CONSTANTS
    Proc,       \* bridge processes
    Oper,       \* journal rows that may be written
    File,       \* affected paths
    Patch,      \* contents a reviewed patch gives the files
    Base,       \* the committed content at the start
    NoProc, NoOper,
    MaxEvents,  \* bound on edits, commits, crashes, aborts and I/O failures
    Kinds,      \* which of those the environment may produce
    Timely      \* TRUE: a lease outlives every step but a validation run

ASSUME JournalAssumption ==
    /\ NoProc \notin Proc /\ NoOper \notin Oper
    /\ MaxEvents \in Nat
    /\ Base \notin Patch /\ Base \notin Nat /\ Patch \cap Nat = {}
    /\ Timely \in BOOLEAN
    /\ Kinds \subseteq {"edit", "discard", "commit", "reset", "abort", "crash", "flaky"}

VARIABLES
    disk,     \* the affected paths in the checkout
    git,      \* the same paths in HEAD and the real index
    ost,      \* integration_operations.status ("none": no row)
    own,      \* owner generation
    why,      \* result_json.reason of a quarantine
    pre,      \* journalled pre-images
    org,      \* target_head and index entries recorded with the row
    post,     \* the patch the row stands for
    lock,     \* holder of the serial_integration lease
    pc, goal, \* where a process is, and what it took the lock for
    cur,      \* the operation it works on
    base,     \* its preApplyExactSnapshot and rollback baseline
    todo,     \* files it will write without reading them again
    aborted,  \* its heartbeat's abort signal
    blocked,  \* INTEGRATION_RECOVERY_BLOCKED_ROOTS of the process
    events,   \* environment events so far
    safe,     \* history: the user edit f must hold (0: none owed to the user)
    want,     \* history: the contents the last accepted outcome left
    unconf,   \* history: the operation's validation tree was never seen to end
    user      \* history: somebody else wrote a file

journal == <<ost, own, why>>
rows    == <<pre, org, post>>
local   == <<pc, goal, cur, base, todo>>
ghost   == <<safe, want, unconf, user>>
vars    == <<disk, git, journal, rows, lock, local, aborted, blocked, events, ghost>>

(* The contents there have been: user edits are numbered by their event.   *)
Content == {Base} \cup Patch \cup (1 .. events)

(* Mutant: an operation being rolled back no longer counts as unresolved.  *)
RollingBackResolved ==
    {"committed", "rolled_back", "recovered_noop", "recovered_verified",
     "resolved_by_operator", "rolling_back"}

INTEGRATION_RESOLVED_STATUSES ==
    {"committed", "rolled_back", "recovered_noop", "recovered_verified",
     "resolved_by_operator"}

(* Mutant: a status the recovery's list forgets.                           *)
NoRollingBack ==
    {"prepared", "applying", "applied_unvalidated", "validating", "validated",
     "recovering"}

recoverableStatuses ==
    {"prepared", "applying", "applied_unvalidated", "validating", "validated",
     "rolling_back", "recovering"}

Status == {"none", "quarantined"} \cup recoverableStatuses
              \cup INTEGRATION_RESOLVED_STATUSES

Reason == {"", "git", "drift", "evidence", "restore", "verification", "process"}

Unresolved  == {o \in Oper : ost[o] \notin {"none"} \cup INTEGRATION_RESOLVED_STATUSES}
Quarantined == {o \in Oper : ost[o] = "quarantined"}

(* Every file at a given patch content. *)
Image(c) == [f \in File |-> c]

Init ==
    /\ disk = Image(Base) /\ git = Image(Base)
    /\ ost = [o \in Oper |-> "none"]
    /\ own = [o \in Oper |-> NoProc]
    /\ why = [o \in Oper |-> ""]
    /\ pre = [o \in Oper |-> Image(Base)]
    /\ org = [o \in Oper |-> Image(Base)]
    /\ post = [o \in Oper |-> Base]
    /\ lock = NoProc
    /\ pc = [p \in Proc |-> "idle"]
    /\ goal = [p \in Proc |-> "none"]
    /\ cur = [p \in Proc |-> NoOper]
    /\ base = [p \in Proc |-> Image(Base)]
    /\ todo = [p \in Proc |-> {}]
    /\ aborted = [p \in Proc |-> FALSE]
    /\ blocked = [p \in Proc |-> FALSE]
    /\ events = 0
    /\ safe = [f \in File |-> 0]
    /\ want = Image(Base)
    /\ unconf = [o \in Oper |-> FALSE]
    /\ user = FALSE

-----------------------------------------------------------------------------
(* Moving a process.                                                       *)

Goto(p, l) ==
    /\ pc' = [pc EXCEPT ![p] = l]
    /\ UNCHANGED <<goal, cur, base, todo>>

GotoWriting(p, l, fs) ==
    /\ pc' = [pc EXCEPT ![p] = l]
    /\ todo' = [todo EXCEPT ![p] = fs]
    /\ UNCHANGED <<goal, cur, base>>

(* Mutant: an unconditional UPDATE of the row.                             *)
AuthorisedAlways(p, from) == TRUE

(* assertIntegrationLockOwned and the owner-generation test of             *)
(* transitionIntegrationOperation for a process that may not take over.    *)
Authorised(p, from) == lock = p /\ own[cur[p]] = p /\ ost[cur[p]] = from

(* A recovery pass may take over, so only the lease and the status count.  *)
Claimed(p, from) == lock = p /\ ost[cur[p]] \in from

Transition(o, to) ==
    /\ ost' = [ost EXCEPT ![o] = to]
    /\ UNCHANGED <<own, why>>

(* The end of a recovery pass: the in-memory writer block follows what the *)
(* pass proved, except inside an integration (goals integrate and own).    *)
EndPass(p, ok) ==
    /\ GotoWriting(p, "release", {})
    /\ blocked' = IF goal[p] \in {"integrate", "own"} THEN blocked
                  ELSE [blocked EXCEPT ![p] = ~ok]

(* quarantine() of recoverSingleIntegrationOperationWhileLocked: a status  *)
(* that cannot be recorded stays as it is and the pass is retried.         *)
Quarantine(p, w) ==
    /\ IF Claimed(p, {"recovering", "rolling_back"})
       THEN /\ ost' = [ost EXCEPT ![cur[p]] = "quarantined"]
            /\ why' = [why EXCEPT ![cur[p]] = w]
       ELSE UNCHANGED <<ost, why>>
    /\ UNCHANGED own
    /\ EndPass(p, FALSE)

Happens(k) == k \in Kinds /\ events < MaxEvents /\ events' = events + 1

-----------------------------------------------------------------------------
(* Taking and leaving the repository lock.                                 *)

(* acquireHardLock for a serial_integration lease.  A writer is refused    *)
(* while any operation is unresolved or this process blocks the root; the  *)
(* recovery authority of the other goals passes both tests.                *)
AcquireIntegration(p) ==
    /\ pc[p] = "idle" /\ lock = NoProc
    /\ ~blocked[p] /\ Unresolved = {}
    /\ \E o \in Oper : ost[o] = "none"
    /\ lock' = p
    /\ pc' = [pc EXCEPT ![p] = "pass"]
    /\ goal' = [goal EXCEPT ![p] = "integrate"]
    /\ UNCHANGED <<disk, git, journal, rows, cur, base, todo, aborted, blocked, events, ghost>>

(* Mutant: the recovery lease is refused like any writer's.                *)
AcquireRecoveryAsWriter(p, g) ==
    /\ pc[p] = "idle" /\ lock = NoProc
    /\ ~blocked[p] /\ Unresolved = {}
    /\ lock' = p
    /\ pc' = [pc EXCEPT ![p] = "pass"]
    /\ goal' = [goal EXCEPT ![p] = g]
    /\ UNCHANGED <<disk, git, journal, rows, cur, base, todo, aborted, blocked, events, ghost>>

AcquireRecovery(p, g) ==
    /\ pc[p] = "idle" /\ lock = NoProc
    /\ IF g = "recover" THEN Unresolved # {} ELSE Quarantined # {}
    /\ lock' = p
    /\ pc' = [pc EXCEPT ![p] = "pass"]
    /\ goal' = [goal EXCEPT ![p] = g]
    /\ UNCHANGED <<disk, git, journal, rows, cur, base, todo, aborted, blocked, events, ghost>>

(* The finally blocks: stop the heartbeat, release the lease by its token. *)
(* A release that fails leaves the lease to expire.                        *)
Release(p) ==
    /\ pc[p] = "release"
    /\ \/ lock' = (IF lock = p THEN NoProc ELSE lock) /\ UNCHANGED events
       \/ lock = p /\ Happens("flaky") /\ UNCHANGED lock
    /\ pc' = [pc EXCEPT ![p] = "idle"]
    /\ goal' = [goal EXCEPT ![p] = "none"]
    /\ cur' = [cur EXCEPT ![p] = NoOper]
    /\ base' = [base EXCEPT ![p] = Image(Base)]
    /\ aborted' = [aborted EXCEPT ![p] = FALSE]
    /\ UNCHANGED <<disk, git, journal, rows, todo, blocked, ghost>>

-----------------------------------------------------------------------------
(* A pass over the unresolved operations,                                  *)
(* recoverIntegrationOperationsWhileLocked: of the repository, or of the   *)
(* process's own operation (the finally block of an integration).          *)

Candidates(p) == IF goal[p] = "own" THEN Unresolved \cap {cur[p]} ELSE Unresolved

RecoveryGoals == {"integrate", "own", "recover"}

PassNothing(p) ==
    /\ pc[p] = "pass" /\ Candidates(p) = {}
    /\ IF goal[p] = "integrate"
       THEN Goto(p, "snapshot") /\ UNCHANGED blocked
       ELSE IF goal[p] = "recover" THEN EndPass(p, TRUE)
       ELSE Goto(p, "release") /\ UNCHANGED blocked
    /\ UNCHANGED <<disk, git, journal, rows, lock, aborted, events, ghost>>

(* Mutant: the reason of the quarantine is not looked at.                  *)
RequalifiesAnyReason(o) == git = org[o] /\ disk = pre[o]

(* requalifyStateDriftQuarantine: only a HEAD or index drift that is gone  *)
(* again, with every affected path at its pre-image.                       *)
Requalifies(o) == why[o] = "git" /\ git = org[o] /\ disk = pre[o]

PassQuarantined(p, o) ==
    /\ pc[p] = "pass" /\ goal[p] \in RecoveryGoals
    /\ o \in Candidates(p) \cap Quarantined
    /\ IF Requalifies(o) /\ lock = p
       THEN /\ ost' = [ost EXCEPT ![o] = "recovered_noop"]
            /\ own' = [own EXCEPT ![o] = p]
            /\ UNCHANGED <<why, local, blocked>>
       ELSE EndPass(p, FALSE) /\ UNCHANGED journal
    /\ UNCHANGED <<disk, git, rows, lock, aborted, events, ghost>>

(* The claim: takeover of the owner generation and status recovering.  A   *)
(* pass whose lease is gone fails here, before it reads or writes a file.  *)
BeginRecovery(p, o) ==
    /\ pc[p] = "pass" /\ goal[p] \in RecoveryGoals
    /\ o \in Candidates(p) /\ Candidates(p) \cap Quarantined = {}
    /\ IF lock = p
       THEN /\ ost' = [ost EXCEPT ![o] = "recovering"]
            /\ own' = [own EXCEPT ![o] = p]
            /\ pc' = [pc EXCEPT ![p] = "judge"]
            /\ cur' = [cur EXCEPT ![p] = o]
            /\ UNCHANGED <<why, goal, base, todo, blocked>>
       ELSE EndPass(p, FALSE) /\ UNCHANGED journal
    /\ UNCHANGED <<disk, git, rows, lock, aborted, events, ghost>>

(* The evidence, then the baseline, then the classification of each path.  *)
EvidenceLost(p) ==
    /\ pc[p] = "judge" /\ Happens("flaky")
    /\ \/ EndPass(p, FALSE) /\ UNCHANGED journal
       \/ Quarantine(p, "evidence")
    /\ UNCHANGED <<disk, git, rows, lock, aborted, ghost>>

AtPre(o)  == {f \in File : disk[f] = pre[o][f]}
AtPost(o) == {f \in File : disk[f] = post[o]} \ AtPre(o)

Judge(p) ==
    LET o == cur[p] IN
    /\ pc[p] = "judge"
    /\ \/ git # org[o] /\ Quarantine(p, "git")
       \/ /\ git = org[o] /\ AtPre(o) \cup AtPost(o) # File
          /\ Quarantine(p, "drift")
       \/ /\ git = org[o] /\ AtPre(o) = File
          /\ IF Claimed(p, {"recovering"})
             THEN /\ Transition(o, "recovered_noop")
                  /\ Goto(p, "pass") /\ UNCHANGED blocked
             ELSE EndPass(p, FALSE) /\ UNCHANGED journal
       \/ /\ git = org[o] /\ AtPre(o) \cup AtPost(o) = File /\ AtPost(o) # {}
          /\ IF Claimed(p, {"recovering"})
             THEN /\ Transition(o, "rolling_back")
                  /\ GotoWriting(p, "restore", AtPost(o)) /\ UNCHANGED blocked
             ELSE EndPass(p, FALSE) /\ UNCHANGED journal
    /\ UNCHANGED <<disk, git, rows, lock, aborted, events, ghost>>

(* restoreIntegrationJournalFile: no second look at the file, at the lease *)
(* or at the abort signal.                                                 *)
RestoreOne(p, f) ==
    /\ pc[p] = "restore" /\ f \in todo[p]
    /\ disk' = [disk EXCEPT ![f] = pre[cur[p]][f]]
    /\ todo' = [todo EXCEPT ![p] = @ \ {f}]
    /\ UNCHANGED <<git, journal, rows, lock, pc, goal, cur, base, aborted, blocked, events, ghost>>

RestoreFailed(p) ==
    /\ pc[p] = "restore" /\ todo[p] # {} /\ Happens("flaky")
    /\ \/ EndPass(p, FALSE) /\ UNCHANGED journal
       \/ Quarantine(p, "restore")
    /\ UNCHANGED <<disk, git, rows, lock, aborted, ghost>>

VerifyRestore(p) ==
    LET o == cur[p] IN
    /\ pc[p] = "restore" /\ todo[p] = {}
    /\ \/ disk # pre[o] /\ Quarantine(p, "verification")
       \/ disk = pre[o] /\ git # org[o] /\ Quarantine(p, "git")
       \/ /\ disk = pre[o] /\ git = org[o]
          /\ IF Claimed(p, {"rolling_back"})
             THEN /\ Transition(o, "rolled_back")
                  /\ Goto(p, "pass") /\ UNCHANGED blocked
             ELSE EndPass(p, FALSE) /\ UNCHANGED journal
    /\ UNCHANGED <<disk, git, rows, lock, aborted, events, ghost>>

-----------------------------------------------------------------------------
(* resolveIntegrationQuarantine of the operation the caller named, whose    *)
(* row is read again under the lock.                                       *)

Resolved(p, o, status) ==
    /\ ost' = [ost EXCEPT ![o] = status]
    /\ own' = [own EXCEPT ![o] = p]
    /\ goal' = [goal EXCEPT ![p] = "recover"]
    /\ UNCHANGED <<why, pc, cur, base, todo>>

VerifyRestored(p, o) ==
    /\ pc[p] = "pass" /\ goal[p] = "verify" /\ o \in Candidates(p)
    /\ IF lock = p /\ o \in Quarantined /\ git = org[o] /\ disk = pre[o]
       THEN Resolved(p, o, "recovered_verified")
       ELSE Goto(p, "release") /\ UNCHANGED journal
    /\ UNCHANGED <<disk, git, rows, lock, aborted, blocked, events, ghost>>

AcceptCurrent(p, o) ==
    /\ pc[p] = "pass" /\ goal[p] = "accept" /\ o \in Candidates(p)
    /\ IF lock = p /\ o \in Quarantined
       THEN Resolved(p, o, "resolved_by_operator") /\ want' = disk
       ELSE Goto(p, "release") /\ UNCHANGED <<journal, want>>
    /\ UNCHANGED <<disk, git, rows, lock, aborted, blocked, events, safe, unconf, user>>

-----------------------------------------------------------------------------
(* integratePatchWithoutSerialLock.                                        *)

(* The dirty-target refusals, the exact snapshot and the rollback baseline.*)
Snapshot(p) ==
    /\ pc[p] = "snapshot"
    /\ IF disk = git /\ ~aborted[p]
       THEN /\ base' = [base EXCEPT ![p] = disk]
            /\ pc' = [pc EXCEPT ![p] = "prepare"]
            /\ UNCHANGED <<goal, cur, todo>>
       ELSE Goto(p, "release")
    /\ UNCHANGED <<disk, git, journal, rows, lock, aborted, blocked, events, ghost>>

(* Mutant: the row is written without asserting the lease.                 *)
PrepareUnfenced(p, o, c) ==
    /\ pc[p] = "prepare" /\ ~aborted[p] /\ Quarantined = {}
    /\ ost[o] = "none" /\ \A f \in File : c # base[p][f]
    /\ ost' = [ost EXCEPT ![o] = "prepared"]
    /\ own' = [own EXCEPT ![o] = p]
    /\ pre' = [pre EXCEPT ![o] = disk]
    /\ org' = [org EXCEPT ![o] = base[p]]
    /\ post' = [post EXCEPT ![o] = c]
    /\ cur' = [cur EXCEPT ![p] = o]
    /\ pc' = [pc EXCEPT ![p] = "apply"]
    /\ UNCHANGED <<disk, git, why, lock, goal, base, todo, aborted, blocked, events, ghost>>

(* prepareIntegrationOperation: the pre-images are read again here; the    *)
(* HEAD recorded is the one of the snapshot.                               *)
Prepare(p, o, c) ==
    /\ pc[p] = "prepare" /\ ~aborted[p]
    /\ lock = p /\ Quarantined = {}
    /\ ost[o] = "none" /\ \A f \in File : c # base[p][f]
    /\ ost' = [ost EXCEPT ![o] = "prepared"]
    /\ own' = [own EXCEPT ![o] = p]
    /\ pre' = [pre EXCEPT ![o] = disk]
    /\ org' = [org EXCEPT ![o] = base[p]]
    /\ post' = [post EXCEPT ![o] = c]
    /\ cur' = [cur EXCEPT ![p] = o]
    /\ pc' = [pc EXCEPT ![p] = "apply"]
    /\ UNCHANGED <<disk, git, why, lock, goal, base, todo, aborted, blocked, events, ghost>>

PrepareRefused(p) ==
    /\ pc[p] = "prepare"
    /\ aborted[p] \/ lock # p \/ Quarantined # {}
    /\ Goto(p, "release")
    /\ UNCHANGED <<disk, git, journal, rows, lock, aborted, blocked, events, ghost>>

(* A lost signal ends the integration at each of the code's checks and     *)
(* leaves the operation to recovery.                                       *)
OwnershipLost(p) ==
    /\ aborted[p]
    /\ pc[p] \in {"apply", "check", "write", "accept", "commit"}
    /\ GotoWriting(p, "release", {})
    /\ UNCHANGED <<disk, git, journal, rows, lock, aborted, blocked, events, ghost>>

StartApply(p) ==
    /\ pc[p] = "apply" /\ ~aborted[p]
    /\ IF Authorised(p, "prepared")
       THEN Transition(cur[p], "applying") /\ Goto(p, "check")
       ELSE UNCHANGED journal /\ Goto(p, "finally")
    /\ UNCHANGED <<disk, git, rows, lock, aborted, blocked, events, ghost>>

(* Mutant: the write trusts the snapshot taken before the journal row.     *)
CheckTargetStale(p) ==
    /\ pc[p] = "check" /\ ~aborted[p]
    /\ GotoWriting(p, "write", File)
    /\ UNCHANGED <<disk, git, journal, rows, lock, aborted, blocked, events, ghost>>

(* applyPatchFile re-reads the exact bytes right before the first write.   *)
CheckTarget(p) ==
    /\ pc[p] = "check" /\ ~aborted[p]
    /\ \/ disk = base[p] /\ GotoWriting(p, "write", File) /\ UNCHANGED journal
       \/ /\ disk # base[p]
          /\ IF Authorised(p, "applying")
             THEN Transition(cur[p], "recovered_noop") /\ Goto(p, "release")
             ELSE UNCHANGED journal /\ Goto(p, "finally")
    /\ UNCHANGED <<disk, git, rows, lock, aborted, blocked, events, ghost>>

WriteOne(p, f) ==
    /\ pc[p] = "write" /\ f \in todo[p] /\ ~aborted[p]
    /\ disk' = [disk EXCEPT ![f] = post[cur[p]]]
    /\ todo' = [todo EXCEPT ![p] = @ \ {f}]
    /\ UNCHANGED <<git, journal, rows, lock, pc, goal, cur, base, aborted, blocked, events, ghost>>

WriteFailed(p) ==
    /\ pc[p] = "write" /\ ~aborted[p] /\ Happens("flaky")
    /\ GotoWriting(p, "undo", {})
    /\ UNCHANGED <<disk, git, journal, rows, lock, aborted, blocked, ghost>>

(* A failed transition throws; with the patch applied the catch block      *)
(* undoes it.                                                              *)
Advance(p, from, to, next) ==
    IF Authorised(p, from)
    THEN Transition(cur[p], to) /\ Goto(p, next)
    ELSE UNCHANGED journal /\ Goto(p, "undo")

VerifyApplied(p) ==
    /\ pc[p] = "write" /\ todo[p] = {} /\ ~aborted[p]
    /\ \/ git # base[p] /\ Goto(p, "finally") /\ UNCHANGED journal
       \/ git = base[p] /\ disk # Image(post[cur[p]]) /\ Goto(p, "undo") /\ UNCHANGED journal
       \/ /\ git = base[p] /\ disk = Image(post[cur[p]])
          /\ Advance(p, "applying", "applied_unvalidated", "applied")
    /\ UNCHANGED <<disk, git, rows, lock, aborted, blocked, events, ghost>>

(* Unexpected paths, or a project policy no longer trusted, undo the patch.*)
StartValidation(p) ==
    /\ pc[p] = "applied"
    /\ \/ Advance(p, "applied_unvalidated", "validating", "validate")
       \/ Goto(p, "undo") /\ UNCHANGED journal
    /\ UNCHANGED <<disk, git, rows, lock, aborted, blocked, events, ghost>>

(* processTreeUnconfirmed: tested before the abort signal.                 *)
ValidationUnconfirmed(p) ==
    /\ pc[p] = "validate"
    /\ unconf' = [unconf EXCEPT ![cur[p]] = TRUE]
    /\ IF Authorised(p, "validating")
       THEN /\ ost' = [ost EXCEPT ![cur[p]] = "quarantined"]
            /\ why' = [why EXCEPT ![cur[p]] = "process"]
            /\ UNCHANGED <<own, blocked>>
       ELSE blocked' = [blocked EXCEPT ![p] = TRUE] /\ UNCHANGED journal
    /\ Goto(p, "release")
    /\ UNCHANGED <<disk, git, rows, lock, aborted, events, safe, want, user>>

ValidationEnded(p) ==
    /\ pc[p] = "validate"
    /\ \/ aborted[p] /\ Goto(p, "release")
       \/ ~aborted[p] /\ git # base[p] /\ Goto(p, "finally")
       \/ ~aborted[p] /\ git = base[p] /\ Goto(p, "undo")
       \/ /\ ~aborted[p] /\ git = base[p] /\ disk = Image(post[cur[p]])
          /\ Goto(p, "accept")
    /\ UNCHANGED <<disk, git, journal, rows, lock, aborted, blocked, events, ghost>>

Accept(p) ==
    /\ pc[p] = "accept" /\ ~aborted[p]
    /\ \/ git # base[p] /\ Goto(p, "finally") /\ UNCHANGED journal
       \/ git = base[p] /\ Advance(p, "validating", "validated", "commit")
    /\ UNCHANGED <<disk, git, rows, lock, aborted, blocked, events, ghost>>

Commit(p) ==
    /\ pc[p] = "commit" /\ ~aborted[p]
    /\ Advance(p, "validated", "committed", "release")
    /\ want' = IF Authorised(p, "validated") THEN Image(post[cur[p]]) ELSE want
    /\ UNCHANGED <<disk, git, rows, lock, aborted, blocked, events, safe, unconf, user>>

(* rollbackVerifiedOwnedChanges: first every file is compared with the     *)
(* post-patch snapshot, then the matching ones are put back.               *)
Undo(p) ==
    /\ pc[p] = "undo"
    /\ GotoWriting(p, "unroll", {f \in File : disk[f] = post[cur[p]]})
    /\ UNCHANGED <<disk, git, journal, rows, lock, aborted, blocked, events, ghost>>

UnrollOne(p, f) ==
    /\ pc[p] = "unroll" /\ f \in todo[p]
    /\ disk' = [disk EXCEPT ![f] = base[p][f]]
    /\ todo' = [todo EXCEPT ![p] = @ \ {f}]
    /\ UNCHANGED <<git, journal, rows, lock, pc, goal, cur, base, aborted, blocked, events, ghost>>

UnrollEnd(p) ==
    /\ pc[p] = "unroll"
    /\ \/ todo[p] = {} /\ Goto(p, "finally") /\ UNCHANGED events
       \/ todo[p] # {} /\ Happens("flaky") /\ GotoWriting(p, "finally", {})
    /\ UNCHANGED <<disk, git, journal, rows, lock, aborted, blocked, ghost>>

(* The finally block recovers the process's own operation, unless aborted. *)
Finally(p) ==
    /\ pc[p] = "finally"
    /\ IF aborted[p] THEN Goto(p, "release")
       ELSE /\ pc' = [pc EXCEPT ![p] = "pass"]
            /\ goal' = [goal EXCEPT ![p] = "own"]
            /\ UNCHANGED <<cur, base, todo>>
    /\ UNCHANGED <<disk, git, journal, rows, lock, aborted, blocked, events, ghost>>

-----------------------------------------------------------------------------
(* The deferred recovery pass drops the writer block of a root whose       *)
(* database shows no unresolved operation.                                 *)
Unblock(p) ==
    /\ blocked[p] /\ Unresolved = {}
    /\ blocked' = [blocked EXCEPT ![p] = FALSE]
    /\ UNCHANGED <<disk, git, journal, rows, lock, local, aborted, events, ghost>>

(* The environment.                                                        *)

(* A user (or a stray process) writes content of its own to a file.  The   *)
(* edit is one the bridge could still have noticed unless some process has *)
(* already decided to write the file.                                      *)
Edit(f) ==
    /\ Happens("edit")
    /\ disk' = [disk EXCEPT ![f] = events + 1]
    /\ safe' = [safe EXCEPT ![f] = IF \A p \in Proc : f \notin todo[p]
                                  THEN events + 1 ELSE 0]
    /\ UNCHANGED <<git, journal, rows, lock, local, aborted, blocked, want, unconf>>
    /\ user' = TRUE

Discard(f) ==
    /\ Happens("discard") /\ disk[f] # git[f]
    /\ disk' = [disk EXCEPT ![f] = git[f]]
    /\ safe' = [safe EXCEPT ![f] = 0]
    /\ UNCHANGED <<git, journal, rows, lock, local, aborted, blocked, want, unconf>>
    /\ user' = TRUE

GitCommit ==
    /\ Happens("commit") /\ git # disk
    /\ git' = disk
    /\ safe' = [f \in File |-> 0]
    /\ UNCHANGED <<disk, journal, rows, lock, local, aborted, blocked, want, unconf, user>>

GitReset(o) ==
    /\ Happens("reset") /\ o \in Quarantined /\ git # org[o]
    /\ git' = org[o]
    /\ UNCHANGED <<disk, journal, rows, lock, local, aborted, blocked, ghost>>

(* The heartbeat gives up: the fence timer, a failed renewal, or a pulse   *)
(* that finds the lease gone.                                              *)
Abort(p) ==
    /\ pc[p] # "idle" /\ ~aborted[p]
    /\ IF lock = p THEN Happens("abort") ELSE UNCHANGED events
    /\ aborted' = [aborted EXCEPT ![p] = TRUE]
    /\ UNCHANGED <<disk, git, journal, rows, lock, local, blocked, ghost>>

(* The lease expires.  The fence timer aborts a live holder first, so with *)
(* Timely processes only a dead holder's lease, or one that is waiting for *)
(* its aborted validation run to end, lapses.                              *)
Lapse(p) ==
    /\ lock = p
    /\ Timely => pc[p] = "idle" \/ (pc[p] = "validate" /\ aborted[p])
    /\ lock' = NoProc
    /\ UNCHANGED <<disk, git, journal, rows, local, aborted, blocked, events, ghost>>

Crash(p) ==
    /\ pc[p] # "idle" /\ Happens("crash")
    /\ pc' = [pc EXCEPT ![p] = "idle"]
    /\ goal' = [goal EXCEPT ![p] = "none"]
    /\ cur' = [cur EXCEPT ![p] = NoOper]
    /\ base' = [base EXCEPT ![p] = Image(Base)]
    /\ todo' = [todo EXCEPT ![p] = {}]
    /\ aborted' = [aborted EXCEPT ![p] = FALSE]
    /\ blocked' = [blocked EXCEPT ![p] = FALSE]
    /\ UNCHANGED <<disk, git, journal, rows, lock, ghost>>

-----------------------------------------------------------------------------
RecoveryStep(p) ==
    \/ PassNothing(p)
    \/ \E o \in Oper : PassQuarantined(p, o) \/ BeginRecovery(p, o)
    \/ EvidenceLost(p) \/ Judge(p)
    \/ \E f \in File : RestoreOne(p, f)
    \/ RestoreFailed(p) \/ VerifyRestore(p)

ResolutionStep(p) ==
    \/ \E o \in Oper : VerifyRestored(p, o) \/ AcceptCurrent(p, o)

IntegrationStep(p) ==
    \/ Snapshot(p)
    \/ \E o \in Oper, c \in Patch : Prepare(p, o, c)
    \/ PrepareRefused(p) \/ OwnershipLost(p) \/ StartApply(p) \/ CheckTarget(p)
    \/ \E f \in File : WriteOne(p, f)
    \/ WriteFailed(p) \/ VerifyApplied(p) \/ StartValidation(p)
    \/ ValidationUnconfirmed(p) \/ ValidationEnded(p) \/ Accept(p) \/ Commit(p)
    \/ Undo(p) \/ UnrollEnd(p) \/ Finally(p)
    \/ \E f \in File : UnrollOne(p, f)

Step(p) == RecoveryStep(p) \/ ResolutionStep(p) \/ IntegrationStep(p) \/ Release(p)

Environment ==
    \/ \E f \in File : Edit(f) \/ Discard(f)
    \/ GitCommit
    \/ \E o \in Oper : GitReset(o)
    \/ \E p \in Proc : Abort(p) \/ Lapse(p) \/ Crash(p)

Next ==
    \/ \E p \in Proc : \/ Step(p)
                       \/ AcquireIntegration(p)
                       \/ \E g \in {"recover", "verify", "accept"} : AcquireRecovery(p, g)
                       \/ Unblock(p)
    \/ Environment

Spec == Init /\ [][Next]_vars

(* A live process takes its next step; leases of dead or aborted holders   *)
(* run out; the timer-driven recovery pass runs in some process and drops  *)
(* stale writer blocks in each.                                            *)
Fairness ==
    /\ \A p \in Proc : WF_vars(Step(p)) /\ WF_vars(Lapse(p)) /\ WF_vars(Unblock(p))
    /\ WF_vars(\E p \in Proc : AcquireRecovery(p, "recover"))

FairSpec == Spec /\ Fairness
-----------------------------------------------------------------------------
(* Properties.                                                             *)

(* The journal, lock and local states of a run are of their types; File    *)
(* contents are the base, a patch or a numbered user edit.                 *)
TypeOK ==
    /\ disk \in [File -> Content] /\ git \in [File -> Content]
    /\ ost \in [Oper -> Status]
    /\ own \in [Oper -> Proc \cup {NoProc}]
    /\ why \in [Oper -> Reason]
    /\ pre \in [Oper -> [File -> Content]] /\ org \in [Oper -> [File -> Content]]
    /\ post \in [Oper -> Patch \cup {Base}]
    /\ lock \in Proc \cup {NoProc}
    /\ pc \in [Proc -> {"idle", "pass", "judge", "restore", "snapshot", "prepare",
                        "apply", "check", "write", "applied", "validate", "accept",
                        "commit", "undo", "unroll", "finally", "release"}]
    /\ goal \in [Proc -> {"none", "integrate", "own", "recover", "verify", "accept"}]
    /\ cur \in [Proc -> Oper \cup {NoOper}]
    /\ base \in [Proc -> [File -> Content]]
    /\ todo \in [Proc -> SUBSET File]
    /\ aborted \in [Proc -> BOOLEAN] /\ blocked \in [Proc -> BOOLEAN]
    /\ events \in 0 .. MaxEvents
    /\ safe \in [File -> 0 .. events] /\ want \in [File -> Content]
    /\ unconf \in [Oper -> BOOLEAN] /\ user \in BOOLEAN

(* At most one operation of a repository is unresolved, whatever leases    *)
(* lapse: the journal test of acquireHardLock and the lock test of         *)
(* prepareIntegrationOperation together, neither of which counts rows.     *)
OneOpen == \A o, q \in Unresolved : o = q

(* A resolved operation never changes again, even when a process that lost *)
(* its lease during validation wakes up and tries to finish or undo it.    *)
ResolvedFinal ==
    [][\A o \in Oper : ost[o] \in INTEGRATION_RESOLVED_STATUSES
                          => ost'[o] = ost[o]]_vars

(* A quarantine that is not a Git drift ends only at an operator's hand:   *)
(* no recovery pass of any process closes it or rolls it back              *)
(* (requalifyStateDriftQuarantine, recoverIntegrationOperationsWhileLocked)*)
QuarantineKept ==
    [][\A o \in Oper :
          ost[o] = "quarantined" /\ ost'[o] # "quarantined"
             => \/ ost'[o] \in {"recovered_verified", "resolved_by_operator"}
                \/ why[o] = "git" /\ ost'[o] = "recovered_noop"]_vars

(* All or nothing: until somebody else writes the files, and whatever      *)
(* crashes, aborts and failed writes happen, once nothing is unresolved    *)
(* the checkout is exactly what the last committed (or operator-accepted)  *)
(* operation left.                                                         *)
Whole == ~user /\ Unresolved = {} => disk = want

(* A user edit made while no process had already decided to write the file *)
(* is never overwritten by an apply, an undo or a recovery.                *)
EditsSurvive == \A f \in File : safe[f] # 0 => disk[f] = safe[f]

(* What holds even while leases lapse unnoticed at any step (not Timely):  *)
(* a process that lost its lease wakes up and goes on, but opens no second *)
(* operation and overwrites no edit (prepareIntegrationOperation,          *)
(* recoverIntegrationOperationsWhileLocked).                               *)
LapsedLeasesHarmless == OneOpen /\ EditsSurvive

(* Every operation a crash, an abort or a failed write left behind is      *)
(* eventually resolved or quarantined by some process's recovery.          *)
Settles ==
    \A o \in Oper : (ost[o] \in recoverableStatuses)
                       ~> (ost[o] \in INTEGRATION_RESOLVED_STATUSES \cup {"quarantined"})

(* A process never keeps a repository blocked for writers once nothing is  *)
(* unresolved in it.                                                       *)
Unblocks ==
    \A p \in Proc : (blocked[p] /\ Unresolved = {})
                       ~> (~blocked[p] \/ Unresolved # {})

(* Recovery does its work: no operation stays open and no repository stays *)
(* blocked (recoverIntegrationOperationsWhileLocked and the deferred pass  *)
(* that clears INTEGRATION_RECOVERY_BLOCKED_ROOTS).                        *)
Recovers == Settles /\ Unblocks

(* lib/integration-apply.js: an integration whose validation tree may      *)
(* still run must not be left as an operation a recovery pass rolls back.  *)
UnconfirmedHeld ==
    \A o \in Oper : unconf[o] => ost[o] \notin {"rolling_back", "rolled_back"}
=============================================================================
