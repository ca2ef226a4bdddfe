-------------------------- MODULE HardLocksProofs --------------------------
(* Machine-checked proofs about HardLocks, for every set of runs, paths and requests and    *)
(* every lease duration.                                                                    *)
EXTENDS HardLocks, TLAPS

USE DEF NoPulse, Forever

(* Overlap, and with it the conflict of two locks, does not depend on which lock came first. *)
LEMMA ConflictSymmetric ==
    ASSUME NEW a, NEW b, Conflict(a, b)
    PROVE  Conflict(b, a)
<1>1. Overlaps(a.paths, b.paths) => Overlaps(b.paths, a.paths)
    BY DEF Overlaps
<1> QED BY <1>1 DEF Conflict, Serial

(* The repository scope "." overlaps every nonempty scope.                                  *)
LEMMA RepoOverlaps ==
    ASSUME NEW P \in SUBSET Path, P # {}
    PROVE  Overlaps({Repo}, P)
<1>1. PICK p \in P : TRUE
    OBVIOUS
<1>2. p \in Seq(STRING)
    BY PathAssumption
<1>3. IsPrefix(Repo, p)
    BY <1>2 DEF IsPrefix, Repo
<1> QED BY <1>1, <1>3 DEF Overlaps

-----------------------------------------------------------------------------
(* What a transaction that prunes leaves of the other runs' rows.                           *)

(* Pruning keeps the tables well typed.                                                    *)
LEMMA AfterTypes ==
    ASSUME TypeOK, NEW r \in Run, NEW own \in Scope, NEW st \in Status
    PROVE  /\ ScopesAfter(r, own) \in [Run -> Scope]
           /\ StatusAfter(r, st) \in [Run -> Status]
<1>1. NoScope \in Scope /\ "expired" \in Status
    BY DEF NoScope, Scope, Mode, Status
<1> QED BY <1>1 DEF TypeOK, ScopesAfter, StatusAfter

(* A row that survives belongs to a live lock and is unchanged, and so is its run; pruning  *)
(* neither makes nor ends a quarantine.                                                     *)
LEMMA AfterFacts ==
    ASSUME NEW r \in Run, NEW own, NEW st, NEW s \in Run, s # r
    PROVE  /\ ScopesAfter(r, own)[s].paths # {} =>
                Live(s) /\ ScopesAfter(r, own)[s] = scope[s]
           /\ Live(s) => ScopesAfter(r, own)[s] = scope[s] /\ StatusAfter(r, st)[s] = status[s]
           /\ StatusAfter(r, st)[s] = "quarantined" <=> status[s] = "quarantined"
           /\ ScopesAfter(r, own)[r] = own
           /\ StatusAfter(r, st)[r] = st
BY DEF ScopesAfter, StatusAfter, Live, Present, Expired, NoScope

(* The scope of a request is a scope.                                                      *)
LEMMA RequestTypes ==
    ASSUME NEW q \in Request \cup {NoRequest}
    PROVE  ScopeOf(q) \in Scope /\ q.edits \in BOOLEAN
<1>1. CASE q \in Request
    <2>1. q \in [kind : Kind, mode : Mode, paths : SUBSET Path, edits : BOOLEAN]
        BY <1>1, RequestAssumption DEF WellFormed
    <2> QED BY <2>1 DEF ScopeOf, Scope
<1>2. CASE q = NoRequest
    BY <1>2 DEF ScopeOf, Scope, NoRequest, Mode
<1> QED BY <1>1, <1>2

-----------------------------------------------------------------------------
(* Type correctness.                                                                        *)

(* Every step of Next keeps the type invariant.                                             *)
LEMMA TypeStep ==
    ASSUME TypeOK, [Next]_vars
    PROVE  TypeOK'
<1> USE TimeAssumption DEF tables, memory
<1>0. NoScope \in Scope
    BY DEF NoScope, Scope, Mode
<1>1. CASE Tick
    BY <1>1 DEF TypeOK, Tick
<1>2. ASSUME NEW r \in Run, CleanupExpired(r)
      PROVE  TypeOK'
    <2>1. (IF status[r] = "running" THEN "expired" ELSE status[r]) \in Status
        BY DEF TypeOK, Status
    <2> QED BY <1>2, <1>0, <2>1, AfterTypes DEF TypeOK, CleanupExpired
<1>3. CASE UNCHANGED vars
    BY <1>3 DEF TypeOK, vars
<1>4. ASSUME NEW r \in Run, NEW q \in Request, Acquire(r, q) \/ AcquireCommitError(r, q)
      PROVE  TypeOK'
    <2>1. ScopeOf(q) \in Scope /\ {"running", "released"} \subseteq Status
        BY RequestTypes DEF Status
    <2>2. now + Ttl \in 0 .. Forever
        BY <1>4 DEF Acquire, AcquireCommitError, Grantable, TypeOK
    <2>3. exp' \in [Run -> 0 .. Forever] /\ phase' \in [Run -> Phase]
        BY <1>4, <2>2 DEF TypeOK, Acquire, AcquireCommitError, Grant, Phase
    <2>4. scope' \in [Run -> Scope] /\ status' \in [Run -> Status]
        BY <1>4, <1>0, <2>1, AfterTypes DEF Acquire, AcquireCommitError, Grant
    <2>5. req' \in [Run -> Request \cup {NoRequest}] /\ confirmed' \in [Run -> 0 .. Forever]
        BY <1>4, <2>2 DEF TypeOK, Acquire, AcquireCommitError
    <2> QED BY <1>4, <2>3, <2>4, <2>5 DEF TypeOK, Acquire, AcquireCommitError
<1>5. ASSUME NEW r \in Run, Heartbeat(r)
      PROVE  TypeOK'
    <2>1. CASE PulseBegin(r)
        BY <2>1 DEF TypeOK, PulseBegin
    <2>2. CASE PulseRenews(r)
        BY <2>2 DEF TypeOK, PulseRenews
    <2>3. CASE PulseRefused(r)
        BY <2>3 DEF TypeOK, PulseRefused, Stop
    <2>4. CASE PulseFails(r)
        BY <2>4 DEF TypeOK, PulseFails, Stop
    <2>5. CASE Fence(r) \/ PulseTooLate(r)
        BY <2>5 DEF TypeOK, Fence, PulseTooLate, Stop
    <2> QED BY <1>5, <2>1, <2>2, <2>3, <2>4, <2>5 DEF Heartbeat
<1>6. ASSUME NEW r \in Run, Signal(r) \/ Launch(r) \/ TreeExits(r)
      PROVE  TypeOK'
    BY <1>6 DEF TypeOK, Signal, Launch, TreeExits, Stop
<1>7. ASSUME NEW r \in Run, NEW to \in Phase, Leave(r, to)
      PROVE  TypeOK'
    BY <1>7 DEF TypeOK, Leave
<1>8. ASSUME NEW r \in Run, Ending(r) \/ Crash(r) \/ Drain(r)
      PROVE  TypeOK'
    <2>1. CASE Finish(r) \/ FinishUnconfirmed(r) \/ ReleaseFails(r) \/ QuarantineFails(r)
               \/ Crash(r) \/ Drain(r)
        BY <2>1, <1>7 DEF Finish, FinishUnconfirmed, ReleaseFails, QuarantineFails, Crash,
           Drain, Phase
    <2>2. CASE Release(r)
        BY <2>2, <1>0, AfterTypes DEF TypeOK, Release, Phase, Status
    <2>3. ASSUME NEW e \in {"incomplete", "complete"}, Quarantine(r, e)
          PROVE  TypeOK'
        <3>1. ScopeOf(req[r]) \in Scope
            BY RequestTypes DEF TypeOK
        <3> QED BY <2>3, <3>1 DEF TypeOK, Quarantine, Phase, Status, Evidence
    <2> QED BY <1>8, <2>1, <2>2, <2>3 DEF Ending
<1>9. ASSUME NEW r \in Run, Finalizing(r)
      PROVE  TypeOK'
    <2>1. ASSUME ProtectRows(r)
          PROVE  /\ scope' \in [Run -> Scope] /\ status' \in [Run -> Status]
                 /\ exp' \in [Run -> 0 .. Forever] /\ evidence' \in [Run -> Evidence]
        <3>1. [paths |-> scope[r].paths, mode |-> "serial_integration", edits |-> TRUE]
              \in Scope
            BY DEF TypeOK, Scope, Mode
        <3>2. "running" \in Status
            BY DEF Status
        <3>3. scope' \in [Run -> Scope] /\ status' \in [Run -> Status]
            BY <2>1, <3>1, <3>2, AfterTypes DEF ProtectRows
        <3>4. exp' \in [Run -> 0 .. Forever]
            BY <2>1 DEF TypeOK, ProtectRows
        <3>5. evidence' \in [Run -> Evidence]
            BY <2>1 DEF TypeOK, ProtectRows, Evidence
        <3> QED BY <3>3, <3>4, <3>5
    <2>2. ASSUME RestoreRows(r)
          PROVE  /\ scope' \in [Run -> Scope] /\ status' \in [Run -> Status]
                 /\ exp' \in [Run -> 0 .. Forever] /\ evidence' \in [Run -> Evidence]
        <3>1. req[r].edits \in BOOLEAN
            BY RequestTypes DEF TypeOK
        <3>2. [paths |-> scope[r].paths, mode |-> "read", edits |-> req[r].edits] \in Scope
            BY <3>1 DEF TypeOK, Scope, Mode
        <3> QED BY <2>2, <3>2 DEF TypeOK, RestoreRows, Evidence
    <2>3. CASE Protect(r) \/ ProtectUnconfirmed(r)
        BY <2>3, <2>1 DEF TypeOK, Protect, ProtectUnconfirmed, Phase
    <2>4. CASE Restore(r)
        BY <2>4, <2>2 DEF TypeOK, Restore, RestoreRows, Phase
    <2>5. CASE RestoreFails(r)
        BY <2>5, <2>2 DEF TypeOK, RestoreFails, Phase
    <2>6. CASE ProtectRefused(r) \/ QuarantineProtectedFails(r)
        BY <2>6, <1>7 DEF ProtectRefused, QuarantineProtectedFails, Phase
    <2>7. ASSUME NEW e \in {"incomplete", "complete"}, QuarantineProtected(r, e)
          PROVE  TypeOK'
        BY <2>7 DEF TypeOK, QuarantineProtected, Phase, Status, Evidence
    <2> QED BY <1>9, <2>3, <2>4, <2>5, <2>6, <2>7 DEF Finalizing
<1>10. ASSUME NEW r \in Run, Reclaim(r) \/ ReconcileReleases(r)
      PROVE  TypeOK'
    BY <1>10, <1>0 DEF TypeOK, Reclaim, ReconcileReleases, Status
<1>11. ASSUME NEW r \in Run, OpenOperation(r) \/ CloseOperation(r)
       PROVE  TypeOK'
    BY <1>11 DEF TypeOK, OpenOperation, CloseOperation
<1> QED BY <1>1, <1>2, <1>3, <1>4, <1>5, <1>6, <1>8, <1>9, <1>10, <1>11 DEF Next

(* TypeCorrect: every variable keeps its type in every behaviour of the lock system.        *)
THEOREM TypeCorrect == Spec => []TypeOK
<1>1. Init => TypeOK
    BY TimeAssumption DEF Init, TypeOK, NoScope, Scope, Mode, Status, Evidence, Phase, Stop
<1> QED BY <1>1, TypeStep, PTL DEF Spec

-----------------------------------------------------------------------------
(* Exclusion in the lock table.                                                             *)

(* Steps that leave the scopes and the run statuses alone.                                  *)
LEMMA QuietSteps ==
    ASSUME NEW r \in Run,
           \/ Heartbeat(r) \/ Signal(r) \/ Launch(r) \/ TreeExits(r) \/ Crash(r) \/ Drain(r)
           \/ Finish(r) \/ FinishUnconfirmed(r) \/ ReleaseFails(r) \/ QuarantineFails(r)
           \/ ProtectRefused(r) \/ QuarantineProtectedFails(r)
           \/ OpenOperation(r) \/ CloseOperation(r)
    PROVE  UNCHANGED <<now, scope, status, evidence, req>>
BY DEF Heartbeat, PulseBegin, PulseTooLate, PulseRenews, PulseRefused, PulseFails, Fence, Signal,
   Launch, TreeExits, Crash, Drain, Finish, FinishUnconfirmed, ReleaseFails, QuarantineFails,
   ProtectRefused, QuarantineProtectedFails, OpenOperation, CloseOperation, Leave, tables, memory

(* Every step of Next keeps rows of different runs from conflicting.                        *)
LEMMA ExclusionStep ==
    ASSUME TypeOK, TableExclusion, [Next]_vars
    PROVE  TableExclusion'
<1> USE DEF tables, memory
<1>1. CASE UNCHANGED <<scope, status>>
    BY <1>1 DEF TableExclusion, Present
<1>2. ASSUME NEW r \in Run, NEW own, NEW st, scope' = ScopesAfter(r, own),
             status' = StatusAfter(r, st),
             \A s \in Run \ {r} : Live(s) /\ own.paths # {} => ~Conflict(own, scope[s])
      PROVE  TableExclusion'
    <2> SUFFICES ASSUME NEW a \in Run, NEW b \in Run, a # b, Present(a)', Present(b)',
                        status'[a] # "quarantined", status'[b] # "quarantined"
                 PROVE  ~Conflict(scope'[a], scope'[b])
        BY DEF TableExclusion
    <2>1. CASE a = r
        BY <1>2, <2>1, AfterFacts DEF Present
    <2>2. CASE b = r
        BY <1>2, <2>2, AfterFacts, ConflictSymmetric DEF Present
    <2>3. CASE a # r /\ b # r
        <3>1. ASSUME NEW s \in Run, s # r, Present(s)', status'[s] # "quarantined"
              PROVE  Present(s) /\ scope'[s] = scope[s] /\ status[s] # "quarantined"
            <4>1. ScopesAfter(r, own)[s].paths # {} /\ StatusAfter(r, st)[s] # "quarantined"
                BY <1>2, <3>1 DEF Present
            <4>2. Live(s) /\ ScopesAfter(r, own)[s] = scope[s]
                BY <3>1, <4>1 DEF ScopesAfter, StatusAfter, Live, Present, Expired, NoScope
            <4>3. status[s] # "quarantined"
                BY <3>1, <4>1 DEF ScopesAfter, StatusAfter, Live, Present, Expired, NoScope
            <4> QED BY <1>2, <4>2, <4>3 DEF Live
        <3> QED BY <2>3, <3>1 DEF TableExclusion
    <2> QED BY <2>1, <2>2, <2>3
<1>4. ASSUME NEW r \in Run, NEW q \in Request, Acquire(r, q) \/ AcquireCommitError(r, q)
      PROVE  TableExclusion'
    <2>1. \A s \in Run \ {r} : Live(s) => ~Conflict(ScopeOf(q), scope[s])
        BY <1>4 DEF Acquire, AcquireCommitError, Grantable
    <2>2. CASE scope' = ScopesAfter(r, NoScope) /\ status' = StatusAfter(r, "released")
        BY <2>2, <1>2 DEF NoScope
    <2> QED BY <1>4, <2>1, <2>2, <1>2 DEF Acquire, AcquireCommitError, Grant
<1>5. ASSUME NEW r \in Run, Protectable(r), ProtectRows(r)
      PROVE  TableExclusion'
    <2> DEFINE own == [paths |-> scope[r].paths, mode |-> "serial_integration", edits |-> TRUE]
    <2>1. ASSUME NEW s \in Run \ {r}, Live(s)
          PROVE  FALSE
        <3>1. scope[s].paths \in SUBSET Path /\ scope[s].paths # {}
            BY <2>1 DEF TypeOK, Scope, Live, Present
        <3>2. Overlaps({Repo}, scope[s].paths)
            BY <3>1, RepoOverlaps
        <3> QED BY <1>5, <2>1, <3>2 DEF Protectable, Conflict, ExclusiveScope
    <2>2. scope' = ScopesAfter(r, own) /\ status' = StatusAfter(r, "running")
        BY <1>5 DEF ProtectRows
    <2> QED BY <2>1, <2>2, <1>2
<1>6. ASSUME NEW r \in Run, RestoreRows(r)
      PROVE  TableExclusion'
    <2> SUFFICES ASSUME NEW a \in Run, NEW b \in Run, a # b, Present(a)', Present(b)',
                        status'[a] # "quarantined", status'[b] # "quarantined"
                 PROVE  ~Conflict(scope'[a], scope'[b])
        BY DEF TableExclusion
    <2>0. /\ Present(a) /\ Present(b) /\ ~Conflict(scope[a], scope[b])
          /\ ~Conflict(scope[b], scope[a])
        BY <1>6, ConflictSymmetric DEF RestoreRows, Protected, Quarantined, TableExclusion, Present,
           TypeOK
    <2>1. ASSUME NEW l, ~Conflict(scope[r], l)
          PROVE  ~Conflict([paths |-> scope[r].paths, mode |-> "read", edits |-> req[r].edits], l)
        BY <1>6, <2>1 DEF RestoreRows, Protected, Conflict, Serial, WorktreeWriter
    <2>2. scope'[r] = [paths |-> scope[r].paths, mode |-> "read", edits |-> req[r].edits]
        BY <1>6 DEF RestoreRows, TypeOK
    <2>3. \A s \in Run \ {r} : scope'[s] = scope[s]
        BY <1>6 DEF RestoreRows, TypeOK
    <2>4. CASE a = r
        BY <2>0, <2>1, <2>2, <2>3, <2>4
    <2>5. CASE b = r
        BY <2>0, <2>1, <2>2, <2>3, <2>5, ConflictSymmetric
    <2>6. CASE a # r /\ b # r
        BY <2>0, <2>3, <2>6
    <2> QED BY <2>4, <2>5, <2>6
<1>7. ASSUME NEW r \in Run, NEW e \in {"incomplete", "complete"},
             Quarantine(r, e) \/ QuarantineProtected(r, e)
      PROVE  TableExclusion'
    BY <1>7 DEF Quarantine, QuarantineProtected, TableExclusion, Present, TypeOK
<1>8. ASSUME NEW r \in Run, Reclaim(r) \/ ReconcileReleases(r)
      PROVE  TableExclusion'
    BY <1>8 DEF Reclaim, ReconcileReleases, TableExclusion, Present, NoScope, TypeOK
<1>9. ASSUME NEW r \in Run, CleanupExpired(r) \/ Release(r)
      PROVE  TableExclusion'
    BY <1>9, <1>2 DEF CleanupExpired, Release, NoScope
<1>10. ASSUME NEW r \in Run, Finalizing(r)
       PROVE  TableExclusion'
    BY <1>10, <1>1, <1>5, <1>6, <1>7, QuietSteps DEF Finalizing, Protect, ProtectUnconfirmed,
       Restore, RestoreFails
<1>11. ASSUME NEW r \in Run, Ending(r)
       PROVE  TableExclusion'
    BY <1>11, <1>1, <1>7, <1>9, QuietSteps DEF Ending
<1>12. CASE Tick \/ UNCHANGED vars
    BY <1>12, <1>1 DEF Tick, vars
<1> QED BY <1>1, <1>4, <1>8, <1>9, <1>10, <1>11, <1>12, QuietSteps DEF Next

(* Exclusion: in every behaviour, whatever the timers do, the rows of two runs conflict     *)
(* only if one of the runs is quarantined.                                                  *)
THEOREM Exclusion == Spec => []TableExclusion
<1>1. Init => TableExclusion
    BY DEF Init, TableExclusion, Present, NoScope
<1>2. TypeOK /\ TableExclusion /\ [Next]_vars => TableExclusion'
    BY ExclusionStep
<1> QED BY <1>1, <1>2, TypeCorrect, PTL DEF Spec

-----------------------------------------------------------------------------
(* Quarantines and the finalizer's protection.                                              *)

(* A transaction that prunes disturbs no other run's holder.                                *)
LEMMA OtherHolder ==
    ASSUME TypeOK, NEW r \in Run, NEW own, NEW st, NEW s \in Run, s # r, HolderOk(s),
           scope' = ScopesAfter(r, own), status' = StatusAfter(r, st),
           exp'[s] = exp[s], evidence'[s] = evidence[s], phase'[s] = phase[s], req'[s] = req[s]
    PROVE  HolderOk(s)'
<1>1. exp[s] = Forever => ~Expired(s)
    BY TimeAssumption DEF Expired, TypeOK
<1>2. \/ scope'[s] = scope[s]
      \/ scope'[s] = NoScope /\ Expired(s)
    BY DEF ScopesAfter
<1>3. \/ status'[s] = status[s]
      \/ status'[s] = "expired" /\ Expired(s)
    BY DEF StatusAfter
<1> QED BY <1>1, <1>2, <1>3 DEF HolderOk, Protected, Quarantined, Present, NoScope

(* Every step of Next keeps each holder's rows in order.                                    *)
LEMMA HolderStep ==
    ASSUME TypeOK, HolderInv, [Next]_vars
    PROVE  HolderInv'
<1> USE TimeAssumption DEF tables, memory
<1> SUFFICES ASSUME NEW s \in Run
             PROVE  HolderOk(s)'
    BY DEF HolderInv
<1>0. HolderOk(s)
    BY DEF HolderInv
<1>1. CASE Tick \/ UNCHANGED vars
    BY <1>1, <1>0 DEF Tick, vars, HolderOk, Protected, Quarantined, Present
<1>2. ASSUME NEW r \in Run, NEW q \in Request, Acquire(r, q) \/ AcquireCommitError(r, q)
      PROVE  HolderOk(s)'
    <2>1. CASE s # r
        <3>1. PICK own, st : scope' = ScopesAfter(r, own) /\ status' = StatusAfter(r, st)
            BY <1>2 DEF Acquire, AcquireCommitError, Grant
        <3>2. /\ exp'[s] = exp[s] /\ evidence'[s] = evidence[s] /\ phase'[s] = phase[s]
              /\ req'[s] = req[s]
            BY <1>2, <2>1 DEF Acquire, AcquireCommitError, Grant, TypeOK
        <3> QED BY <2>1, <3>1, <3>2, <1>0, OtherHolder
    <2>2. CASE s = r
        <3>1. /\ phase'[r] \in {"active", "done"} /\ req'[r] = q
              /\ scope'[r] \in {NoScope, ScopeOf(q)} /\ status'[r] \in {"running", "released"}
            BY <1>2 DEF Acquire, AcquireCommitError, Grant, TypeOK, ScopesAfter, StatusAfter
        <3> QED BY <2>2, <3>1 DEF HolderOk, Present, ScopeOf, NoScope
    <2> QED BY <2>1, <2>2
<1>3. ASSUME NEW r \in Run, CleanupExpired(r) \/ Release(r)
      PROVE  HolderOk(s)'
    <2>1. CASE s # r
        <3>1. PICK own, st : scope' = ScopesAfter(r, own) /\ status' = StatusAfter(r, st)
            BY <1>3 DEF CleanupExpired, Release
        <3>2. /\ exp'[s] = exp[s] /\ evidence'[s] = evidence[s] /\ phase'[s] = phase[s]
              /\ req'[s] = req[s]
            BY <1>3, <2>1 DEF CleanupExpired, Release, TypeOK
        <3> QED BY <2>1, <3>1, <3>2, <1>0, OtherHolder
    <2>2. CASE s = r /\ CleanupExpired(r)
        <3>1. exp[r] # Forever
            BY <2>2 DEF CleanupExpired, Expired, TypeOK
        <3>2. scope'[r] = NoScope /\ status'[r] # "quarantined" /\ UNCHANGED <<phase, req>>
            BY <2>2, <3>1, <1>0 DEF CleanupExpired, ScopesAfter, StatusAfter, HolderOk
        <3> QED BY <2>2, <3>1, <3>2, <1>0 DEF HolderOk, Protected, Quarantined, Present, NoScope
    <2>3. CASE s = r /\ Release(r)
        <3>1. scope'[r] = NoScope /\ status'[r] = "released" /\ phase'[r] = "done"
            BY <2>3 DEF Release, ScopesAfter, StatusAfter, TypeOK
        <3> QED BY <2>3, <3>1 DEF HolderOk, Present, NoScope
    <2> QED BY <1>3, <2>1, <2>2, <2>3
<1>4. ASSUME NEW r \in Run, Heartbeat(r)
      PROVE  HolderOk(s)'
    <2>1. UNCHANGED <<scope, status, evidence, phase, req>>
        BY <1>4 DEF Heartbeat, PulseBegin, PulseTooLate, PulseRenews, PulseRefused, PulseFails, Fence
    <2>2. \/ exp'[s] = exp[s]
          \/ s = r /\ exp[s] # Forever /\ phase[s] = "active"
        BY <1>4 DEF Heartbeat, PulseBegin, PulseTooLate, PulseRenews, PulseRefused, PulseFails,
           Fence, Renewable, Heartbeating, TypeOK
    <2> QED BY <1>0, <2>1, <2>2 DEF HolderOk, Protected, Quarantined, Present
<1>5. ASSUME NEW r \in Run,
             Signal(r) \/ Launch(r) \/ TreeExits(r) \/ OpenOperation(r) \/ CloseOperation(r)
      PROVE  HolderOk(s)'
    <2>1. UNCHANGED <<scope, exp, status, evidence, phase, req>>
        BY <1>5 DEF Signal, Launch, TreeExits, OpenOperation, CloseOperation
    <2> QED BY <1>0, <2>1 DEF HolderOk, Protected, Quarantined, Present
<1>6. ASSUME NEW r \in Run, NEW to \in Phase, Leave(r, to), phase[r] # "done",
             to \notin {"active", "validating"},
             to = "protecting" => req[r].kind = "finalizer"
      PROVE  HolderOk(s)'
    BY <1>6, <1>0 DEF Leave, HolderOk, Protected, Quarantined, Present, TypeOK
<1>7. ASSUME NEW r \in Run,
             \/ Finish(r) \/ FinishUnconfirmed(r) \/ ReleaseFails(r) \/ QuarantineFails(r)
             \/ Crash(r) \/ Drain(r) \/ ProtectRefused(r) \/ QuarantineProtectedFails(r)
      PROVE  HolderOk(s)'
    BY <1>7, <1>6 DEF Finish, FinishUnconfirmed, ReleaseFails, QuarantineFails, Crash, Drain,
       ProtectRefused, QuarantineProtectedFails, Phase
<1>8. ASSUME NEW r \in Run, NEW e \in {"incomplete", "complete"}, Quarantine(r, e)
      PROVE  HolderOk(s)'
    <2>1. CASE s # r
        BY <1>8, <1>0, <2>1 DEF Quarantine, HolderOk, Protected, Quarantined, Present, TypeOK
    <2>2. CASE s = r
        BY <1>8, <1>0, <2>2 DEF Quarantine, HolderOk, Present, TypeOK, ScopeOf
    <2> QED BY <2>1, <2>2
<1>9. ASSUME NEW r \in Run, NEW e \in {"incomplete", "complete"}, QuarantineProtected(r, e)
      PROVE  HolderOk(s)'
    BY <1>9, <1>0 DEF QuarantineProtected, HolderOk, Protected, Quarantined, Present, TypeOK
<1>10. ASSUME NEW r \in Run, Reclaim(r) \/ ReconcileReleases(r)
       PROVE  HolderOk(s)'
    BY <1>10, <1>0 DEF Reclaim, ReconcileReleases, HolderOk, Protected, Quarantined, Present,
       NoScope, TypeOK
<1>11. ASSUME NEW r \in Run, Protectable(r), ProtectRows(r), phase[r] = "protecting",
              UNCHANGED req, NEW to \in {"validating", "done"}, phase' = [phase EXCEPT ![r] = to]
       PROVE  HolderOk(s)'
    <2> DEFINE own == [paths |-> scope[r].paths, mode |-> "serial_integration", edits |-> TRUE]
    <2>1. scope' = ScopesAfter(r, own) /\ status' = StatusAfter(r, "running")
        BY <1>11 DEF ProtectRows
    <2>2. CASE s # r
        <3>1. /\ exp'[s] = exp[s] /\ evidence'[s] = evidence[s] /\ phase'[s] = phase[s]
              /\ req'[s] = req[s]
            BY <1>11, <2>2 DEF ProtectRows, TypeOK
        <3> QED BY <2>1, <2>2, <3>1, <1>0, OtherHolder
    <2>3. CASE s = r
        <3>1. /\ scope'[r] = own /\ status'[r] = "running" /\ exp'[r] = Forever
              /\ evidence'[r] = "incomplete" /\ phase'[r] = to
            BY <1>11, <2>1 DEF ProtectRows, ScopesAfter, StatusAfter, TypeOK
        <3>2. own.paths = req[r].paths /\ own.paths # {}
            BY <1>11, <1>0, <2>3 DEF Protectable, Live, HolderOk, Present
        <3>3. /\ scope'[r].paths = req[r].paths /\ scope'[r].paths # {}
              /\ scope'[r].mode = "serial_integration" /\ scope'[r].edits = TRUE
            BY <3>1, <3>2
        <3>4. req[r].kind = "finalizer" /\ req'[r] = req[r]
            BY <1>11, <1>0, <2>3 DEF HolderOk
        <3> HIDE DEF own
        <3>5. Protected(r)'
            BY <3>1, <3>3 DEF Protected, Quarantined, Present
        <3> QED BY <1>11, <2>3, <3>1, <3>3, <3>4, <3>5 DEF HolderOk
    <2> QED BY <2>2, <2>3
<1>12. ASSUME NEW r \in Run, RestoreRows(r), phase[r] = "validating", UNCHANGED req,
              NEW to \in {"active", "done"}, phase' = [phase EXCEPT ![r] = to]
       PROVE  HolderOk(s)'
    <2>1. CASE s = r
        <3>1. req[r] \in Request /\ req[r].kind = "finalizer"
            BY <1>12, <1>0, <2>1 DEF HolderOk, TypeOK, NoRequest
        <3>2. req[r].mode = "read"
            BY <3>1, RequestAssumption DEF WellFormed
        <3> QED BY <1>12, <1>0, <2>1, <3>2 DEF RestoreRows, HolderOk, Protected, Quarantined,
                   Present, TypeOK
    <2>2. CASE s # r
        BY <1>12, <1>0, <2>2 DEF RestoreRows, HolderOk, Protected, Quarantined, Present, TypeOK
    <2> QED BY <2>1, <2>2
<1>13. ASSUME NEW r \in Run, UNCHANGED tables, phase[r] # "done", UNCHANGED req,
              phase' = [phase EXCEPT ![r] = "done"]
       PROVE  HolderOk(s)'
    BY <1>13, <1>0 DEF HolderOk, Protected, Quarantined, Present, TypeOK
<1>14. ASSUME NEW r \in Run, Finalizing(r)
       PROVE  HolderOk(s)'
    BY <1>14, <1>7, <1>9, <1>11, <1>12, <1>13 DEF Finalizing, Protect, ProtectUnconfirmed, Restore,
       RestoreFails
<1> QED BY <1>1, <1>2, <1>3, <1>4, <1>5, <1>7, <1>8, <1>10, <1>14 DEF Next, Ending

(* HolderInv, the holder's half of the inductive invariant.                                *)
LEMMA HolderInvariant == Spec => []HolderInv
<1>1. Init => HolderInv
    BY DEF Init, HolderInv, HolderOk, Present, NoScope
<1>2. TypeOK /\ HolderInv /\ [Next]_vars => HolderInv'
    BY HolderStep
<1> QED BY <1>1, <1>2, TypeCorrect, PTL DEF Spec

(* QuarantineIsHeld: no renewal in flight, pruning, reconciliation or release ever takes    *)
(* the rows of a quarantined run away or gives them an expiry.                              *)
THEOREM QuarantineIsHeld == Spec => []QuarantineHeld
<1>1. HolderInv => QuarantineHeld
    BY DEF HolderInv, HolderOk, QuarantineHeld
<1> QED BY <1>1, HolderInvariant, PTL

(* ValidationIsExclusive: while a finalizer validates the checkout its exclusive row is in  *)
(* the table, and every other row belongs to a quarantined run.                             *)
THEOREM ValidationIsExclusive == Spec => []ValidationExclusive
<1>1. TypeOK /\ HolderInv /\ TableExclusion => ValidationExclusive
    <2> SUFFICES ASSUME TypeOK, HolderInv, TableExclusion,
                        NEW r \in Run, NEW s \in Run, phase[r] = "validating"
                 PROVE  Protected(r) /\ (s # r /\ Present(s) => status[s] = "quarantined")
        BY DEF ValidationExclusive
    <2>1. Protected(r) /\ Present(r) /\ scope[r].paths = req[r].paths /\ req[r].kind = "finalizer"
        BY DEF HolderInv, HolderOk, Protected, Quarantined
    <2>2. req[r].paths = {Repo}
        <3>1. req[r] \in Request
            BY <2>1 DEF TypeOK, NoRequest
        <3> QED BY <2>1, <3>1, RequestAssumption DEF WellFormed
    <2>3. ASSUME s # r, Present(s), status[s] # "quarantined"
          PROVE  FALSE
        <3>1. Overlaps(scope[r].paths, scope[s].paths)
            <4>1. scope[s].paths \in SUBSET Path /\ scope[s].paths # {}
                BY <2>3 DEF Present, TypeOK, Scope
            <4> QED BY <2>1, <2>2, <4>1, RepoOverlaps
        <3>2. Conflict(scope[r], scope[s])
            BY <2>1, <3>1 DEF Conflict, Protected
        <3> QED BY <2>1, <2>3, <3>2 DEF TableExclusion, Protected
    <2> QED BY <2>1, <2>3
<1> QED BY <1>1, TypeCorrect, HolderInvariant, Exclusion, PTL

(* QuarantineEndsOnlyProven: a run leaves quarantine only when none of its recorded         *)
(* processes is left, and its rows leave the table in the same step.                        *)
THEOREM QuarantineEndsOnlyProven == Spec => QuarantineEndsProven
<1> DEFINE A == \A r \in Run : status[r] = "quarantined" /\ status'[r] # "quarantined" =>
                    ~tree[r] /\ ~Present(r)'
<1>1. TypeOK /\ HolderInv /\ [Next]_vars => [A]_vars
    <2> SUFFICES ASSUME TypeOK, HolderInv, Next, NEW s \in Run, status[s] = "quarantined",
                        status'[s] # "quarantined"
                 PROVE  ~tree[s] /\ ~Present(s)'
        OBVIOUS
    <2> USE DEF tables, memory
    <2>0. phase[s] = "done" /\ exp[s] = Forever
        BY DEF HolderInv, HolderOk
    <2>1. ASSUME NEW r \in Run, Reclaim(r)
          PROVE  ~tree[s] /\ ~Present(s)'
        BY <2>1 DEF Reclaim, TypeOK, Present, NoScope
    <2>2. ASSUME NEW r \in Run, NEW st, s # r \/ st = "quarantined", status' = StatusAfter(r, st)
          PROVE  FALSE
        BY <2>2 DEF StatusAfter
    <2>3. ASSUME NEW r \in Run, NEW q \in Request, Acquire(r, q) \/ AcquireCommitError(r, q)
          PROVE  FALSE
        BY <2>0, <2>2, <2>3 DEF Acquire, AcquireCommitError, Grantable, Grant
    <2>4. ASSUME NEW r \in Run, Release(r) \/ Protect(r) \/ ProtectUnconfirmed(r)
          PROVE  FALSE
        BY <2>0, <2>2, <2>4 DEF Release, Protect, ProtectUnconfirmed, ProtectRows
    <2>5. ASSUME NEW r \in Run, CleanupExpired(r)
          PROVE  FALSE
        BY <2>2, <2>5 DEF CleanupExpired
    <2>6. ASSUME NEW r \in Run, Restore(r) \/ RestoreFails(r)
          PROVE  FALSE
        BY <2>6 DEF Restore, RestoreFails, RestoreRows
    <2>7. ASSUME NEW r \in Run, NEW e \in {"incomplete", "complete"},
                 Quarantine(r, e) \/ QuarantineProtected(r, e)
          PROVE  FALSE
        BY <2>7 DEF Quarantine, QuarantineProtected, TypeOK
    <2>8. ASSUME NEW r \in Run, ReconcileReleases(r)
          PROVE  FALSE
        BY <2>0, <2>8 DEF ReconcileReleases, TypeOK
    <2>9. CASE Tick
        BY <2>9 DEF Tick
    <2> QED BY <2>1, <2>3, <2>4, <2>5, <2>6, <2>7, <2>8, <2>9, QuietSteps DEF Next, Ending,
               Finalizing
<1> QED BY <1>1, TypeCorrect, HolderInvariant, PTL DEF Spec, QuarantineEndsProven

-----------------------------------------------------------------------------
(* The integration journal.                                                                 *)

(* Every step keeps foreign checkout writers out while an operation is unresolved.         *)
LEMMA JournalStep ==
    ASSUME TypeOK, HolderInv, TableExclusion, JournalExcludesWriters, [Next]_vars
    PROVE  JournalExcludesWriters'
<1> USE DEF tables, memory
<1> SUFFICES ASSUME NEW s \in Run, journal' # {}, Present(s)', scope'[s].mode # "read",
                    status'[s] # "quarantined"
             PROVE  journal' = {s} \/ req'[s].kind = "recovery" \/ WorktreeWriter(scope'[s])
    BY DEF JournalExcludesWriters
<1> DEFINE Excused == journal' = {s} \/ req'[s].kind = "recovery" \/ WorktreeWriter(scope'[s])
<1>1. ASSUME UNCHANGED <<req, journal>>, scope'[s] = scope[s],
             status[s] # "quarantined"
      PROVE  Excused
    BY <1>1 DEF JournalExcludesWriters, Present
<1>2. ASSUME NEW r \in Run, NEW own, NEW st, scope' = ScopesAfter(r, own),
             status' = StatusAfter(r, st), s # r, req'[s] = req[s], UNCHANGED journal
      PROVE  Excused
    <2>1. Present(s) /\ scope'[s] = scope[s]
        BY <1>2 DEF ScopesAfter, Present, NoScope
    <2>2. status[s] # "quarantined"
        BY <1>2 DEF StatusAfter
    <2> QED BY <1>2, <2>1, <2>2 DEF JournalExcludesWriters
<1>3. ASSUME NEW r \in Run, NEW q \in Request, Acquire(r, q) \/ AcquireCommitError(r, q)
      PROVE  Excused
    <2>1. CASE s # r
        BY <1>3, <2>1, <1>2 DEF Acquire, AcquireCommitError, Grant, TypeOK
    <2>2. CASE s = r
        <3>1. scope'[s] \in {NoScope, ScopeOf(q)} /\ req'[s] = q /\ journal' = journal
            BY <1>3, <2>2 DEF Acquire, AcquireCommitError, Grant, ScopesAfter, TypeOK
        <3>2. q.mode # "read"
            BY <3>1 DEF ScopeOf, NoScope, Present
        <3> QED BY <1>3, <3>1, <3>2 DEF Acquire, AcquireCommitError, Grantable, WaitsForJournal
    <2> QED BY <2>1, <2>2
<1>4. ASSUME NEW r \in Run, CleanupExpired(r) \/ Release(r)
      PROVE  Excused
    <2>1. scope'[r].paths = {}
        BY <1>4 DEF CleanupExpired, Release, ScopesAfter, NoScope
    <2>2. s # r
        BY <2>1 DEF Present
    <2> QED BY <1>4, <2>2, <1>2 DEF CleanupExpired, Release
<1>5. ASSUME NEW r \in Run, NEW e \in {"incomplete", "complete"},
             Quarantine(r, e) \/ QuarantineProtected(r, e)
      PROVE  Excused
    <2>1. s # r /\ scope'[s] = scope[s] /\ status'[s] = status[s]
        BY <1>5 DEF Quarantine, QuarantineProtected, TypeOK
    <2> QED BY <1>5, <2>1, <1>1 DEF Quarantine, QuarantineProtected
<1>6. ASSUME NEW r \in Run, Reclaim(r) \/ ReconcileReleases(r)
      PROVE  Excused
    <2>1. s # r /\ scope'[s] = scope[s] /\ status'[s] = status[s]
        BY <1>6 DEF Reclaim, ReconcileReleases, TypeOK, Present, NoScope
    <2> QED BY <1>6, <2>1, <1>1 DEF Reclaim, ReconcileReleases
<1>7. ASSUME NEW r \in Run, Protectable(r), ProtectRows(r), UNCHANGED journal
      PROVE  FALSE
    BY <1>7 DEF Protectable
<1>8. ASSUME NEW r \in Run, RestoreRows(r), UNCHANGED <<req, journal>>
      PROVE  Excused
    <2>1. s # r /\ scope'[s] = scope[s] /\ status'[s] = status[s]
        BY <1>8 DEF RestoreRows, TypeOK
    <2> QED BY <1>8, <2>1, <1>1
<1>9. ASSUME NEW r \in Run, Live(r), Serial(scope[r]), status[r] # "quarantined",
             UNCHANGED <<scope, status, req>>, s # r
      PROVE  Excused
    <2>1. ~Conflict(scope[r], scope[s])
        BY <1>9 DEF TableExclusion, Present, Live
    <2>2. WorktreeWriter(scope[s])
        BY <1>9, <2>1 DEF Conflict, Serial, WorktreeWriter
    <2> QED BY <1>9, <2>2
<1>10. ASSUME NEW r \in Run, OpenOperation(r)
       PROVE  Excused
    <2>1. Live(r) /\ Serial(scope[r]) /\ status[r] # "quarantined" /\ UNCHANGED <<scope, status, req>>
        BY <1>10 DEF OpenOperation, Owned, Serial, HolderInv, HolderOk
    <2>2. CASE s # r
        BY <2>1, <2>2, <1>9
    <2>3. CASE s = r
        <3>1. journal = {} \/ journal = {r} \/ WorktreeWriter(scope[r])
            BY <1>10, <2>1, <2>3 DEF OpenOperation, JournalExcludesWriters, Serial, Live
        <3> QED BY <1>10, <2>1, <2>3, <3>1 DEF OpenOperation
    <2> QED BY <2>2, <2>3
<1>11. ASSUME NEW r \in Run, CloseOperation(r)
       PROVE  Excused
    <2>1. Live(r) /\ Serial(scope[r]) /\ status[r] # "quarantined" /\ UNCHANGED <<scope, status, req>>
        BY <1>11 DEF CloseOperation, Owned, Serial, HolderInv, HolderOk
    <2>2. CASE s # r
        BY <2>1, <2>2, <1>9
    <2>3. CASE s = r
        <3>1. journal = {r} \/ req[r].kind = "recovery" \/ WorktreeWriter(scope[r])
            BY <1>11, <2>1, <2>3 DEF CloseOperation, JournalExcludesWriters, Serial, Live
        <3> QED BY <1>11, <2>1, <2>3, <3>1 DEF CloseOperation
    <2> QED BY <2>2, <2>3
<1>12. ASSUME NEW r \in Run, ProtectUnconfirmed(r) \/ RestoreFails(r) \/ Protect(r) \/ Restore(r)
       PROVE  Excused
    BY <1>12, <1>1, <1>7, <1>8 DEF ProtectUnconfirmed, RestoreFails, Protect, Restore
<1>13. CASE Tick \/ UNCHANGED vars
    BY <1>13, <1>1 DEF Tick, vars
<1>14. ASSUME NEW r \in Run,
           \/ Heartbeat(r) \/ Signal(r) \/ Launch(r) \/ TreeExits(r) \/ Crash(r) \/ Drain(r)
           \/ Finish(r) \/ FinishUnconfirmed(r) \/ ReleaseFails(r) \/ QuarantineFails(r)
           \/ ProtectRefused(r) \/ QuarantineProtectedFails(r)
       PROVE  Excused
    <2>1. UNCHANGED <<scope, status, req>>
        BY <1>14, QuietSteps
    <2>2. UNCHANGED journal
        BY <1>14 DEF Heartbeat, PulseBegin, PulseTooLate, PulseRenews, PulseRefused, PulseFails,
           Fence, Signal, Launch, TreeExits, Crash, Drain, Finish, FinishUnconfirmed, ReleaseFails,
           QuarantineFails, ProtectRefused, QuarantineProtectedFails, Leave
    <2> QED BY <2>1, <2>2, <1>1
<1> QED BY <1>3, <1>4, <1>5, <1>6, <1>10, <1>11, <1>12, <1>13, <1>14 DEF Next, Ending, Finalizing

(* JournalBlocksWriters: while the journal holds an unresolved operation, crashed or not,   *)
(* no writer of the checkout but recovery and the operation's own integration has a row.    *)
THEOREM JournalBlocksWriters == Spec => []JournalExcludesWriters
<1>1. Init => JournalExcludesWriters
    BY DEF Init, JournalExcludesWriters
<1>2. TypeOK /\ HolderInv /\ TableExclusion /\ JournalExcludesWriters /\ [Next]_vars
        => JournalExcludesWriters'
    BY JournalStep
<1> QED BY <1>1, <1>2, TypeCorrect, HolderInvariant, Exclusion, PTL DEF Spec

-----------------------------------------------------------------------------
(* The fence: with timely timers, working implies owning.                                   *)

(* A transaction that prunes takes nothing from a holder that goes on working.              *)
LEMMA OtherFence ==
    ASSUME TypeOK, NEW r \in Run, NEW own, NEW st, NEW s \in Run, s # r, FenceOk(s),
           scope' = ScopesAfter(r, own), status' = StatusAfter(r, st), now' = now,
           exp'[s] = exp[s], phase'[s] = phase[s], req'[s] = req[s], stop'[s] = stop[s],
           confirmed'[s] = confirmed[s], pulse'[s] = pulse[s]
    PROVE  FenceOk(s)'
<1>1. ~Expired(s) => scope'[s] = scope[s] /\ status'[s] = status[s]
    BY DEF ScopesAfter, StatusAfter
<1>2. Heartbeating(s) /\ stop[s] = "none" => ~Expired(s)
    BY DEF FenceOk, Expired, TypeOK
<1>3. Heartbeating(s)' <=> Heartbeating(s)
    BY DEF Heartbeating
<1> QED BY <1>1, <1>2, <1>3 DEF FenceOk, Present

(* Every step of Next keeps each working holder's confirmed lease ahead of the clock.      *)
LEMMA FenceStep ==
    ASSUME TypeOK, HolderInv, FenceInv, [Next]_vars
    PROVE  FenceInv'
<1> USE TimeAssumption DEF tables, memory
<1> SUFFICES ASSUME Timely, NEW s \in Run
             PROVE  FenceOk(s)'
    BY DEF FenceInv
<1>0. FenceOk(s) /\ HolderOk(s)
    BY DEF FenceInv, HolderInv
<1>1. ASSUME UNCHANGED <<now, scope, exp, status, phase, req, stop, confirmed, pulse>>
      PROVE  FenceOk(s)'
    BY <1>1, <1>0 DEF FenceOk, Heartbeating, Present
<1>2. CASE Tick
    <2>1. Heartbeating(s) /\ stop[s] = "none" => now + 1 < confirmed[s]
        BY <1>2, <1>0 DEF Tick, FenceDue, PastGuard, FenceOk, TypeOK
    <2> QED BY <1>2, <1>0, <2>1 DEF Tick, FenceOk, Heartbeating, Present, TypeOK
<1>3. ASSUME NEW r \in Run, NEW q \in Request, Acquire(r, q) \/ AcquireCommitError(r, q)
      PROVE  FenceOk(s)'
    <2>1. CASE s # r
        <3>1. PICK own, st : scope' = ScopesAfter(r, own) /\ status' = StatusAfter(r, st)
            BY <1>3 DEF Acquire, AcquireCommitError, Grant
        <3>2. /\ exp'[s] = exp[s] /\ phase'[s] = phase[s] /\ req'[s] = req[s]
              /\ stop'[s] = stop[s] /\ confirmed'[s] = confirmed[s] /\ pulse'[s] = pulse[s]
              /\ now' = now
            BY <1>3, <2>1 DEF Acquire, AcquireCommitError, Grant, TypeOK
        <3> QED BY <2>1, <3>1, <3>2, <1>0, OtherFence
    <2>2. CASE s = r /\ Acquire(r, q)
        <3>1. ScopeOf(q).paths # {}
            BY RequestAssumption DEF WellFormed, ScopeOf
        <3>2. /\ scope'[r] = ScopeOf(q) /\ status'[r] = "running" /\ exp'[r] = now + Ttl
              /\ confirmed'[r] = now + Ttl /\ phase'[r] = "active" /\ now' = now
              /\ pulse'[r] = NoPulse /\ now + Ttl <= MaxTime
            BY <2>2, <1>0 DEF Acquire, Grantable, Grant, ScopesAfter, StatusAfter, TypeOK, FenceOk
        <3> QED BY <2>2, <3>1, <3>2 DEF FenceOk, Present, TypeOK
    <2>3. CASE s = r /\ AcquireCommitError(r, q)
        BY <2>3 DEF AcquireCommitError, FenceOk, Heartbeating, TypeOK
    <2> QED BY <1>3, <2>1, <2>2, <2>3
<1>4. ASSUME NEW r \in Run, CleanupExpired(r) \/ Release(r)
      PROVE  FenceOk(s)'
    <2>1. CASE s # r
        <3>1. PICK own, st : scope' = ScopesAfter(r, own) /\ status' = StatusAfter(r, st)
            BY <1>4 DEF CleanupExpired, Release
        <3>2. /\ exp'[s] = exp[s] /\ phase'[s] = phase[s] /\ req'[s] = req[s]
              /\ stop'[s] = stop[s] /\ confirmed'[s] = confirmed[s] /\ pulse'[s] = pulse[s]
              /\ now' = now
            BY <1>4, <2>1 DEF CleanupExpired, Release, TypeOK
        <3> QED BY <2>1, <3>1, <3>2, <1>0, OtherFence
    <2>2. CASE s = r /\ CleanupExpired(r)
        <3>1. ~(Heartbeating(s) /\ stop[s] = "none")
            BY <2>2, <1>0 DEF CleanupExpired, Expired, FenceOk, TypeOK
        <3> QED BY <2>2, <3>1, <1>0 DEF CleanupExpired, FenceOk, Heartbeating
    <2>3. CASE s = r /\ Release(r)
        BY <2>3 DEF Release, FenceOk, Heartbeating, TypeOK
    <2> QED BY <1>4, <2>1, <2>2, <2>3
<1>5. ASSUME NEW r \in Run, PulseBegin(r)
      PROVE  FenceOk(s)'
    BY <1>5, <1>0 DEF PulseBegin, FenceOk, Heartbeating, Present, TypeOK
<1>6. ASSUME NEW r \in Run, PulseRenews(r)
      PROVE  FenceOk(s)'
    BY <1>6, <1>0 DEF PulseRenews, FenceOk, Heartbeating, Present, TypeOK
<1>7. ASSUME NEW r \in Run, PulseRefused(r)
      PROVE  FenceOk(s)'
    <2>1. CASE s # r
        BY <1>7, <1>0, <2>1 DEF PulseRefused, FenceOk, Heartbeating, Present, TypeOK
    <2>2. CASE s = r
        <3>1. stop[r] # "none"
            BY <1>7, <1>0, <2>2 DEF PulseRefused, Renewable, FenceOk, TypeOK
        <3> QED BY <1>7, <1>0, <2>2, <3>1 DEF PulseRefused, FenceOk, Heartbeating, TypeOK
    <2> QED BY <2>1, <2>2
<1>8. ASSUME NEW r \in Run, PulseFails(r)
      PROVE  FenceOk(s)'
    BY <1>8, <1>0 DEF PulseFails, FenceOk, Heartbeating, Present, TypeOK
<1>9. ASSUME NEW r \in Run, Fence(r) \/ PulseTooLate(r) \/ Signal(r)
      PROVE  FenceOk(s)'
    BY <1>9, <1>0 DEF Fence, FenceDue, PulseTooLate, Signal, FenceOk, Heartbeating, Present, TypeOK
<1>10. ASSUME NEW r \in Run, NEW to \in Phase \ {"active", "idle"}, Leave(r, to)
       PROVE  FenceOk(s)'
    BY <1>10, <1>0 DEF Leave, FenceOk, Heartbeating, Present, TypeOK
<1>11. ASSUME NEW r \in Run,
             \/ Finish(r) \/ FinishUnconfirmed(r) \/ ReleaseFails(r) \/ QuarantineFails(r)
             \/ Crash(r) \/ Drain(r) \/ ProtectRefused(r) \/ QuarantineProtectedFails(r)
       PROVE  FenceOk(s)'
    BY <1>11, <1>10 DEF Finish, FinishUnconfirmed, ReleaseFails, QuarantineFails, Crash, Drain,
       ProtectRefused, QuarantineProtectedFails, Phase
<1>12. ASSUME NEW r \in Run, NEW e \in {"incomplete", "complete"},
              Quarantine(r, e) \/ QuarantineProtected(r, e)
       PROVE  FenceOk(s)'
    BY <1>12, <1>0 DEF Quarantine, QuarantineProtected, FenceOk, Heartbeating, Present, TypeOK
<1>13. ASSUME NEW r \in Run, Reclaim(r)
       PROVE  FenceOk(s)'
    <2>1. s = r => ~(Heartbeating(s) /\ stop[s] = "none")
        BY <1>13, <1>0 DEF Reclaim, Quarantined, FenceOk, TypeOK
    <2> QED BY <1>13, <1>0, <2>1 DEF Reclaim, FenceOk, Heartbeating, Present, TypeOK
<1>14. ASSUME NEW r \in Run, ReconcileReleases(r)
       PROVE  FenceOk(s)'
    BY <1>14, <1>0 DEF ReconcileReleases, FenceOk, Heartbeating, Present, TypeOK
<1>15. ASSUME NEW r \in Run, Protect(r) \/ ProtectUnconfirmed(r)
       PROVE  FenceOk(s)'
    <2>1. CASE ProtectRows(r) /\ s # r
        <3>1. PICK own, st : scope' = ScopesAfter(r, own) /\ status' = StatusAfter(r, st)
            BY <2>1 DEF ProtectRows
        <3>2. /\ exp'[s] = exp[s] /\ phase'[s] = phase[s] /\ req'[s] = req[s]
              /\ stop'[s] = stop[s] /\ confirmed'[s] = confirmed[s] /\ pulse'[s] = pulse[s]
              /\ now' = now
            BY <1>15, <2>1 DEF Protect, ProtectUnconfirmed, ProtectRows, TypeOK
        <3> QED BY <2>1, <3>1, <3>2, <1>0, OtherFence
    <2>2. CASE s = r
        <3>1. phase'[s] \in {"validating", "done"} /\ pulse'[s] = NoPulse
            BY <1>15, <1>0, <2>2 DEF Protect, ProtectUnconfirmed, FenceOk, TypeOK
        <3> QED BY <3>1 DEF FenceOk, Heartbeating
    <2>3. CASE UNCHANGED tables /\ s # r
        BY <1>15, <1>0, <2>3 DEF Protect, ProtectUnconfirmed, FenceOk, Heartbeating, Present, TypeOK
    <2> QED BY <1>15, <2>1, <2>2, <2>3 DEF Protect, ProtectUnconfirmed
<1>16. ASSUME NEW r \in Run, Restore(r)
       PROVE  FenceOk(s)'
    <2>1. CASE s # r
        BY <1>16, <1>0, <2>1 DEF Restore, RestoreRows, FenceOk, Heartbeating, Present, TypeOK
    <2>2. CASE s = r
        <3>1. /\ scope'[r].paths = scope[r].paths /\ exp'[r] = now + Ttl /\ status'[r] = status[r]
              /\ confirmed'[r] = now + Ttl /\ phase'[r] = "active" /\ now' = now
              /\ pulse'[r] = pulse[r] /\ stop'[r] = stop[r] /\ now + Ttl <= MaxTime
            BY <1>16 DEF Restore, RestoreRows, TypeOK
        <3>2. Present(r) /\ status[r] = "running" /\ pulse[r] = NoPulse
            BY <1>16, <1>0, <2>2 DEF Restore, RestoreRows, Protected, Quarantined, FenceOk
        <3> QED BY <2>2, <3>1, <3>2 DEF FenceOk, Present, TypeOK
    <2> QED BY <2>1, <2>2
<1>17. ASSUME NEW r \in Run, RestoreFails(r)
       PROVE  FenceOk(s)'
    <2>1. CASE s # r
        BY <1>17, <1>0, <2>1 DEF RestoreFails, RestoreRows, FenceOk, Heartbeating, Present, TypeOK
    <2>2. CASE s = r
        BY <1>17, <2>2 DEF RestoreFails, FenceOk, Heartbeating, TypeOK
    <2> QED BY <2>1, <2>2
<1>18. ASSUME NEW r \in Run, Launch(r) \/ TreeExits(r) \/ OpenOperation(r) \/ CloseOperation(r)
       PROVE  FenceOk(s)'
    BY <1>18, <1>1 DEF Launch, TreeExits, OpenOperation, CloseOperation
<1>19. CASE UNCHANGED vars
    BY <1>19, <1>1 DEF vars
<1> QED BY <1>2, <1>3, <1>4, <1>5, <1>6, <1>7, <1>8, <1>9, <1>11, <1>12, <1>13, <1>14, <1>15, <1>16,
           <1>17, <1>18, <1>19 DEF Next, Heartbeat, Ending, Finalizing

(* FenceInv, the lease arithmetic of the inductive invariant.                              *)
LEMMA FenceInvariant == Spec => []FenceInv
<1>1. Init => FenceInv
    BY DEF Init, FenceInv, FenceOk, Heartbeating
<1>2. TypeOK /\ HolderInv /\ FenceInv /\ [Next]_vars => FenceInv'
    BY FenceStep
<1> QED BY <1>1, <1>2, TypeCorrect, HolderInvariant, PTL DEF Spec

(* WorkingImpliesOwning: if timers fire on time, a holder that goes on working has an       *)
(* unexpired row over all it asked for, whichever renewals failed.                          *)
THEOREM WorkingImpliesOwning == Spec => []BelieverOwns
<1>1. TypeOK /\ HolderInv /\ FenceInv => BelieverOwns
    <2> SUFFICES ASSUME TypeOK, HolderInv, FenceInv, Timely, NEW r \in Run, Believes(r)
                 PROVE  /\ Live(r) /\ status[r] = "running"
                        /\ scope[r].paths = Claim(r).paths
                        /\ scope[r].mode = Claim(r).mode /\ scope[r].edits = Claim(r).edits
        BY DEF BelieverOwns
    <2>1. HolderOk(r) /\ FenceOk(r)
        BY DEF HolderInv, FenceInv
    <2>2. Live(r) /\ status[r] = "running" /\ scope[r].paths = req[r].paths
        BY <2>1, TimeAssumption DEF TypeOK, HolderOk, FenceOk, Believes, Protected, Quarantined,
           Live, Expired, Present
    <2>3. CASE phase[r] = "validating"
        BY <2>1, <2>2, <2>3 DEF HolderOk, Protected, Claim, TypeOK, Scope
    <2>4. CASE phase[r] # "validating"
        BY <2>1, <2>2, <2>4 DEF HolderOk, Claim, ScopeOf, Believes, Heartbeating, Live
    <2> QED BY <2>2, <2>3, <2>4
<1> QED BY <1>1, TypeCorrect, HolderInvariant, FenceInvariant, PTL

(* HoldersExclude: if timers fire on time, two holders that both go on working never        *)
(* conflict.                                                                                *)
THEOREM HoldersExclude == Spec => []FencedExclusion
<1>1. BelieverOwns /\ TableExclusion => FencedExclusion
    <2> SUFFICES ASSUME BelieverOwns, TableExclusion, Timely, NEW r \in Run, NEW s \in Run,
                        r # s, Believes(r), Believes(s)
                 PROVE  ~Conflict(Claim(r), Claim(s))
        BY DEF FencedExclusion
    <2>1. ~Conflict(scope[r], scope[s])
        BY DEF BelieverOwns, TableExclusion, Live
    <2>2. ASSUME NEW t \in Run, Believes(t)
          PROVE  /\ scope[t].paths = Claim(t).paths
                 /\ scope[t].mode = Claim(t).mode /\ scope[t].edits = Claim(t).edits
        BY <2>2 DEF BelieverOwns
    <2> QED BY <2>1, <2>2 DEF Conflict, Serial, WorktreeWriter
<1> QED BY <1>1, WorkingImpliesOwning, Exclusion, PTL

=============================================================================
