---------------------- MODULE IntegrationJournalProofs ----------------------
(* Machine-checked proofs about IntegrationJournal, for every set of       *)
(* processes, operations, files and patches, with or without timely        *)
(* leases, and whichever events the environment produces. The inductive    *)
(* invariant IInv has three typing parts (ProcOk, RowOk, ContentOk), the   *)
(* part that keeps the journal to one open row (JournalInv) and the part   *)
(* that keeps user edits (EditInv). Each part has one lemma that every     *)
(* step preserves it, with one proof step per action. WholeInv strengthens *)
(* it for timely leases: what the holder of the lock compared still holds  *)
(* while nobody else writes, which is why the checkout is whole.           *)
EXTENDS IntegrationJournal, TLAPS

USE JournalAssumption
USE DEF journal, rows, local, ghost

Label == {"idle", "pass", "judge", "restore", "snapshot", "prepare",
          "apply", "check", "write", "applied", "validate", "accept",
          "commit", "undo", "unroll", "finally", "release"}

(* Where a process has a journal row in hand.                              *)
Working == {"judge", "restore", "apply", "check", "write", "applied", "validate",
            "accept", "commit", "undo", "unroll", "finally"}

(* The state of the processes: its type, and that a process that works on  *)
(* a row has one.                                                          *)
ProcOk ==
    /\ lock \in Proc \cup {NoProc}
    /\ pc \in [Proc -> Label]
    /\ goal \in [Proc -> {"none", "integrate", "own", "recover", "verify", "accept"}]
    /\ cur \in [Proc -> Oper \cup {NoOper}]
    /\ todo \in [Proc -> SUBSET File]
    /\ aborted \in [Proc -> BOOLEAN] /\ blocked \in [Proc -> BOOLEAN]
    /\ \A p \in Proc : pc[p] \in Working => cur[p] \in Oper

(* The type of the journal's columns and of the two Boolean histories.     *)
RowOk ==
    /\ ost \in [Oper -> Status]
    /\ own \in [Oper -> Proc \cup {NoProc}]
    /\ why \in [Oper -> Reason]
    /\ unconf \in [Oper -> BOOLEAN] /\ user \in BOOLEAN

(* A process that goes on to another place stays well formed.              *)
LEMMA GoesOn ==
    ASSUME ProcOk, NEW p \in Proc, NEW l \in Label, l \in Working => cur[p] \in Oper,
           Goto(p, l), UNCHANGED <<lock, aborted, blocked>>
    PROVE  ProcOk'
BY DEF ProcOk, Goto, Working

(* So does one that plans to write files.                                  *)
LEMMA GoesWriting ==
    ASSUME ProcOk, NEW p \in Proc, NEW l \in Label, l \in Working => cur[p] \in Oper,
           NEW fs \in SUBSET File,
           GotoWriting(p, l, fs), UNCHANGED <<lock, aborted, blocked>>
    PROVE  ProcOk'
BY DEF ProcOk, GotoWriting, Working

(* So does one whose recovery pass ends.                                   *)
LEMMA PassEnds ==
    ASSUME ProcOk, NEW p \in Proc, NEW ok \in BOOLEAN,
           EndPass(p, ok), UNCHANGED <<lock, aborted>>
    PROVE  ProcOk'
<1>1. /\ pc' = [pc EXCEPT ![p] = "release"] /\ todo' = [todo EXCEPT ![p] = {}]
      /\ UNCHANGED <<goal, cur, lock, aborted>>
  BY DEF EndPass, GotoWriting
<1>2. UNCHANGED blocked \/ blocked' = [blocked EXCEPT ![p] = ~ok]
  BY DEF EndPass
<1>3. blocked' \in [Proc -> BOOLEAN]
  BY <1>2 DEF ProcOk
<1> QED BY <1>1, <1>3 DEF ProcOk, Label, Working

(* Every step keeps the process state well formed.                         *)
LEMMA ProcStep ==
    ASSUME ProcOk, [Next]_vars
    PROVE  ProcOk'
<1>1. ASSUME NEW p \in Proc, AcquireIntegration(p)
      PROVE  ProcOk'
  BY <1>1 DEF AcquireIntegration, Unresolved, ProcOk, Label, Working
<1>2. ASSUME NEW p \in Proc, Release(p)
      PROVE  ProcOk'
  BY <1>2 DEF Release, ProcOk, Label, Working
<1>3. ASSUME NEW p \in Proc, PassNothing(p)
      PROVE  ProcOk'
  <2>1. {"snapshot", "release"} \subseteq Label \ Working
    BY DEF Label, Working
  <2> QED BY <1>3, <2>1, GoesOn, PassEnds DEF PassNothing
<1>4. ASSUME NEW p \in Proc, EvidenceLost(p)
      PROVE  ProcOk'
  BY <1>4, PassEnds DEF EvidenceLost, Quarantine
<1>5. ASSUME NEW p \in Proc, Judge(p)
      PROVE  ProcOk'
  <2>1. cur[p] \in Oper /\ AtPost(cur[p]) \in SUBSET File
    BY <1>5 DEF Judge, AtPost, ProcOk, Working
  <2>2. "pass" \in Label /\ "restore" \in Label
    BY DEF Label
  <2>3. ASSUME NEW w, Quarantine(p, w) PROVE ProcOk'
    BY <2>3, <1>5, PassEnds DEF Judge, Quarantine
  <2>4. ASSUME EndPass(p, FALSE) PROVE ProcOk'
    BY <2>4, <1>5, PassEnds DEF Judge
  <2>5. ASSUME Goto(p, "pass"), UNCHANGED blocked PROVE ProcOk'
    BY <2>1, <2>2, <2>5, <1>5, GoesOn DEF Judge
  <2>6. ASSUME GotoWriting(p, "restore", AtPost(cur[p])),
        UNCHANGED blocked PROVE ProcOk'
    BY <2>1, <2>2, <2>6, <1>5, GoesWriting DEF Judge
  <2> QED BY <2>3, <2>4, <2>5, <2>6, <1>5 DEF Judge
<1>6. ASSUME NEW p \in Proc, RestoreFailed(p)
      PROVE  ProcOk'
  BY <1>6, PassEnds DEF RestoreFailed, Quarantine
<1>7. ASSUME NEW p \in Proc, VerifyRestore(p)
      PROVE  ProcOk'
  <2>1. cur[p] \in Oper /\ "pass" \in Label
    BY <1>7 DEF VerifyRestore, ProcOk, Working, Label
  <2>2. ASSUME NEW w, Quarantine(p, w) PROVE ProcOk'
    BY <2>2, <1>7, PassEnds DEF VerifyRestore, Quarantine
  <2>3. ASSUME EndPass(p, FALSE) PROVE ProcOk'
    BY <2>3, <1>7, PassEnds DEF VerifyRestore
  <2>4. ASSUME Goto(p, "pass"), UNCHANGED blocked PROVE ProcOk'
    BY <2>1, <2>4, <1>7, GoesOn DEF VerifyRestore
  <2> QED BY <2>2, <2>3, <2>4, <1>7 DEF VerifyRestore
<1>9. ASSUME NEW p \in Proc, Snapshot(p)
      PROVE  ProcOk'
  BY <1>9 DEF Snapshot, Goto, ProcOk, Label, Working
<1>10. ASSUME NEW p \in Proc, PrepareRefused(p)
      PROVE  ProcOk'
  BY <1>10 DEF PrepareRefused, Goto, ProcOk, Label, Working
<1>11. ASSUME NEW p \in Proc, OwnershipLost(p)
      PROVE  ProcOk'
  BY <1>11 DEF OwnershipLost, GotoWriting, ProcOk, Label, Working
<1>12. ASSUME NEW p \in Proc, StartApply(p)
      PROVE  ProcOk'
  BY <1>12 DEF StartApply, Goto, ProcOk, Label, Working
<1>13. ASSUME NEW p \in Proc, CheckTarget(p)
      PROVE  ProcOk'
  BY <1>13 DEF CheckTarget, Goto, GotoWriting, ProcOk, Label, Working
<1>14. ASSUME NEW p \in Proc, WriteFailed(p)
      PROVE  ProcOk'
  BY <1>14 DEF WriteFailed, GotoWriting, ProcOk, Label, Working
<1>15. ASSUME NEW p \in Proc, VerifyApplied(p)
      PROVE  ProcOk'
  BY <1>15 DEF VerifyApplied, Goto, Advance, ProcOk, Label, Working
<1>16. ASSUME NEW p \in Proc, StartValidation(p)
      PROVE  ProcOk'
  BY <1>16 DEF StartValidation, Goto, Advance, ProcOk, Label, Working
<1>17. ASSUME NEW p \in Proc, ValidationUnconfirmed(p)
      PROVE  ProcOk'
  BY <1>17 DEF ValidationUnconfirmed, Goto, ProcOk, Label, Working
<1>18. ASSUME NEW p \in Proc, ValidationEnded(p)
      PROVE  ProcOk'
  BY <1>18 DEF ValidationEnded, Goto, ProcOk, Label, Working
<1>19. ASSUME NEW p \in Proc, Accept(p)
      PROVE  ProcOk'
  BY <1>19 DEF Accept, Goto, Advance, ProcOk, Label, Working
<1>20. ASSUME NEW p \in Proc, Commit(p)
      PROVE  ProcOk'
  BY <1>20 DEF Commit, Goto, Advance, ProcOk, Label, Working
<1>21. ASSUME NEW p \in Proc, Undo(p)
      PROVE  ProcOk'
  BY <1>21 DEF Undo, GotoWriting, ProcOk, Label, Working
<1>22. ASSUME NEW p \in Proc, UnrollEnd(p)
      PROVE  ProcOk'
  BY <1>22 DEF UnrollEnd, Goto, GotoWriting, ProcOk, Label, Working
<1>23. ASSUME NEW p \in Proc, Finally(p)
      PROVE  ProcOk'
  BY <1>23 DEF Finally, Goto, ProcOk, Label, Working
<1>24. ASSUME NEW p \in Proc, Unblock(p)
      PROVE  ProcOk'
  BY <1>24 DEF Unblock, Unresolved, ProcOk, Label, Working
<1>25. ASSUME NEW p \in Proc, Abort(p)
      PROVE  ProcOk'
  BY <1>25 DEF Abort, ProcOk, Label, Working
<1>26. ASSUME NEW p \in Proc, Lapse(p)
      PROVE  ProcOk'
  BY <1>26 DEF Lapse, ProcOk, Label, Working
<1>27. ASSUME NEW p \in Proc, Crash(p)
      PROVE  ProcOk'
  BY <1>27 DEF Crash, ProcOk, Label, Working
<1>28. ASSUME NEW p \in Proc, NEW g \in {"recover", "verify", "accept"},
        AcquireRecovery(p, g)
      PROVE  ProcOk'
  BY <1>28 DEF AcquireRecovery, Unresolved, ProcOk, Label, Working
<1>29. ASSUME NEW p \in Proc, NEW o \in Oper, PassQuarantined(p, o)
      PROVE  ProcOk'
  <2>1. CASE EndPass(p, FALSE)
    BY <1>29, <2>1, PassEnds DEF PassQuarantined
  <2>2. CASE UNCHANGED <<local, blocked>>
    BY <1>29, <2>2 DEF PassQuarantined, ProcOk
  <2> QED BY <1>29, <2>1, <2>2 DEF PassQuarantined
<1>30. ASSUME NEW p \in Proc, NEW o \in Oper, BeginRecovery(p, o)
      PROVE  ProcOk'
  <2>1. CASE lock = p
    BY <2>1, <1>30 DEF BeginRecovery, ProcOk, Label, Working
  <2>2. CASE lock # p
    BY <2>2, <1>30, PassEnds DEF BeginRecovery
  <2> QED BY <2>1, <2>2
<1>31. ASSUME NEW p \in Proc, NEW o \in Oper, VerifyRestored(p, o)
      PROVE  ProcOk'
  BY <1>31 DEF VerifyRestored, Candidates, Unresolved, Goto, Resolved, ProcOk, Label, Working
<1>32. ASSUME NEW p \in Proc, NEW o \in Oper, AcceptCurrent(p, o)
      PROVE  ProcOk'
  BY <1>32 DEF AcceptCurrent, Candidates, Unresolved, Goto, Resolved, ProcOk, Label, Working
<1>33. ASSUME NEW p \in Proc, NEW o \in Oper, NEW c \in Patch, Prepare(p, o, c)
      PROVE  ProcOk'
  BY <1>33 DEF Prepare, ProcOk, Label, Working
<1>34. ASSUME NEW p \in Proc, NEW f \in File, RestoreOne(p, f)
      PROVE  ProcOk'
  BY <1>34 DEF RestoreOne, ProcOk, Label, Working
<1>35. ASSUME NEW p \in Proc, NEW f \in File, WriteOne(p, f)
      PROVE  ProcOk'
  BY <1>35 DEF WriteOne, ProcOk, Label, Working
<1>36. ASSUME NEW p \in Proc, NEW f \in File, UnrollOne(p, f)
      PROVE  ProcOk'
  BY <1>36 DEF UnrollOne, ProcOk, Label, Working
<1>37. ASSUME NEW f \in File, Edit(f)
      PROVE  ProcOk'
  BY <1>37 DEF Edit, ProcOk, Label, Working
<1>38. ASSUME NEW f \in File, Discard(f)
      PROVE  ProcOk'
  BY <1>38 DEF Discard, ProcOk, Label, Working
<1>39. ASSUME GitCommit
      PROVE  ProcOk'
  BY <1>39 DEF GitCommit, ProcOk, Label, Working
<1>40. ASSUME NEW o \in Oper, GitReset(o)
      PROVE  ProcOk'
  BY <1>40 DEF GitReset, ProcOk, Label, Working
<1>50. CASE UNCHANGED vars
  BY <1>50 DEF ProcOk, vars
<1> QED
  BY <1>1, <1>2, <1>3, <1>4, <1>5, <1>6, <1>7, <1>9, <1>10, <1>11, <1>12,
        <1>13, <1>14, <1>15, <1>16, <1>17, <1>18, <1>19, <1>20, <1>21, <1>22, <1>23,
        <1>24, <1>25, <1>26, <1>27, <1>28, <1>29, <1>30, <1>31, <1>32, <1>33, <1>34,
        <1>35, <1>36, <1>37, <1>38, <1>39, <1>40, <1>50
     DEF Next, Step, RecoveryStep, ResolutionStep, IntegrationStep, Environment

(* A step that leaves the journal alone keeps its type.                    *)
LEMMA RowKept ==
    ASSUME RowOk, UNCHANGED <<ost, own, why, unconf, user>>
    PROVE  RowOk'
BY DEF RowOk

(* So does a transition to a status.                                       *)
LEMMA RowMoves ==
    ASSUME RowOk, NEW o \in Oper, NEW st \in Status,
           Transition(o, st), UNCHANGED <<unconf, user>>
    PROVE  RowOk'
BY DEF RowOk, Transition

(* So does a transition of an integration, made or refused.                *)
LEMMA RowAdvances ==
    ASSUME RowOk, NEW p \in Proc, cur[p] \in Oper, NEW from, NEW to \in Status, NEW next,
           Advance(p, from, to, next), UNCHANGED <<unconf, user>>
    PROVE  RowOk'
BY RowMoves, RowKept DEF Advance

(* So does a quarantine with a reason.                                     *)
LEMMA RowQuarantined ==
    ASSUME RowOk, NEW p \in Proc, cur[p] \in Oper, NEW w \in Reason,
           Quarantine(p, w), UNCHANGED <<unconf, user>>
    PROVE  RowOk'
<1>1. "quarantined" \in Status
  BY DEF Status
<1>2. /\ UNCHANGED own
      /\ \/ UNCHANGED <<ost, why>>
         \/ /\ ost' = [ost EXCEPT ![cur[p]] = "quarantined"]
            /\ why' = [why EXCEPT ![cur[p]] = w]
  BY DEF Quarantine
<1> QED BY <1>1, <1>2 DEF RowOk

(* The statuses and reasons the actions write are ones.                    *)
LEMMA Names ==
    /\ {"applying", "applied_unvalidated", "validating", "validated", "rolling_back",
        "committed", "rolled_back", "recovered_noop", "quarantined"} \subseteq Status
    /\ {"git", "drift", "evidence", "restore", "verification", "process"} \subseteq Reason
BY DEF Status, Reason, recoverableStatuses, INTEGRATION_RESOLVED_STATUSES

(* Every step keeps the journal's columns well typed.                      *)
LEMMA RowStep ==
    ASSUME ProcOk, RowOk, [Next]_vars
    PROVE  RowOk'
<1>1. ASSUME NEW p \in Proc, AcquireIntegration(p)
      PROVE  RowOk'
  BY <1>1 DEF AcquireIntegration, Unresolved, RowOk, ProcOk, Working, Status,
        recoverableStatuses, INTEGRATION_RESOLVED_STATUSES, Reason
<1>2. ASSUME NEW p \in Proc, Release(p)
      PROVE  RowOk'
  BY <1>2 DEF Release, RowOk, ProcOk, Working, Status, recoverableStatuses,
        INTEGRATION_RESOLVED_STATUSES, Reason
<1>3. ASSUME NEW p \in Proc, PassNothing(p)
      PROVE  RowOk'
  BY <1>3 DEF PassNothing, Candidates, Unresolved, RowOk, ProcOk, Working, Status,
        recoverableStatuses, INTEGRATION_RESOLVED_STATUSES, Reason
<1>4. ASSUME NEW p \in Proc, EvidenceLost(p)
      PROVE  RowOk'
  <2>1. cur[p] \in Oper /\ UNCHANGED <<unconf, user>>
    BY <1>4 DEF EvidenceLost, ProcOk, Working
  <2> QED BY <1>4, <2>1, Names, RowKept, RowQuarantined DEF EvidenceLost
<1>5. ASSUME NEW p \in Proc, Judge(p)
      PROVE  RowOk'
  <2>1. cur[p] \in Oper /\ UNCHANGED <<unconf, user>>
    BY <1>5 DEF Judge, ProcOk, Working
  <2> QED BY <1>5, <2>1, Names, RowKept, RowMoves, RowQuarantined DEF Judge
<1>6. ASSUME NEW p \in Proc, RestoreFailed(p)
      PROVE  RowOk'
  <2>1. cur[p] \in Oper /\ UNCHANGED <<unconf, user>>
    BY <1>6 DEF RestoreFailed, ProcOk, Working
  <2> QED BY <1>6, <2>1, Names, RowKept, RowQuarantined DEF RestoreFailed
<1>7. ASSUME NEW p \in Proc, VerifyRestore(p)
      PROVE  RowOk'
  <2>1. cur[p] \in Oper /\ UNCHANGED <<unconf, user>>
    BY <1>7 DEF VerifyRestore, ProcOk, Working
  <2> QED BY <1>7, <2>1, Names, RowKept, RowMoves, RowQuarantined DEF VerifyRestore
<1>9. ASSUME NEW p \in Proc, Snapshot(p)
      PROVE  RowOk'
  BY <1>9 DEF Snapshot, RowOk, ProcOk, Working, Status, recoverableStatuses,
        INTEGRATION_RESOLVED_STATUSES, Reason
<1>10. ASSUME NEW p \in Proc, PrepareRefused(p)
      PROVE  RowOk'
  BY <1>10 DEF PrepareRefused, Quarantined, RowOk, ProcOk, Working, Status,
        recoverableStatuses, INTEGRATION_RESOLVED_STATUSES, Reason
<1>11. ASSUME NEW p \in Proc, OwnershipLost(p)
      PROVE  RowOk'
  BY <1>11 DEF OwnershipLost, RowOk, ProcOk, Working, Status, recoverableStatuses,
        INTEGRATION_RESOLVED_STATUSES, Reason
<1>12. ASSUME NEW p \in Proc, StartApply(p)
      PROVE  RowOk'
  <2>1. cur[p] \in Oper /\ UNCHANGED <<unconf, user>>
    BY <1>12 DEF StartApply, ProcOk, Working
  <2> QED BY <1>12, <2>1, Names, RowKept, RowMoves DEF StartApply
<1>13. ASSUME NEW p \in Proc, CheckTarget(p)
      PROVE  RowOk'
  <2>1. cur[p] \in Oper /\ UNCHANGED <<unconf, user>>
    BY <1>13 DEF CheckTarget, ProcOk, Working
  <2> QED BY <1>13, <2>1, Names, RowKept, RowMoves DEF CheckTarget
<1>14. ASSUME NEW p \in Proc, WriteFailed(p)
      PROVE  RowOk'
  BY <1>14 DEF WriteFailed, RowOk, ProcOk, Working, Status, recoverableStatuses,
        INTEGRATION_RESOLVED_STATUSES, Reason
<1>15. ASSUME NEW p \in Proc, VerifyApplied(p)
      PROVE  RowOk'
  <2>1. cur[p] \in Oper /\ UNCHANGED <<unconf, user>>
    BY <1>15 DEF VerifyApplied, ProcOk, Working
  <2> QED BY <1>15, <2>1, Names, RowKept, RowAdvances DEF VerifyApplied
<1>16. ASSUME NEW p \in Proc, StartValidation(p)
      PROVE  RowOk'
  <2>1. cur[p] \in Oper /\ UNCHANGED <<unconf, user>>
    BY <1>16 DEF StartValidation, ProcOk, Working
  <2> QED BY <1>16, <2>1, Names, RowKept, RowAdvances DEF StartValidation
<1>17. ASSUME NEW p \in Proc, ValidationUnconfirmed(p)
      PROVE  RowOk'
  <2>1. cur[p] \in Oper /\ unconf' = [unconf EXCEPT ![cur[p]] = TRUE] /\ UNCHANGED <<own, user>>
    BY <1>17 DEF ValidationUnconfirmed, ProcOk, Working
  <2>2. \/ UNCHANGED <<ost, why>>
        \/ /\ ost' = [ost EXCEPT ![cur[p]] = "quarantined"]
           /\ why' = [why EXCEPT ![cur[p]] = "process"]
    BY <1>17 DEF ValidationUnconfirmed
  <2> QED BY <2>1, <2>2, Names DEF RowOk
<1>18. ASSUME NEW p \in Proc, ValidationEnded(p)
      PROVE  RowOk'
  BY <1>18 DEF ValidationEnded, RowOk, ProcOk, Working, Status, recoverableStatuses,
        INTEGRATION_RESOLVED_STATUSES, Reason
<1>19. ASSUME NEW p \in Proc, Accept(p)
      PROVE  RowOk'
  <2>1. cur[p] \in Oper /\ UNCHANGED <<unconf, user>>
    BY <1>19 DEF Accept, ProcOk, Working
  <2> QED BY <1>19, <2>1, Names, RowKept, RowAdvances DEF Accept
<1>20. ASSUME NEW p \in Proc, Commit(p)
      PROVE  RowOk'
  <2>1. cur[p] \in Oper /\ UNCHANGED <<unconf, user>>
    BY <1>20 DEF Commit, ProcOk, Working
  <2> QED BY <1>20, <2>1, Names, RowKept, RowAdvances DEF Commit
<1>21. ASSUME NEW p \in Proc, Undo(p)
      PROVE  RowOk'
  BY <1>21 DEF Undo, RowOk, ProcOk, Working, Status, recoverableStatuses,
        INTEGRATION_RESOLVED_STATUSES, Reason
<1>22. ASSUME NEW p \in Proc, UnrollEnd(p)
      PROVE  RowOk'
  BY <1>22 DEF UnrollEnd, RowOk, ProcOk, Working, Status, recoverableStatuses,
        INTEGRATION_RESOLVED_STATUSES, Reason
<1>23. ASSUME NEW p \in Proc, Finally(p)
      PROVE  RowOk'
  BY <1>23 DEF Finally, RowOk, ProcOk, Working, Status, recoverableStatuses,
        INTEGRATION_RESOLVED_STATUSES, Reason
<1>24. ASSUME NEW p \in Proc, Unblock(p)
      PROVE  RowOk'
  BY <1>24 DEF Unblock, Unresolved, RowOk, ProcOk, Working, Status,
        recoverableStatuses, INTEGRATION_RESOLVED_STATUSES, Reason
<1>25. ASSUME NEW p \in Proc, Abort(p)
      PROVE  RowOk'
  BY <1>25 DEF Abort, RowOk, ProcOk, Working, Status, recoverableStatuses,
        INTEGRATION_RESOLVED_STATUSES, Reason
<1>26. ASSUME NEW p \in Proc, Lapse(p)
      PROVE  RowOk'
  BY <1>26 DEF Lapse, RowOk, ProcOk, Working, Status, recoverableStatuses,
        INTEGRATION_RESOLVED_STATUSES, Reason
<1>27. ASSUME NEW p \in Proc, Crash(p)
      PROVE  RowOk'
  BY <1>27 DEF Crash, RowOk, ProcOk, Working, Status, recoverableStatuses,
        INTEGRATION_RESOLVED_STATUSES, Reason
<1>28. ASSUME NEW p \in Proc, NEW g \in {"recover", "verify", "accept"},
        AcquireRecovery(p, g)
      PROVE  RowOk'
  BY <1>28 DEF AcquireRecovery, Quarantined, Unresolved, RowOk, ProcOk, Working,
        Status, recoverableStatuses, INTEGRATION_RESOLVED_STATUSES, Reason
<1>29. ASSUME NEW p \in Proc, NEW o \in Oper, PassQuarantined(p, o)
      PROVE  RowOk'
  <2>1. UNCHANGED <<why, unconf, user>> /\ "recovered_noop" \in Status
    BY <1>29 DEF PassQuarantined, Status, recoverableStatuses,
        INTEGRATION_RESOLVED_STATUSES
  <2>2. \/ UNCHANGED journal
        \/ ost' = [ost EXCEPT ![o] = "recovered_noop"] /\ own' = [own EXCEPT ![o] = p]
    BY <1>29 DEF PassQuarantined
  <2> QED BY <2>1, <2>2 DEF RowOk
<1>30. ASSUME NEW p \in Proc, NEW o \in Oper, BeginRecovery(p, o)
      PROVE  RowOk'
  <2>1. UNCHANGED <<why, unconf, user>> /\ "recovering" \in Status
    BY <1>30 DEF BeginRecovery, Status, recoverableStatuses,
        INTEGRATION_RESOLVED_STATUSES
  <2>2. \/ UNCHANGED journal
        \/ ost' = [ost EXCEPT ![o] = "recovering"] /\ own' = [own EXCEPT ![o] = p]
    BY <1>30 DEF BeginRecovery
  <2> QED BY <2>1, <2>2 DEF RowOk
<1>31. ASSUME NEW p \in Proc, NEW o \in Oper, VerifyRestored(p, o)
      PROVE  RowOk'
  <2>1. UNCHANGED <<why, unconf, user>> /\ "recovered_verified" \in Status
    BY <1>31 DEF VerifyRestored, Candidates, Unresolved, Resolved, Status, recoverableStatuses,
        INTEGRATION_RESOLVED_STATUSES
  <2>2. \/ UNCHANGED journal
        \/ ost' = [ost EXCEPT ![o] = "recovered_verified"] /\ own' = [own EXCEPT ![o] = p]
    BY <1>31 DEF VerifyRestored, Candidates, Unresolved, Resolved
  <2> QED BY <2>1, <2>2 DEF RowOk
<1>32. ASSUME NEW p \in Proc, NEW o \in Oper, AcceptCurrent(p, o)
      PROVE  RowOk'
  <2>1. UNCHANGED <<why, unconf, user>> /\ "resolved_by_operator" \in Status
    BY <1>32 DEF AcceptCurrent, Resolved, Status, recoverableStatuses,
        INTEGRATION_RESOLVED_STATUSES
  <2>2. \/ UNCHANGED journal
        \/ ost' = [ost EXCEPT ![o] = "resolved_by_operator"] /\ own' = [own EXCEPT ![o] = p]
    BY <1>32 DEF AcceptCurrent, Resolved
  <2> QED BY <2>1, <2>2 DEF RowOk
<1>33. ASSUME NEW p \in Proc, NEW o \in Oper, NEW c \in Patch, Prepare(p, o, c)
      PROVE  RowOk'
  BY <1>33 DEF Prepare, Quarantined, RowOk, ProcOk, Working, Status,
        recoverableStatuses, INTEGRATION_RESOLVED_STATUSES, Reason
<1>34. ASSUME NEW p \in Proc, NEW f \in File, RestoreOne(p, f)
      PROVE  RowOk'
  BY <1>34 DEF RestoreOne, RowOk, ProcOk, Working, Status, recoverableStatuses,
        INTEGRATION_RESOLVED_STATUSES, Reason
<1>35. ASSUME NEW p \in Proc, NEW f \in File, WriteOne(p, f)
      PROVE  RowOk'
  BY <1>35 DEF WriteOne, RowOk, ProcOk, Working, Status, recoverableStatuses,
        INTEGRATION_RESOLVED_STATUSES, Reason
<1>36. ASSUME NEW p \in Proc, NEW f \in File, UnrollOne(p, f)
      PROVE  RowOk'
  BY <1>36 DEF UnrollOne, RowOk, ProcOk, Working, Status, recoverableStatuses,
        INTEGRATION_RESOLVED_STATUSES, Reason
<1>37. ASSUME NEW f \in File, Edit(f)
      PROVE  RowOk'
  BY <1>37 DEF Edit, RowOk, ProcOk, Working, Status, recoverableStatuses,
        INTEGRATION_RESOLVED_STATUSES, Reason
<1>38. ASSUME NEW f \in File, Discard(f)
      PROVE  RowOk'
  BY <1>38 DEF Discard, RowOk, ProcOk, Working, Status, recoverableStatuses,
        INTEGRATION_RESOLVED_STATUSES, Reason
<1>39. ASSUME GitCommit
      PROVE  RowOk'
  BY <1>39 DEF GitCommit, RowOk, ProcOk, Working, Status, recoverableStatuses,
        INTEGRATION_RESOLVED_STATUSES, Reason
<1>40. ASSUME NEW o \in Oper, GitReset(o)
      PROVE  RowOk'
  BY <1>40 DEF GitReset, Quarantined, RowOk, ProcOk, Working, Status,
        recoverableStatuses, INTEGRATION_RESOLVED_STATUSES, Reason
<1>50. CASE UNCHANGED vars
  BY <1>50 DEF RowOk, vars
<1> QED
  BY <1>1, <1>2, <1>3, <1>4, <1>5, <1>6, <1>7, <1>9, <1>10, <1>11, <1>12,
        <1>13, <1>14, <1>15, <1>16, <1>17, <1>18, <1>19, <1>20, <1>21, <1>22, <1>23,
        <1>24, <1>25, <1>26, <1>27, <1>28, <1>29, <1>30, <1>31, <1>32, <1>33, <1>34,
        <1>35, <1>36, <1>37, <1>38, <1>39, <1>40, <1>50
     DEF Next, Step, RecoveryStep, ResolutionStep, IntegrationStep, Environment
-----------------------------------------------------------------------------
(* The type of everything that holds file contents. Content grows with     *)
(* events, so each step also has to carry the unchanged variables over.    *)
ContentOk ==
    /\ events \in 0 .. MaxEvents
    /\ disk \in [File -> Content] /\ git \in [File -> Content]
    /\ want \in [File -> Content]
    /\ pre \in [Oper -> [File -> Content]] /\ org \in [Oper -> [File -> Content]]
    /\ post \in [Oper -> Patch \cup {Base}]
    /\ base \in [Proc -> [File -> Content]]
    /\ safe \in [File -> 0 .. events]

(* The event counter stays within its bound and never decreases.           *)
LEMMA EventsStep ==
    ASSUME ContentOk, [Next]_vars
    PROVE  events' \in 0 .. MaxEvents /\ events <= events'
<1> USE DEF ContentOk
<1>1. ASSUME NEW p \in Proc, AcquireIntegration(p)
      PROVE  events' \in 0 .. MaxEvents /\ events <= events'
  BY <1>1 DEF AcquireIntegration
<1>2. ASSUME NEW p \in Proc, Release(p)
      PROVE  events' \in 0 .. MaxEvents /\ events <= events'
  BY <1>2 DEF Release, Happens
<1>3. ASSUME NEW p \in Proc, PassNothing(p)
      PROVE  events' \in 0 .. MaxEvents /\ events <= events'
  BY <1>3 DEF PassNothing
<1>4. ASSUME NEW p \in Proc, EvidenceLost(p)
      PROVE  events' \in 0 .. MaxEvents /\ events <= events'
  BY <1>4 DEF EvidenceLost, Happens
<1>5. ASSUME NEW p \in Proc, Judge(p)
      PROVE  events' \in 0 .. MaxEvents /\ events <= events'
  BY <1>5 DEF Judge
<1>6. ASSUME NEW p \in Proc, RestoreFailed(p)
      PROVE  events' \in 0 .. MaxEvents /\ events <= events'
  BY <1>6 DEF RestoreFailed, Happens
<1>7. ASSUME NEW p \in Proc, VerifyRestore(p)
      PROVE  events' \in 0 .. MaxEvents /\ events <= events'
  BY <1>7 DEF VerifyRestore
<1>9. ASSUME NEW p \in Proc, Snapshot(p)
      PROVE  events' \in 0 .. MaxEvents /\ events <= events'
  BY <1>9 DEF Snapshot
<1>10. ASSUME NEW p \in Proc, PrepareRefused(p)
      PROVE  events' \in 0 .. MaxEvents /\ events <= events'
  BY <1>10 DEF PrepareRefused
<1>11. ASSUME NEW p \in Proc, OwnershipLost(p)
      PROVE  events' \in 0 .. MaxEvents /\ events <= events'
  BY <1>11 DEF OwnershipLost
<1>12. ASSUME NEW p \in Proc, StartApply(p)
      PROVE  events' \in 0 .. MaxEvents /\ events <= events'
  BY <1>12 DEF StartApply
<1>13. ASSUME NEW p \in Proc, CheckTarget(p)
      PROVE  events' \in 0 .. MaxEvents /\ events <= events'
  BY <1>13 DEF CheckTarget
<1>14. ASSUME NEW p \in Proc, WriteFailed(p)
      PROVE  events' \in 0 .. MaxEvents /\ events <= events'
  BY <1>14 DEF WriteFailed, Happens
<1>15. ASSUME NEW p \in Proc, VerifyApplied(p)
      PROVE  events' \in 0 .. MaxEvents /\ events <= events'
  BY <1>15 DEF VerifyApplied
<1>16. ASSUME NEW p \in Proc, StartValidation(p)
      PROVE  events' \in 0 .. MaxEvents /\ events <= events'
  BY <1>16 DEF StartValidation
<1>17. ASSUME NEW p \in Proc, ValidationUnconfirmed(p)
      PROVE  events' \in 0 .. MaxEvents /\ events <= events'
  BY <1>17 DEF ValidationUnconfirmed
<1>18. ASSUME NEW p \in Proc, ValidationEnded(p)
      PROVE  events' \in 0 .. MaxEvents /\ events <= events'
  BY <1>18 DEF ValidationEnded
<1>19. ASSUME NEW p \in Proc, Accept(p)
      PROVE  events' \in 0 .. MaxEvents /\ events <= events'
  BY <1>19 DEF Accept
<1>20. ASSUME NEW p \in Proc, Commit(p)
      PROVE  events' \in 0 .. MaxEvents /\ events <= events'
  BY <1>20 DEF Commit
<1>21. ASSUME NEW p \in Proc, Undo(p)
      PROVE  events' \in 0 .. MaxEvents /\ events <= events'
  BY <1>21 DEF Undo
<1>22. ASSUME NEW p \in Proc, UnrollEnd(p)
      PROVE  events' \in 0 .. MaxEvents /\ events <= events'
  BY <1>22 DEF UnrollEnd, Happens
<1>23. ASSUME NEW p \in Proc, Finally(p)
      PROVE  events' \in 0 .. MaxEvents /\ events <= events'
  BY <1>23 DEF Finally
<1>24. ASSUME NEW p \in Proc, Unblock(p)
      PROVE  events' \in 0 .. MaxEvents /\ events <= events'
  BY <1>24 DEF Unblock
<1>25. ASSUME NEW p \in Proc, Abort(p)
      PROVE  events' \in 0 .. MaxEvents /\ events <= events'
  BY <1>25 DEF Abort, Happens
<1>26. ASSUME NEW p \in Proc, Lapse(p)
      PROVE  events' \in 0 .. MaxEvents /\ events <= events'
  BY <1>26 DEF Lapse
<1>27. ASSUME NEW p \in Proc, Crash(p)
      PROVE  events' \in 0 .. MaxEvents /\ events <= events'
  BY <1>27 DEF Crash, Happens
<1>28. ASSUME NEW p \in Proc, NEW g \in {"recover", "verify", "accept"},
        AcquireRecovery(p, g)
      PROVE  events' \in 0 .. MaxEvents /\ events <= events'
  BY <1>28 DEF AcquireRecovery
<1>29. ASSUME NEW p \in Proc, NEW o \in Oper, PassQuarantined(p, o)
      PROVE  events' \in 0 .. MaxEvents /\ events <= events'
  BY <1>29 DEF PassQuarantined
<1>30. ASSUME NEW p \in Proc, NEW o \in Oper, BeginRecovery(p, o)
      PROVE  events' \in 0 .. MaxEvents /\ events <= events'
  BY <1>30 DEF BeginRecovery
<1>31. ASSUME NEW p \in Proc, NEW o \in Oper, VerifyRestored(p, o)
      PROVE  events' \in 0 .. MaxEvents /\ events <= events'
  BY <1>31 DEF VerifyRestored, Candidates, Unresolved
<1>32. ASSUME NEW p \in Proc, NEW o \in Oper, AcceptCurrent(p, o)
      PROVE  events' \in 0 .. MaxEvents /\ events <= events'
  BY <1>32 DEF AcceptCurrent, Candidates, Unresolved, Goto
<1>33. ASSUME NEW p \in Proc, NEW o \in Oper, NEW c \in Patch, Prepare(p, o, c)
      PROVE  events' \in 0 .. MaxEvents /\ events <= events'
  BY <1>33 DEF Prepare
<1>34. ASSUME NEW p \in Proc, NEW f \in File, RestoreOne(p, f)
      PROVE  events' \in 0 .. MaxEvents /\ events <= events'
  BY <1>34 DEF RestoreOne
<1>35. ASSUME NEW p \in Proc, NEW f \in File, WriteOne(p, f)
      PROVE  events' \in 0 .. MaxEvents /\ events <= events'
  BY <1>35 DEF WriteOne
<1>36. ASSUME NEW p \in Proc, NEW f \in File, UnrollOne(p, f)
      PROVE  events' \in 0 .. MaxEvents /\ events <= events'
  BY <1>36 DEF UnrollOne
<1>37. ASSUME NEW f \in File, Edit(f)
      PROVE  events' \in 0 .. MaxEvents /\ events <= events'
  BY <1>37 DEF Edit, Happens
<1>38. ASSUME NEW f \in File, Discard(f)
      PROVE  events' \in 0 .. MaxEvents /\ events <= events'
  BY <1>38 DEF Discard, Happens
<1>39. ASSUME GitCommit
      PROVE  events' \in 0 .. MaxEvents /\ events <= events'
  BY <1>39 DEF GitCommit, Happens
<1>40. ASSUME NEW o \in Oper, GitReset(o)
      PROVE  events' \in 0 .. MaxEvents /\ events <= events'
  BY <1>40 DEF GitReset, Happens
<1>50. CASE UNCHANGED vars
  BY <1>50 DEF ContentOk, vars
<1> QED
  BY <1>1, <1>2, <1>3, <1>4, <1>5, <1>6, <1>7, <1>9, <1>10, <1>11, <1>12,
        <1>13, <1>14, <1>15, <1>16, <1>17, <1>18, <1>19, <1>20, <1>21, <1>22, <1>23,
        <1>24, <1>25, <1>26, <1>27, <1>28, <1>29, <1>30, <1>31, <1>32, <1>33, <1>34,
        <1>35, <1>36, <1>37, <1>38, <1>39, <1>40, <1>50
     DEF Next, Step, RecoveryStep, ResolutionStep, IntegrationStep, Environment

(* No content is forgotten when the event counter grows.                   *)
LEMMA ContentGrows ==
    ASSUME events \in Nat, events' \in Nat, events <= events'
    PROVE  Content \subseteq Content'
BY DEF Content

(* A step that writes no content keeps the contents well typed.            *)
LEMMA ContentKept ==
    ASSUME ContentOk, events' \in 0 .. MaxEvents, events <= events',
           UNCHANGED <<disk, git, want, rows, base, safe>>
    PROVE  ContentOk'
<1>1. Content \subseteq Content'
  BY ContentGrows DEF ContentOk
<1>2. 0 .. events \subseteq 0 .. events'
  BY DEF ContentOk
<1> QED BY <1>1, <1>2 DEF ContentOk

(* Every step keeps the contents well typed.                               *)
LEMMA ContentStep ==
    ASSUME ProcOk, ContentOk, [Next]_vars
    PROVE  ContentOk'
<1>a. events' \in 0 .. MaxEvents /\ events <= events' /\ Content \subseteq Content'
  BY EventsStep, ContentGrows DEF ContentOk
<1>b. 0 .. events \subseteq 0 .. events'
  BY <1>a DEF ContentOk
<1>1. ASSUME NEW p \in Proc, AcquireIntegration(p)
      PROVE  ContentOk'
  BY <1>1, <1>a, ContentKept DEF AcquireIntegration
<1>2. ASSUME NEW p \in Proc, Release(p)
      PROVE  ContentOk'
  <2>1. Image(Base) \in [File -> Content']
    BY DEF Image, Content
  <2> QED BY <1>2, <1>a, <1>b, <2>1 DEF Release, ContentOk
<1>3. ASSUME NEW p \in Proc, PassNothing(p)
      PROVE  ContentOk'
  BY <1>3, <1>a, ContentKept DEF PassNothing, Goto, GotoWriting, EndPass
<1>4. ASSUME NEW p \in Proc, EvidenceLost(p)
      PROVE  ContentOk'
  BY <1>4, <1>a, ContentKept DEF EvidenceLost, GotoWriting, EndPass, Quarantine
<1>5. ASSUME NEW p \in Proc, Judge(p)
      PROVE  ContentOk'
  BY <1>5, <1>a, ContentKept DEF Judge, Goto, GotoWriting, EndPass, Quarantine
<1>6. ASSUME NEW p \in Proc, RestoreFailed(p)
      PROVE  ContentOk'
  BY <1>6, <1>a, ContentKept DEF RestoreFailed, GotoWriting, EndPass, Quarantine
<1>7. ASSUME NEW p \in Proc, VerifyRestore(p)
      PROVE  ContentOk'
  BY <1>7, <1>a, ContentKept DEF VerifyRestore, Goto, GotoWriting, EndPass, Quarantine
<1>9. ASSUME NEW p \in Proc, Snapshot(p)
      PROVE  ContentOk'
  <2>1. UNCHANGED <<events, disk, git, want, rows, safe>>
    BY <1>9 DEF Snapshot
  <2>2. base' = [base EXCEPT ![p] = disk] \/ UNCHANGED base
    BY <1>9 DEF Snapshot, Goto
  <2> QED BY <1>a, <1>b, <2>1, <2>2 DEF ContentOk
<1>10. ASSUME NEW p \in Proc, PrepareRefused(p)
      PROVE  ContentOk'
  BY <1>10, <1>a, ContentKept DEF PrepareRefused, Goto
<1>11. ASSUME NEW p \in Proc, OwnershipLost(p)
      PROVE  ContentOk'
  BY <1>11, <1>a, ContentKept DEF OwnershipLost, GotoWriting
<1>12. ASSUME NEW p \in Proc, StartApply(p)
      PROVE  ContentOk'
  BY <1>12, <1>a, ContentKept DEF StartApply, Goto
<1>13. ASSUME NEW p \in Proc, CheckTarget(p)
      PROVE  ContentOk'
  BY <1>13, <1>a, ContentKept DEF CheckTarget, Goto, GotoWriting
<1>14. ASSUME NEW p \in Proc, WriteFailed(p)
      PROVE  ContentOk'
  BY <1>14, <1>a, ContentKept DEF WriteFailed, GotoWriting
<1>15. ASSUME NEW p \in Proc, VerifyApplied(p)
      PROVE  ContentOk'
  BY <1>15, <1>a, ContentKept DEF VerifyApplied, Goto, Advance
<1>16. ASSUME NEW p \in Proc, StartValidation(p)
      PROVE  ContentOk'
  BY <1>16, <1>a, ContentKept DEF StartValidation, Goto, Advance
<1>17. ASSUME NEW p \in Proc, ValidationUnconfirmed(p)
      PROVE  ContentOk'
  BY <1>17, <1>a, ContentKept DEF ValidationUnconfirmed, Goto
<1>18. ASSUME NEW p \in Proc, ValidationEnded(p)
      PROVE  ContentOk'
  BY <1>18, <1>a, ContentKept DEF ValidationEnded, Goto
<1>19. ASSUME NEW p \in Proc, Accept(p)
      PROVE  ContentOk'
  BY <1>19, <1>a, ContentKept DEF Accept, Goto, Advance
<1>20. ASSUME NEW p \in Proc, Commit(p)
      PROVE  ContentOk'
  <2>1. Image(post[cur[p]]) \in [File -> Content']
    BY <1>20 DEF Commit, ProcOk, Working, ContentOk, Content, Image
  <2>2. UNCHANGED <<events, disk, git, rows, base, safe>>
    BY <1>20 DEF Commit, Advance, Goto
  <2>3. want' = Image(post[cur[p]]) \/ UNCHANGED want
    BY <1>20 DEF Commit
  <2> QED BY <1>a, <1>b, <2>1, <2>2, <2>3 DEF ContentOk
<1>21. ASSUME NEW p \in Proc, Undo(p)
      PROVE  ContentOk'
  BY <1>21, <1>a, ContentKept DEF Undo, GotoWriting
<1>22. ASSUME NEW p \in Proc, UnrollEnd(p)
      PROVE  ContentOk'
  BY <1>22, <1>a, ContentKept DEF UnrollEnd, Goto, GotoWriting
<1>23. ASSUME NEW p \in Proc, Finally(p)
      PROVE  ContentOk'
  BY <1>23, <1>a, ContentKept DEF Finally, Goto
<1>24. ASSUME NEW p \in Proc, Unblock(p)
      PROVE  ContentOk'
  BY <1>24, <1>a, ContentKept DEF Unblock
<1>25. ASSUME NEW p \in Proc, Abort(p)
      PROVE  ContentOk'
  BY <1>25, <1>a, ContentKept DEF Abort
<1>26. ASSUME NEW p \in Proc, Lapse(p)
      PROVE  ContentOk'
  BY <1>26, <1>a, ContentKept DEF Lapse
<1>27. ASSUME NEW p \in Proc, Crash(p)
      PROVE  ContentOk'
  <2>1. Image(Base) \in [File -> Content']
    BY DEF Image, Content
  <2> QED BY <1>27, <1>a, <1>b, <2>1 DEF Crash, ContentOk
<1>28. ASSUME NEW p \in Proc, NEW g \in {"recover", "verify", "accept"},
        AcquireRecovery(p, g)
      PROVE  ContentOk'
  BY <1>28, <1>a, ContentKept DEF AcquireRecovery
<1>29. ASSUME NEW p \in Proc, NEW o \in Oper, PassQuarantined(p, o)
      PROVE  ContentOk'
  BY <1>29, <1>a, ContentKept DEF PassQuarantined, GotoWriting, EndPass
<1>30. ASSUME NEW p \in Proc, NEW o \in Oper, BeginRecovery(p, o)
      PROVE  ContentOk'
  BY <1>30, <1>a, ContentKept DEF BeginRecovery, GotoWriting, EndPass
<1>31. ASSUME NEW p \in Proc, NEW o \in Oper, VerifyRestored(p, o)
      PROVE  ContentOk'
  BY <1>31, <1>a, ContentKept DEF VerifyRestored, Candidates, Unresolved, Goto, Resolved
<1>32. ASSUME NEW p \in Proc, NEW o \in Oper, AcceptCurrent(p, o)
      PROVE  ContentOk'
  BY <1>32, <1>a, <1>b DEF AcceptCurrent, Candidates, Unresolved, Goto, ContentOk, Resolved
<1>33. ASSUME NEW p \in Proc, NEW o \in Oper, NEW c \in Patch, Prepare(p, o, c)
      PROVE  ContentOk'
  BY <1>33, <1>a, <1>b DEF Prepare, ContentOk
<1>34. ASSUME NEW p \in Proc, NEW f \in File, RestoreOne(p, f)
      PROVE  ContentOk'
  <2>1. cur[p] \in Oper /\ pre[cur[p]][f] \in Content'
    BY <1>34, <1>b DEF RestoreOne, ProcOk, Working, ContentOk, Content
  <2> QED BY <1>34, <1>a, <1>b, <2>1 DEF RestoreOne, ContentOk
<1>35. ASSUME NEW p \in Proc, NEW f \in File, WriteOne(p, f)
      PROVE  ContentOk'
  <2>1. cur[p] \in Oper /\ post[cur[p]] \in Content'
    BY <1>35, <1>b DEF WriteOne, ProcOk, Working, ContentOk, Content
  <2> QED BY <1>35, <1>a, <1>b, <2>1 DEF WriteOne, ContentOk
<1>36. ASSUME NEW p \in Proc, NEW f \in File, UnrollOne(p, f)
      PROVE  ContentOk'
  <2>1. cur[p] \in Oper /\ base[p][f] \in Content'
    BY <1>36, <1>b DEF UnrollOne, ProcOk, Working, ContentOk, Content
  <2> QED BY <1>36, <1>a, <1>b, <2>1 DEF UnrollOne, ContentOk
<1>37. ASSUME NEW f \in File, Edit(f)
      PROVE  ContentOk'
  <2>1. events' \in Content' /\ events' = events + 1 /\ events \in Nat
    BY <1>37, <1>a DEF Edit, Happens, ContentOk, Content
  <2>2. PICK x \in 0 .. events' : safe' = [safe EXCEPT ![f] = x]
    BY <1>37, <2>1 DEF Edit
  <2>3. safe' \in [File -> 0 .. events']
    BY <1>b, <2>2 DEF ContentOk
  <2>4. disk' \in [File -> Content']
    BY <1>37, <1>a, <2>1 DEF Edit, ContentOk
  <2>5. UNCHANGED <<git, want, rows, base>>
    BY <1>37 DEF Edit
  <2> QED BY <1>a, <2>3, <2>4, <2>5 DEF ContentOk
<1>38. ASSUME NEW f \in File, Discard(f)
      PROVE  ContentOk'
  BY <1>38, <1>a, <1>b DEF Discard, ContentOk
<1>39. ASSUME GitCommit
      PROVE  ContentOk'
  BY <1>39, <1>a, <1>b DEF GitCommit, ContentOk
<1>40. ASSUME NEW o \in Oper, GitReset(o)
      PROVE  ContentOk'
  BY <1>40, <1>a, <1>b DEF GitReset, ContentOk
<1>50. CASE UNCHANGED vars
  BY <1>50, <1>a, ContentKept DEF vars
<1> QED
  BY <1>1, <1>2, <1>3, <1>4, <1>5, <1>6, <1>7, <1>9, <1>10, <1>11, <1>12,
        <1>13, <1>14, <1>15, <1>16, <1>17, <1>18, <1>19, <1>20, <1>21, <1>22, <1>23,
        <1>24, <1>25, <1>26, <1>27, <1>28, <1>29, <1>30, <1>31, <1>32, <1>33, <1>34,
        <1>35, <1>36, <1>37, <1>38, <1>39, <1>40, <1>50
     DEF Next, Step, RecoveryStep, ResolutionStep, IntegrationStep, Environment
-----------------------------------------------------------------------------
(* What one step may do to one row: nothing, create it, move an open row,  *)
(* or end a quarantine at an operator's hand or as a Git drift that is     *)
(* gone.                                                                   *)
Moves(o) ==
    \/ ost'[o] = ost[o]
    \/ /\ ost[o] = "none" /\ ost'[o] = "prepared"
       /\ \E p \in Proc, c \in Patch : Prepare(p, o, c)
    \/ ost[o] \in recoverableStatuses /\ ost'[o] \in Status \ {"none"}
    \/ /\ ost[o] = "quarantined"
       /\ \/ ost'[o] \in {"recovered_verified", "resolved_by_operator"}
          \/ why[o] = "git" /\ ost'[o] = "recovered_noop"

(* Every step treats every row as Moves says.                              *)
LEMMA MoveStep ==
    ASSUME ProcOk, RowOk, [Next]_vars
    PROVE  \A r \in Oper : Moves(r)
<1>1. ASSUME NEW p \in Proc, AcquireIntegration(p)
      PROVE  \A r \in Oper : Moves(r)
  BY <1>1 DEF AcquireIntegration, Unresolved, Moves, RowOk, ProcOk, Working, Status,
        recoverableStatuses, INTEGRATION_RESOLVED_STATUSES
<1>2. ASSUME NEW p \in Proc, Release(p)
      PROVE  \A r \in Oper : Moves(r)
  BY <1>2 DEF Release, Moves, RowOk, ProcOk, Working, Status, recoverableStatuses,
        INTEGRATION_RESOLVED_STATUSES
<1>3. ASSUME NEW p \in Proc, PassNothing(p)
      PROVE  \A r \in Oper : Moves(r)
  BY <1>3 DEF PassNothing, Candidates, Unresolved, Moves, RowOk, ProcOk, Working,
        Status, recoverableStatuses, INTEGRATION_RESOLVED_STATUSES
<1>4. ASSUME NEW p \in Proc, EvidenceLost(p)
      PROVE  \A r \in Oper : Moves(r)
  <2>1. cur[p] \in Oper
    BY <1>4 DEF EvidenceLost, ProcOk, Working
  <2>2. ASSUME NEW w, Quarantine(p, w) PROVE \A r \in Oper : Moves(r)
    BY <2>1, <2>2 DEF Quarantine, Claimed, Moves, RowOk, Status, recoverableStatuses,
        INTEGRATION_RESOLVED_STATUSES
  <2>3. ASSUME UNCHANGED journal PROVE \A r \in Oper : Moves(r)
    BY <2>3 DEF Moves
  <2> QED BY <2>2, <2>3, <1>4 DEF EvidenceLost
<1>5. ASSUME NEW p \in Proc, Judge(p)
      PROVE  \A r \in Oper : Moves(r)
  <2>1. cur[p] \in Oper
    BY <1>5 DEF Judge, ProcOk, Working
  <2>2. ASSUME NEW w, Quarantine(p, w) PROVE \A r \in Oper : Moves(r)
    BY <2>1, <2>2 DEF Quarantine, Claimed, Moves, RowOk, Status, recoverableStatuses,
        INTEGRATION_RESOLVED_STATUSES
  <2>3. ASSUME UNCHANGED journal PROVE \A r \in Oper : Moves(r)
    BY <2>3 DEF Moves
  <2>4. ASSUME NEW st \in {"recovered_noop", "rolling_back"}, Transition(cur[p], st),
               Claimed(p, {"recovering"})
        PROVE  \A r \in Oper : Moves(r)
    BY <2>1, <2>4 DEF Transition, Claimed, Moves, RowOk, Status, recoverableStatuses,
        INTEGRATION_RESOLVED_STATUSES
  <2> QED BY <2>2, <2>3, <2>4, <1>5 DEF Judge
<1>6. ASSUME NEW p \in Proc, RestoreFailed(p)
      PROVE  \A r \in Oper : Moves(r)
  <2>1. cur[p] \in Oper
    BY <1>6 DEF RestoreFailed, ProcOk, Working
  <2>2. ASSUME NEW w, Quarantine(p, w) PROVE \A r \in Oper : Moves(r)
    BY <2>1, <2>2 DEF Quarantine, Claimed, Moves, RowOk, Status, recoverableStatuses,
        INTEGRATION_RESOLVED_STATUSES
  <2>3. ASSUME UNCHANGED journal PROVE \A r \in Oper : Moves(r)
    BY <2>3 DEF Moves
  <2> QED BY <2>2, <2>3, <1>6 DEF RestoreFailed
<1>7. ASSUME NEW p \in Proc, VerifyRestore(p)
      PROVE  \A r \in Oper : Moves(r)
  <2>1. cur[p] \in Oper
    BY <1>7 DEF VerifyRestore, ProcOk, Working
  <2>2. ASSUME NEW w, Quarantine(p, w) PROVE \A r \in Oper : Moves(r)
    BY <2>1, <2>2 DEF Quarantine, Claimed, Moves, RowOk, Status, recoverableStatuses,
        INTEGRATION_RESOLVED_STATUSES
  <2>3. ASSUME UNCHANGED journal PROVE \A r \in Oper : Moves(r)
    BY <2>3 DEF Moves
  <2>4. ASSUME Transition(cur[p], "rolled_back"), Claimed(p, {"rolling_back"})
        PROVE  \A r \in Oper : Moves(r)
    BY <2>1, <2>4 DEF Transition, Claimed, Moves, RowOk, Status, recoverableStatuses,
        INTEGRATION_RESOLVED_STATUSES
  <2> QED BY <2>2, <2>3, <2>4, <1>7 DEF VerifyRestore
<1>9. ASSUME NEW p \in Proc, Snapshot(p)
      PROVE  \A r \in Oper : Moves(r)
  BY <1>9 DEF Snapshot, Moves, RowOk, ProcOk, Working, Status, recoverableStatuses,
        INTEGRATION_RESOLVED_STATUSES
<1>10. ASSUME NEW p \in Proc, PrepareRefused(p)
      PROVE  \A r \in Oper : Moves(r)
  BY <1>10 DEF PrepareRefused, Quarantined, Moves, RowOk, ProcOk, Working, Status,
        recoverableStatuses, INTEGRATION_RESOLVED_STATUSES
<1>11. ASSUME NEW p \in Proc, OwnershipLost(p)
      PROVE  \A r \in Oper : Moves(r)
  BY <1>11 DEF OwnershipLost, Moves, RowOk, ProcOk, Working, Status,
        recoverableStatuses, INTEGRATION_RESOLVED_STATUSES
<1>12. ASSUME NEW p \in Proc, StartApply(p)
      PROVE  \A r \in Oper : Moves(r)
  BY <1>12 DEF StartApply, Transition, Authorised, Moves, RowOk, ProcOk, Working,
        Status, recoverableStatuses, INTEGRATION_RESOLVED_STATUSES
<1>13. ASSUME NEW p \in Proc, CheckTarget(p)
      PROVE  \A r \in Oper : Moves(r)
  BY <1>13 DEF CheckTarget, Transition, Authorised, Moves, RowOk, ProcOk, Working,
        Status, recoverableStatuses, INTEGRATION_RESOLVED_STATUSES
<1>14. ASSUME NEW p \in Proc, WriteFailed(p)
      PROVE  \A r \in Oper : Moves(r)
  BY <1>14 DEF WriteFailed, Moves, RowOk, ProcOk, Working, Status,
        recoverableStatuses, INTEGRATION_RESOLVED_STATUSES
<1>15. ASSUME NEW p \in Proc, VerifyApplied(p)
      PROVE  \A r \in Oper : Moves(r)
  BY <1>15 DEF VerifyApplied, Transition, Advance, Authorised, Moves, RowOk, ProcOk,
        Working, Status, recoverableStatuses, INTEGRATION_RESOLVED_STATUSES
<1>16. ASSUME NEW p \in Proc, StartValidation(p)
      PROVE  \A r \in Oper : Moves(r)
  BY <1>16 DEF StartValidation, Transition, Advance, Authorised, Moves, RowOk,
        ProcOk, Working, Status, recoverableStatuses, INTEGRATION_RESOLVED_STATUSES
<1>17. ASSUME NEW p \in Proc, ValidationUnconfirmed(p)
      PROVE  \A r \in Oper : Moves(r)
  BY <1>17 DEF ValidationUnconfirmed, Authorised, Moves, RowOk, ProcOk, Working,
        Status, recoverableStatuses, INTEGRATION_RESOLVED_STATUSES
<1>18. ASSUME NEW p \in Proc, ValidationEnded(p)
      PROVE  \A r \in Oper : Moves(r)
  BY <1>18 DEF ValidationEnded, Moves, RowOk, ProcOk, Working, Status,
        recoverableStatuses, INTEGRATION_RESOLVED_STATUSES
<1>19. ASSUME NEW p \in Proc, Accept(p)
      PROVE  \A r \in Oper : Moves(r)
  BY <1>19 DEF Accept, Transition, Advance, Authorised, Moves, RowOk, ProcOk,
        Working, Status, recoverableStatuses, INTEGRATION_RESOLVED_STATUSES
<1>20. ASSUME NEW p \in Proc, Commit(p)
      PROVE  \A r \in Oper : Moves(r)
  BY <1>20 DEF Commit, Transition, Advance, Authorised, Moves, RowOk, ProcOk,
        Working, Status, recoverableStatuses, INTEGRATION_RESOLVED_STATUSES
<1>21. ASSUME NEW p \in Proc, Undo(p)
      PROVE  \A r \in Oper : Moves(r)
  BY <1>21 DEF Undo, Moves, RowOk, ProcOk, Working, Status, recoverableStatuses,
        INTEGRATION_RESOLVED_STATUSES
<1>22. ASSUME NEW p \in Proc, UnrollEnd(p)
      PROVE  \A r \in Oper : Moves(r)
  BY <1>22 DEF UnrollEnd, Moves, RowOk, ProcOk, Working, Status, recoverableStatuses,
        INTEGRATION_RESOLVED_STATUSES
<1>23. ASSUME NEW p \in Proc, Finally(p)
      PROVE  \A r \in Oper : Moves(r)
  BY <1>23 DEF Finally, Moves, RowOk, ProcOk, Working, Status, recoverableStatuses,
        INTEGRATION_RESOLVED_STATUSES
<1>24. ASSUME NEW p \in Proc, Unblock(p)
      PROVE  \A r \in Oper : Moves(r)
  BY <1>24 DEF Unblock, Unresolved, Moves, RowOk, ProcOk, Working, Status,
        recoverableStatuses, INTEGRATION_RESOLVED_STATUSES
<1>25. ASSUME NEW p \in Proc, Abort(p)
      PROVE  \A r \in Oper : Moves(r)
  BY <1>25 DEF Abort, Moves, RowOk, ProcOk, Working, Status, recoverableStatuses,
        INTEGRATION_RESOLVED_STATUSES
<1>26. ASSUME NEW p \in Proc, Lapse(p)
      PROVE  \A r \in Oper : Moves(r)
  BY <1>26 DEF Lapse, Moves, RowOk, ProcOk, Working, Status, recoverableStatuses,
        INTEGRATION_RESOLVED_STATUSES
<1>27. ASSUME NEW p \in Proc, Crash(p)
      PROVE  \A r \in Oper : Moves(r)
  BY <1>27 DEF Crash, Moves, RowOk, ProcOk, Working, Status, recoverableStatuses,
        INTEGRATION_RESOLVED_STATUSES
<1>28. ASSUME NEW p \in Proc, NEW g \in {"recover", "verify", "accept"},
        AcquireRecovery(p, g)
      PROVE  \A r \in Oper : Moves(r)
  BY <1>28 DEF AcquireRecovery, Quarantined, Unresolved, Moves, RowOk, ProcOk,
        Working, Status, recoverableStatuses, INTEGRATION_RESOLVED_STATUSES
<1>29. ASSUME NEW p \in Proc, NEW o \in Oper, PassQuarantined(p, o)
      PROVE  \A r \in Oper : Moves(r)
  <2>1. ost[o] = "quarantined"
    BY <1>29 DEF PassQuarantined, Quarantined
  <2>2. UNCHANGED ost \/ (why[o] = "git" /\ ost' = [ost EXCEPT ![o] = "recovered_noop"])
    BY <1>29 DEF PassQuarantined, Requalifies
  <2> QED BY <2>1, <2>2 DEF Moves, RowOk
<1>30. ASSUME NEW p \in Proc, NEW o \in Oper, BeginRecovery(p, o)
      PROVE  \A r \in Oper : Moves(r)
  <2>1. ost[o] \in recoverableStatuses
    BY <1>30 DEF BeginRecovery, Quarantined, Candidates, Unresolved, RowOk, Status
  <2>2. UNCHANGED ost \/ ost' = [ost EXCEPT ![o] = "recovering"]
    BY <1>30 DEF BeginRecovery
  <2> QED BY <2>1, <2>2 DEF Moves, RowOk, Status, recoverableStatuses
<1>31. ASSUME NEW p \in Proc, NEW o \in Oper, VerifyRestored(p, o)
      PROVE  \A r \in Oper : Moves(r)
  BY <1>31 DEF VerifyRestored, Candidates, Unresolved, Resolved, Quarantined, Moves, RowOk, ProcOk, Working,
        Status, recoverableStatuses, INTEGRATION_RESOLVED_STATUSES
<1>32. ASSUME NEW p \in Proc, NEW o \in Oper, AcceptCurrent(p, o)
      PROVE  \A r \in Oper : Moves(r)
  BY <1>32 DEF AcceptCurrent, Candidates, Unresolved, Goto, Resolved, Quarantined, Moves, RowOk, ProcOk, Working,
        Status, recoverableStatuses, INTEGRATION_RESOLVED_STATUSES
<1>33. ASSUME NEW p \in Proc, NEW o \in Oper, NEW c \in Patch, Prepare(p, o, c)
      PROVE  \A r \in Oper : Moves(r)
  <2>1. ost[o] = "none" /\ ost' = [ost EXCEPT ![o] = "prepared"]
    BY <1>33 DEF Prepare
  <2> QED BY <1>33, <2>1 DEF Moves, RowOk
<1>34. ASSUME NEW p \in Proc, NEW f \in File, RestoreOne(p, f)
      PROVE  \A r \in Oper : Moves(r)
  BY <1>34 DEF RestoreOne, Moves, RowOk, ProcOk, Working, Status,
        recoverableStatuses, INTEGRATION_RESOLVED_STATUSES
<1>35. ASSUME NEW p \in Proc, NEW f \in File, WriteOne(p, f)
      PROVE  \A r \in Oper : Moves(r)
  BY <1>35 DEF WriteOne, Moves, RowOk, ProcOk, Working, Status, recoverableStatuses,
        INTEGRATION_RESOLVED_STATUSES
<1>36. ASSUME NEW p \in Proc, NEW f \in File, UnrollOne(p, f)
      PROVE  \A r \in Oper : Moves(r)
  BY <1>36 DEF UnrollOne, Moves, RowOk, ProcOk, Working, Status, recoverableStatuses,
        INTEGRATION_RESOLVED_STATUSES
<1>37. ASSUME NEW f \in File, Edit(f)
      PROVE  \A r \in Oper : Moves(r)
  BY <1>37 DEF Edit, Moves, RowOk, ProcOk, Working, Status, recoverableStatuses,
        INTEGRATION_RESOLVED_STATUSES
<1>38. ASSUME NEW f \in File, Discard(f)
      PROVE  \A r \in Oper : Moves(r)
  BY <1>38 DEF Discard, Moves, RowOk, ProcOk, Working, Status, recoverableStatuses,
        INTEGRATION_RESOLVED_STATUSES
<1>39. ASSUME GitCommit
      PROVE  \A r \in Oper : Moves(r)
  BY <1>39 DEF GitCommit, Moves, RowOk, ProcOk, Working, Status, recoverableStatuses,
        INTEGRATION_RESOLVED_STATUSES
<1>40. ASSUME NEW o \in Oper, GitReset(o)
      PROVE  \A r \in Oper : Moves(r)
  BY <1>40 DEF GitReset, Quarantined, Moves, RowOk, ProcOk, Working, Status,
        recoverableStatuses, INTEGRATION_RESOLVED_STATUSES
<1>50. CASE UNCHANGED vars
  BY <1>50 DEF Moves, vars
<1> QED
  BY <1>1, <1>2, <1>3, <1>4, <1>5, <1>6, <1>7, <1>9, <1>10, <1>11, <1>12,
        <1>13, <1>14, <1>15, <1>16, <1>17, <1>18, <1>19, <1>20, <1>21, <1>22, <1>23,
        <1>24, <1>25, <1>26, <1>27, <1>28, <1>29, <1>30, <1>31, <1>32, <1>33, <1>34,
        <1>35, <1>36, <1>37, <1>38, <1>39, <1>40, <1>50
     DEF Next, Step, RecoveryStep, ResolutionStep, IntegrationStep, Environment

(* A process that holds the lock and is on its way to a new row.           *)
Entering(p) ==
    /\ lock = p
    /\ \/ pc[p] \in {"snapshot", "prepare"}
       \/ pc[p] = "pass" /\ goal[p] = "integrate"

(* At most one row is open; none is while a lock holder is on its way to a *)
(* new one, because only that holder could open one; and no integration    *)
(* works on a row of its own before it has prepared it.                    *)
JournalInv ==
    /\ OneOpen
    /\ \A p \in Proc : Entering(p) => Unresolved = {}
    /\ \A p \in Proc : pc[p] \in {"judge", "restore"} => goal[p] # "integrate"

(* Nobody gets on the way to a new row while one is open.                  *)
LEMMA EnterStep ==
    ASSUME ProcOk, JournalInv, [Next]_vars
    PROVE  \A q \in Proc : Entering(q)' => Unresolved = {}
<1> USE DEF Entering, ProcOk
<1>1. ASSUME NEW p \in Proc, AcquireIntegration(p)
      PROVE  \A q \in Proc : Entering(q)' => Unresolved = {}
  BY <1>1 DEF AcquireIntegration, JournalInv
<1>2. ASSUME NEW p \in Proc, Release(p)
      PROVE  \A q \in Proc : Entering(q)' => Unresolved = {}
  BY <1>2 DEF Release, JournalInv
<1>3. ASSUME NEW p \in Proc, PassNothing(p)
      PROVE  \A q \in Proc : Entering(q)' => Unresolved = {}
  BY <1>3 DEF PassNothing, Goto, GotoWriting, EndPass, JournalInv
<1>4. ASSUME NEW p \in Proc, EvidenceLost(p)
      PROVE  \A q \in Proc : Entering(q)' => Unresolved = {}
  BY <1>4 DEF EvidenceLost, GotoWriting, EndPass, Quarantine, JournalInv
<1>5. ASSUME NEW p \in Proc, Judge(p)
      PROVE  \A q \in Proc : Entering(q)' => Unresolved = {}
  BY <1>5 DEF Judge, Goto, GotoWriting, EndPass, Quarantine, JournalInv
<1>6. ASSUME NEW p \in Proc, RestoreFailed(p)
      PROVE  \A q \in Proc : Entering(q)' => Unresolved = {}
  BY <1>6 DEF RestoreFailed, GotoWriting, EndPass, Quarantine, JournalInv
<1>7. ASSUME NEW p \in Proc, VerifyRestore(p)
      PROVE  \A q \in Proc : Entering(q)' => Unresolved = {}
  BY <1>7 DEF VerifyRestore, Goto, GotoWriting, EndPass, Quarantine, JournalInv
<1>9. ASSUME NEW p \in Proc, Snapshot(p)
      PROVE  \A q \in Proc : Entering(q)' => Unresolved = {}
  BY <1>9 DEF Snapshot, Goto, JournalInv
<1>10. ASSUME NEW p \in Proc, PrepareRefused(p)
      PROVE  \A q \in Proc : Entering(q)' => Unresolved = {}
  BY <1>10 DEF PrepareRefused, Goto, JournalInv
<1>11. ASSUME NEW p \in Proc, OwnershipLost(p)
      PROVE  \A q \in Proc : Entering(q)' => Unresolved = {}
  BY <1>11 DEF OwnershipLost, GotoWriting, JournalInv
<1>12. ASSUME NEW p \in Proc, StartApply(p)
      PROVE  \A q \in Proc : Entering(q)' => Unresolved = {}
  BY <1>12 DEF StartApply, Goto, JournalInv
<1>13. ASSUME NEW p \in Proc, CheckTarget(p)
      PROVE  \A q \in Proc : Entering(q)' => Unresolved = {}
  BY <1>13 DEF CheckTarget, Goto, GotoWriting, JournalInv
<1>14. ASSUME NEW p \in Proc, WriteFailed(p)
      PROVE  \A q \in Proc : Entering(q)' => Unresolved = {}
  BY <1>14 DEF WriteFailed, GotoWriting, JournalInv
<1>15. ASSUME NEW p \in Proc, VerifyApplied(p)
      PROVE  \A q \in Proc : Entering(q)' => Unresolved = {}
  BY <1>15 DEF VerifyApplied, Goto, Advance, JournalInv
<1>16. ASSUME NEW p \in Proc, StartValidation(p)
      PROVE  \A q \in Proc : Entering(q)' => Unresolved = {}
  BY <1>16 DEF StartValidation, Goto, Advance, JournalInv
<1>17. ASSUME NEW p \in Proc, ValidationUnconfirmed(p)
      PROVE  \A q \in Proc : Entering(q)' => Unresolved = {}
  BY <1>17 DEF ValidationUnconfirmed, Goto, JournalInv
<1>18. ASSUME NEW p \in Proc, ValidationEnded(p)
      PROVE  \A q \in Proc : Entering(q)' => Unresolved = {}
  BY <1>18 DEF ValidationEnded, Goto, JournalInv
<1>19. ASSUME NEW p \in Proc, Accept(p)
      PROVE  \A q \in Proc : Entering(q)' => Unresolved = {}
  BY <1>19 DEF Accept, Goto, Advance, JournalInv
<1>20. ASSUME NEW p \in Proc, Commit(p)
      PROVE  \A q \in Proc : Entering(q)' => Unresolved = {}
  BY <1>20 DEF Commit, Goto, Advance, JournalInv
<1>21. ASSUME NEW p \in Proc, Undo(p)
      PROVE  \A q \in Proc : Entering(q)' => Unresolved = {}
  BY <1>21 DEF Undo, GotoWriting, JournalInv
<1>22. ASSUME NEW p \in Proc, UnrollEnd(p)
      PROVE  \A q \in Proc : Entering(q)' => Unresolved = {}
  BY <1>22 DEF UnrollEnd, Goto, GotoWriting, JournalInv
<1>23. ASSUME NEW p \in Proc, Finally(p)
      PROVE  \A q \in Proc : Entering(q)' => Unresolved = {}
  BY <1>23 DEF Finally, Goto, JournalInv
<1>24. ASSUME NEW p \in Proc, Unblock(p)
      PROVE  \A q \in Proc : Entering(q)' => Unresolved = {}
  BY <1>24 DEF Unblock, JournalInv
<1>25. ASSUME NEW p \in Proc, Abort(p)
      PROVE  \A q \in Proc : Entering(q)' => Unresolved = {}
  BY <1>25 DEF Abort, JournalInv
<1>26. ASSUME NEW p \in Proc, Lapse(p)
      PROVE  \A q \in Proc : Entering(q)' => Unresolved = {}
  BY <1>26 DEF Lapse, JournalInv
<1>27. ASSUME NEW p \in Proc, Crash(p)
      PROVE  \A q \in Proc : Entering(q)' => Unresolved = {}
  BY <1>27 DEF Crash, JournalInv
<1>28. ASSUME NEW p \in Proc, NEW g \in {"recover", "verify", "accept"},
        AcquireRecovery(p, g)
      PROVE  \A q \in Proc : Entering(q)' => Unresolved = {}
  BY <1>28 DEF AcquireRecovery, JournalInv
<1>29. ASSUME NEW p \in Proc, NEW o \in Oper, PassQuarantined(p, o)
      PROVE  \A q \in Proc : Entering(q)' => Unresolved = {}
  BY <1>29 DEF PassQuarantined, GotoWriting, EndPass, JournalInv
<1>30. ASSUME NEW p \in Proc, NEW o \in Oper, BeginRecovery(p, o)
      PROVE  \A q \in Proc : Entering(q)' => Unresolved = {}
  BY <1>30 DEF BeginRecovery, GotoWriting, EndPass, JournalInv
<1>31. ASSUME NEW p \in Proc, NEW o \in Oper, VerifyRestored(p, o)
      PROVE  \A q \in Proc : Entering(q)' => Unresolved = {}
  BY <1>31 DEF VerifyRestored, Candidates, Unresolved, Goto, Resolved, JournalInv
<1>32. ASSUME NEW p \in Proc, NEW o \in Oper, AcceptCurrent(p, o)
      PROVE  \A q \in Proc : Entering(q)' => Unresolved = {}
  BY <1>32 DEF AcceptCurrent, Candidates, Unresolved, Goto, Resolved, JournalInv
<1>33. ASSUME NEW p \in Proc, NEW o \in Oper, NEW c \in Patch, Prepare(p, o, c)
      PROVE  \A q \in Proc : Entering(q)' => Unresolved = {}
  BY <1>33 DEF Prepare, JournalInv
<1>34. ASSUME NEW p \in Proc, NEW f \in File, RestoreOne(p, f)
      PROVE  \A q \in Proc : Entering(q)' => Unresolved = {}
  BY <1>34 DEF RestoreOne, JournalInv
<1>35. ASSUME NEW p \in Proc, NEW f \in File, WriteOne(p, f)
      PROVE  \A q \in Proc : Entering(q)' => Unresolved = {}
  BY <1>35 DEF WriteOne, JournalInv
<1>36. ASSUME NEW p \in Proc, NEW f \in File, UnrollOne(p, f)
      PROVE  \A q \in Proc : Entering(q)' => Unresolved = {}
  BY <1>36 DEF UnrollOne, JournalInv
<1>37. ASSUME NEW f \in File, Edit(f)
      PROVE  \A q \in Proc : Entering(q)' => Unresolved = {}
  BY <1>37 DEF Edit, JournalInv
<1>38. ASSUME NEW f \in File, Discard(f)
      PROVE  \A q \in Proc : Entering(q)' => Unresolved = {}
  BY <1>38 DEF Discard, JournalInv
<1>39. ASSUME GitCommit
      PROVE  \A q \in Proc : Entering(q)' => Unresolved = {}
  BY <1>39 DEF GitCommit, JournalInv
<1>40. ASSUME NEW o \in Oper, GitReset(o)
      PROVE  \A q \in Proc : Entering(q)' => Unresolved = {}
  BY <1>40 DEF GitReset, JournalInv
<1>50. CASE UNCHANGED vars
  BY <1>50 DEF JournalInv, vars
<1> QED
  BY <1>1, <1>2, <1>3, <1>4, <1>5, <1>6, <1>7, <1>9, <1>10, <1>11, <1>12,
        <1>13, <1>14, <1>15, <1>16, <1>17, <1>18, <1>19, <1>20, <1>21, <1>22, <1>23,
        <1>24, <1>25, <1>26, <1>27, <1>28, <1>29, <1>30, <1>31, <1>32, <1>33, <1>34,
        <1>35, <1>36, <1>37, <1>38, <1>39, <1>40, <1>50
     DEF Next, Step, RecoveryStep, ResolutionStep, IntegrationStep, Environment

(* A pass inside an integration finds nothing to recover: the lock would   *)
(* not have been granted.                                                  *)
LEMMA GoalStep ==
    ASSUME ProcOk, JournalInv, [Next]_vars
    PROVE  \A q \in Proc : pc'[q] \in {"judge", "restore"} => goal'[q] # "integrate"
<1>1. ASSUME NEW p \in Proc, AcquireIntegration(p)
      PROVE  \A q \in Proc : pc'[q] \in {"judge", "restore"} => goal'[q] # "integrate"
  BY <1>1 DEF AcquireIntegration, JournalInv, ProcOk
<1>2. ASSUME NEW p \in Proc, Release(p)
      PROVE  \A q \in Proc : pc'[q] \in {"judge", "restore"} => goal'[q] # "integrate"
  BY <1>2 DEF Release, JournalInv, ProcOk
<1>3. ASSUME NEW p \in Proc, PassNothing(p)
      PROVE  \A q \in Proc : pc'[q] \in {"judge", "restore"} => goal'[q] # "integrate"
  BY <1>3 DEF PassNothing, Goto, GotoWriting, EndPass, JournalInv, ProcOk
<1>4. ASSUME NEW p \in Proc, EvidenceLost(p)
      PROVE  \A q \in Proc : pc'[q] \in {"judge", "restore"} => goal'[q] # "integrate"
  BY <1>4 DEF EvidenceLost, GotoWriting, EndPass, Quarantine, JournalInv, ProcOk
<1>5. ASSUME NEW p \in Proc, Judge(p)
      PROVE  \A q \in Proc : pc'[q] \in {"judge", "restore"} => goal'[q] # "integrate"
  BY <1>5 DEF Judge, Goto, GotoWriting, EndPass, Quarantine, JournalInv, ProcOk
<1>6. ASSUME NEW p \in Proc, RestoreFailed(p)
      PROVE  \A q \in Proc : pc'[q] \in {"judge", "restore"} => goal'[q] # "integrate"
  BY <1>6 DEF RestoreFailed, GotoWriting, EndPass, Quarantine, JournalInv, ProcOk
<1>7. ASSUME NEW p \in Proc, VerifyRestore(p)
      PROVE  \A q \in Proc : pc'[q] \in {"judge", "restore"} => goal'[q] # "integrate"
  BY <1>7 DEF VerifyRestore, Goto, GotoWriting, EndPass, Quarantine, JournalInv, ProcOk
<1>9. ASSUME NEW p \in Proc, Snapshot(p)
      PROVE  \A q \in Proc : pc'[q] \in {"judge", "restore"} => goal'[q] # "integrate"
  BY <1>9 DEF Snapshot, Goto, JournalInv, ProcOk
<1>10. ASSUME NEW p \in Proc, PrepareRefused(p)
      PROVE  \A q \in Proc : pc'[q] \in {"judge", "restore"} => goal'[q] # "integrate"
  BY <1>10 DEF PrepareRefused, Goto, JournalInv, ProcOk
<1>11. ASSUME NEW p \in Proc, OwnershipLost(p)
      PROVE  \A q \in Proc : pc'[q] \in {"judge", "restore"} => goal'[q] # "integrate"
  BY <1>11 DEF OwnershipLost, GotoWriting, JournalInv, ProcOk
<1>12. ASSUME NEW p \in Proc, StartApply(p)
      PROVE  \A q \in Proc : pc'[q] \in {"judge", "restore"} => goal'[q] # "integrate"
  BY <1>12 DEF StartApply, Goto, JournalInv, ProcOk
<1>13. ASSUME NEW p \in Proc, CheckTarget(p)
      PROVE  \A q \in Proc : pc'[q] \in {"judge", "restore"} => goal'[q] # "integrate"
  BY <1>13 DEF CheckTarget, Goto, GotoWriting, JournalInv, ProcOk
<1>14. ASSUME NEW p \in Proc, WriteFailed(p)
      PROVE  \A q \in Proc : pc'[q] \in {"judge", "restore"} => goal'[q] # "integrate"
  BY <1>14 DEF WriteFailed, GotoWriting, JournalInv, ProcOk
<1>15. ASSUME NEW p \in Proc, VerifyApplied(p)
      PROVE  \A q \in Proc : pc'[q] \in {"judge", "restore"} => goal'[q] # "integrate"
  BY <1>15 DEF VerifyApplied, Goto, Advance, JournalInv, ProcOk
<1>16. ASSUME NEW p \in Proc, StartValidation(p)
      PROVE  \A q \in Proc : pc'[q] \in {"judge", "restore"} => goal'[q] # "integrate"
  BY <1>16 DEF StartValidation, Goto, Advance, JournalInv, ProcOk
<1>17. ASSUME NEW p \in Proc, ValidationUnconfirmed(p)
      PROVE  \A q \in Proc : pc'[q] \in {"judge", "restore"} => goal'[q] # "integrate"
  BY <1>17 DEF ValidationUnconfirmed, Goto, JournalInv, ProcOk
<1>18. ASSUME NEW p \in Proc, ValidationEnded(p)
      PROVE  \A q \in Proc : pc'[q] \in {"judge", "restore"} => goal'[q] # "integrate"
  BY <1>18 DEF ValidationEnded, Goto, JournalInv, ProcOk
<1>19. ASSUME NEW p \in Proc, Accept(p)
      PROVE  \A q \in Proc : pc'[q] \in {"judge", "restore"} => goal'[q] # "integrate"
  BY <1>19 DEF Accept, Goto, Advance, JournalInv, ProcOk
<1>20. ASSUME NEW p \in Proc, Commit(p)
      PROVE  \A q \in Proc : pc'[q] \in {"judge", "restore"} => goal'[q] # "integrate"
  BY <1>20 DEF Commit, Goto, Advance, JournalInv, ProcOk
<1>21. ASSUME NEW p \in Proc, Undo(p)
      PROVE  \A q \in Proc : pc'[q] \in {"judge", "restore"} => goal'[q] # "integrate"
  BY <1>21 DEF Undo, GotoWriting, JournalInv, ProcOk
<1>22. ASSUME NEW p \in Proc, UnrollEnd(p)
      PROVE  \A q \in Proc : pc'[q] \in {"judge", "restore"} => goal'[q] # "integrate"
  BY <1>22 DEF UnrollEnd, Goto, GotoWriting, JournalInv, ProcOk
<1>23. ASSUME NEW p \in Proc, Finally(p)
      PROVE  \A q \in Proc : pc'[q] \in {"judge", "restore"} => goal'[q] # "integrate"
  BY <1>23 DEF Finally, Goto, JournalInv, ProcOk
<1>24. ASSUME NEW p \in Proc, Unblock(p)
      PROVE  \A q \in Proc : pc'[q] \in {"judge", "restore"} => goal'[q] # "integrate"
  BY <1>24 DEF Unblock, JournalInv, ProcOk
<1>25. ASSUME NEW p \in Proc, Abort(p)
      PROVE  \A q \in Proc : pc'[q] \in {"judge", "restore"} => goal'[q] # "integrate"
  BY <1>25 DEF Abort, JournalInv, ProcOk
<1>26. ASSUME NEW p \in Proc, Lapse(p)
      PROVE  \A q \in Proc : pc'[q] \in {"judge", "restore"} => goal'[q] # "integrate"
  BY <1>26 DEF Lapse, JournalInv, ProcOk
<1>27. ASSUME NEW p \in Proc, Crash(p)
      PROVE  \A q \in Proc : pc'[q] \in {"judge", "restore"} => goal'[q] # "integrate"
  BY <1>27 DEF Crash, JournalInv, ProcOk
<1>28. ASSUME NEW p \in Proc, NEW g \in {"recover", "verify", "accept"},
        AcquireRecovery(p, g)
      PROVE  \A q \in Proc : pc'[q] \in {"judge", "restore"} => goal'[q] # "integrate"
  BY <1>28 DEF AcquireRecovery, JournalInv, ProcOk
<1>29. ASSUME NEW p \in Proc, NEW o \in Oper, PassQuarantined(p, o)
      PROVE  \A q \in Proc : pc'[q] \in {"judge", "restore"} => goal'[q] # "integrate"
  BY <1>29 DEF PassQuarantined, GotoWriting, EndPass, JournalInv, ProcOk
<1>30. ASSUME NEW p \in Proc, NEW o \in Oper, BeginRecovery(p, o)
      PROVE  \A q \in Proc : pc'[q] \in {"judge", "restore"} => goal'[q] # "integrate"
  <2>1. CASE lock = p
    <3>1. goal[p] # "integrate"
      BY <2>1, <1>30 DEF BeginRecovery, Candidates, Entering, JournalInv
    <3> QED BY <2>1, <3>1, <1>30 DEF BeginRecovery, JournalInv, ProcOk
  <2>2. CASE lock # p
    BY <2>2, <1>30 DEF BeginRecovery, EndPass, GotoWriting, JournalInv, ProcOk
  <2> QED BY <2>1, <2>2
<1>31. ASSUME NEW p \in Proc, NEW o \in Oper, VerifyRestored(p, o)
      PROVE  \A q \in Proc : pc'[q] \in {"judge", "restore"} => goal'[q] # "integrate"
  BY <1>31 DEF VerifyRestored, Candidates, Unresolved, Goto, Resolved, JournalInv, ProcOk
<1>32. ASSUME NEW p \in Proc, NEW o \in Oper, AcceptCurrent(p, o)
      PROVE  \A q \in Proc : pc'[q] \in {"judge", "restore"} => goal'[q] # "integrate"
  BY <1>32 DEF AcceptCurrent, Candidates, Unresolved, Goto, Resolved, JournalInv, ProcOk
<1>33. ASSUME NEW p \in Proc, NEW o \in Oper, NEW c \in Patch, Prepare(p, o, c)
      PROVE  \A q \in Proc : pc'[q] \in {"judge", "restore"} => goal'[q] # "integrate"
  BY <1>33 DEF Prepare, JournalInv, ProcOk
<1>34. ASSUME NEW p \in Proc, NEW f \in File, RestoreOne(p, f)
      PROVE  \A q \in Proc : pc'[q] \in {"judge", "restore"} => goal'[q] # "integrate"
  BY <1>34 DEF RestoreOne, JournalInv, ProcOk
<1>35. ASSUME NEW p \in Proc, NEW f \in File, WriteOne(p, f)
      PROVE  \A q \in Proc : pc'[q] \in {"judge", "restore"} => goal'[q] # "integrate"
  BY <1>35 DEF WriteOne, JournalInv, ProcOk
<1>36. ASSUME NEW p \in Proc, NEW f \in File, UnrollOne(p, f)
      PROVE  \A q \in Proc : pc'[q] \in {"judge", "restore"} => goal'[q] # "integrate"
  BY <1>36 DEF UnrollOne, JournalInv, ProcOk
<1>37. ASSUME NEW f \in File, Edit(f)
      PROVE  \A q \in Proc : pc'[q] \in {"judge", "restore"} => goal'[q] # "integrate"
  BY <1>37 DEF Edit, JournalInv, ProcOk
<1>38. ASSUME NEW f \in File, Discard(f)
      PROVE  \A q \in Proc : pc'[q] \in {"judge", "restore"} => goal'[q] # "integrate"
  BY <1>38 DEF Discard, JournalInv, ProcOk
<1>39. ASSUME GitCommit
      PROVE  \A q \in Proc : pc'[q] \in {"judge", "restore"} => goal'[q] # "integrate"
  BY <1>39 DEF GitCommit, JournalInv, ProcOk
<1>40. ASSUME NEW o \in Oper, GitReset(o)
      PROVE  \A q \in Proc : pc'[q] \in {"judge", "restore"} => goal'[q] # "integrate"
  BY <1>40 DEF GitReset, JournalInv, ProcOk
<1>50. CASE UNCHANGED vars
  BY <1>50 DEF JournalInv, vars
<1> QED
  BY <1>1, <1>2, <1>3, <1>4, <1>5, <1>6, <1>7, <1>9, <1>10, <1>11, <1>12,
        <1>13, <1>14, <1>15, <1>16, <1>17, <1>18, <1>19, <1>20, <1>21, <1>22, <1>23,
        <1>24, <1>25, <1>26, <1>27, <1>28, <1>29, <1>30, <1>31, <1>32, <1>33, <1>34,
        <1>35, <1>36, <1>37, <1>38, <1>39, <1>40, <1>50
     DEF Next, Step, RecoveryStep, ResolutionStep, IntegrationStep, Environment

(* Every step keeps the journal to one open row.                           *)
LEMMA JournalStep ==
    ASSUME ProcOk, RowOk, JournalInv, [Next]_vars
    PROVE  JournalInv'
<1>1. ASSUME NEW r \in Oper, r \in Unresolved', r \notin Unresolved
      PROVE  \E p \in Proc, c \in Patch : Prepare(p, r, c)
  <2>1. Moves(r)
    BY MoveStep
  <2> QED BY <1>1, <2>1 DEF Moves, Unresolved, recoverableStatuses,
                         INTEGRATION_RESOLVED_STATUSES
<1>2. OneOpen'
  <2>1. SUFFICES ASSUME NEW r \in Unresolved', NEW q \in Unresolved'
                 PROVE  r = q
    BY DEF OneOpen
  <2>2. r \in Oper /\ q \in Oper
    BY DEF Unresolved
  <2>3. CASE r \in Unresolved /\ q \in Unresolved
    BY <2>3 DEF JournalInv, OneOpen
  <2>4. ASSUME NEW x \in Oper, NEW p \in Proc, NEW c \in Patch, Prepare(p, x, c)
        PROVE  \A y \in Unresolved' : y = x
    <3>1. Entering(p)
      BY <2>4 DEF Prepare, Entering
    <3>2. Unresolved = {}
      BY <3>1 DEF JournalInv
    <3>3. \A y \in Oper : y # x => ost'[y] = ost[y]
      BY <2>4 DEF Prepare, RowOk
    <3> QED BY <3>2, <3>3 DEF Unresolved
  <2>5. CASE r \notin Unresolved
    BY <1>1, <2>2, <2>4, <2>5
  <2>6. CASE q \notin Unresolved
    BY <1>1, <2>2, <2>4, <2>6
  <2> QED BY <2>3, <2>5, <2>6
<1>3. ASSUME NEW q \in Proc, Entering(q)'
      PROVE  Unresolved' = {}
  <2>1. Unresolved = {}
    BY <1>3, EnterStep
  <2>2. ASSUME NEW r \in Unresolved'
        PROVE  FALSE
    <3>1. PICK p \in Proc, c \in Patch : Prepare(p, r, c)
      BY <1>1, <2>1, <2>2 DEF Unresolved
    <3>2. lock' = p /\ pc'[p] = "apply"
      BY <3>1 DEF Prepare, ProcOk
    <3> QED BY <1>3, <3>2 DEF Entering
  <2> QED BY <2>2
<1> QED BY <1>2, <1>3, GoalStep DEF JournalInv
-----------------------------------------------------------------------------
(* An edit owed to the user is on disk, nobody plans to write its file,    *)
(* and no snapshot, no HEAD and no recorded HEAD holds it: nothing the     *)
(* bridge compares the disk with can make it take the edit for its own.    *)
EditInv ==
    \A f \in File : safe[f] # 0 =>
        /\ disk[f] = safe[f] /\ git[f] # safe[f]
        /\ \A p \in Proc : f \notin todo[p] /\ base[p][f] # safe[f]
        /\ \A o \in Oper : org[o][f] # safe[f]

(* No user edit is a committed or a patched content.                       *)
LEMMA NotAnEdit ==
    ASSUME ContentOk, NEW f \in File, NEW c \in Patch \cup {Base}
    PROVE  safe[f] # c
<1>1. safe[f] \in Nat
  BY DEF ContentOk
<1> QED BY <1>1

(* A step that writes no content and plans no new write keeps EditInv.     *)
LEMMA EditKept ==
    ASSUME EditInv, UNCHANGED <<disk, git, rows, base, safe>>,
           \A p \in Proc : todo'[p] \subseteq todo[p]
    PROVE  EditInv'
BY DEF EditInv

(* Every step keeps the edits owed to the user.                            *)
LEMMA EditStep ==
    ASSUME ProcOk, ContentOk, EditInv, [Next]_vars
    PROVE  EditInv'
<1>1. ASSUME NEW p \in Proc, AcquireIntegration(p)
      PROVE  EditInv'
  BY <1>1, EditKept DEF AcquireIntegration, ProcOk
<1>2. ASSUME NEW p \in Proc, Release(p)
      PROVE  EditInv'
  <2>1. \A f \in File : Image(Base)[f] # safe[f]
    BY NotAnEdit DEF Image
  <2> QED BY <2>1, <1>2 DEF Release, EditInv, ProcOk, ContentOk
<1>3. ASSUME NEW p \in Proc, PassNothing(p)
      PROVE  EditInv'
  BY <1>3, EditKept DEF PassNothing, Goto, GotoWriting, EndPass, ProcOk
<1>4. ASSUME NEW p \in Proc, EvidenceLost(p)
      PROVE  EditInv'
  BY <1>4, EditKept DEF EvidenceLost, GotoWriting, EndPass, Quarantine, ProcOk
<1>5. ASSUME NEW p \in Proc, Judge(p)
      PROVE  EditInv'
  <2>1. /\ UNCHANGED <<disk, git, rows, base, safe>>
        /\ post[cur[p]] \in Patch \cup {Base}
    BY <1>5 DEF Judge, Goto, GotoWriting, EndPass, Quarantine, ProcOk, ContentOk,
        Working
  <2>2. ASSUME NEW fs \in SUBSET File, todo' = [todo EXCEPT ![p] = fs],
               \A f \in fs : disk[f] = post[cur[p]]
        PROVE  EditInv'
    <3>1. \A f \in fs : safe[f] = 0
      BY <2>1, <2>2, NotAnEdit DEF EditInv
    <3> QED BY <2>1, <2>2, <3>1 DEF EditInv, ProcOk
  <2>3. ASSUME GotoWriting(p, "restore", AtPost(cur[p])) PROVE EditInv'
    BY <2>2, <2>3 DEF GotoWriting, AtPost
  <2>4. ASSUME UNCHANGED todo PROVE EditInv'
    BY <2>1, <2>4, EditKept DEF ProcOk
  <2>5. ASSUME EndPass(p, FALSE) PROVE EditInv'
    BY <2>2, <2>5 DEF EndPass, GotoWriting
  <2> QED BY <2>3, <2>4, <2>5, <1>5 DEF Judge, Quarantine, Goto
<1>6. ASSUME NEW p \in Proc, RestoreFailed(p)
      PROVE  EditInv'
  BY <1>6, EditKept DEF RestoreFailed, GotoWriting, EndPass, Quarantine, ProcOk
<1>7. ASSUME NEW p \in Proc, VerifyRestore(p)
      PROVE  EditInv'
  BY <1>7, EditKept DEF VerifyRestore, Goto, GotoWriting, EndPass, Quarantine, ProcOk
<1>9. ASSUME NEW p \in Proc, Snapshot(p)
      PROVE  EditInv'
  <2>1. UNCHANGED <<disk, git, rows, todo, safe>>
    BY <1>9 DEF Snapshot, Goto
  <2>2. CASE base' = [base EXCEPT ![p] = git]
    BY <2>1, <2>2 DEF EditInv, ContentOk
  <2>3. CASE UNCHANGED base
    BY <2>1, <2>3, EditKept DEF ProcOk
  <2> QED BY <2>2, <2>3, <1>9 DEF Snapshot, Goto
<1>10. ASSUME NEW p \in Proc, PrepareRefused(p)
      PROVE  EditInv'
  BY <1>10, EditKept DEF PrepareRefused, Goto, ProcOk
<1>11. ASSUME NEW p \in Proc, OwnershipLost(p)
      PROVE  EditInv'
  BY <1>11, EditKept DEF OwnershipLost, GotoWriting, ProcOk
<1>12. ASSUME NEW p \in Proc, StartApply(p)
      PROVE  EditInv'
  BY <1>12, EditKept DEF StartApply, Goto, ProcOk
<1>13. ASSUME NEW p \in Proc, CheckTarget(p)
      PROVE  EditInv'
  <2>1. UNCHANGED <<disk, git, rows, base, safe>>
    BY <1>13 DEF CheckTarget, Goto, GotoWriting
  <2>2. CASE disk = base[p]
    <3>1. \A f \in File : safe[f] = 0
      BY <2>2 DEF EditInv
    <3> QED BY <2>1, <3>1 DEF EditInv
  <2>3. CASE disk # base[p]
    <3>1. UNCHANGED todo
      BY <2>3, <1>13 DEF CheckTarget, Goto
    <3> QED BY <2>1, <3>1, EditKept DEF ProcOk
  <2> QED BY <2>2, <2>3
<1>14. ASSUME NEW p \in Proc, WriteFailed(p)
      PROVE  EditInv'
  BY <1>14, EditKept DEF WriteFailed, GotoWriting, ProcOk
<1>15. ASSUME NEW p \in Proc, VerifyApplied(p)
      PROVE  EditInv'
  BY <1>15, EditKept DEF VerifyApplied, Goto, Advance, ProcOk
<1>16. ASSUME NEW p \in Proc, StartValidation(p)
      PROVE  EditInv'
  BY <1>16, EditKept DEF StartValidation, Goto, Advance, ProcOk
<1>17. ASSUME NEW p \in Proc, ValidationUnconfirmed(p)
      PROVE  EditInv'
  BY <1>17, EditKept DEF ValidationUnconfirmed, Goto, ProcOk
<1>18. ASSUME NEW p \in Proc, ValidationEnded(p)
      PROVE  EditInv'
  BY <1>18, EditKept DEF ValidationEnded, Goto, ProcOk
<1>19. ASSUME NEW p \in Proc, Accept(p)
      PROVE  EditInv'
  BY <1>19, EditKept DEF Accept, Goto, Advance, ProcOk
<1>20. ASSUME NEW p \in Proc, Commit(p)
      PROVE  EditInv'
  BY <1>20, EditKept DEF Commit, Goto, Advance, ProcOk
<1>21. ASSUME NEW p \in Proc, Undo(p)
      PROVE  EditInv'
  <2>1. /\ UNCHANGED <<disk, git, rows, base, safe>>
        /\ post[cur[p]] \in Patch \cup {Base}
    BY <1>21 DEF Undo, GotoWriting, ProcOk, ContentOk, Working
  <2>2. ASSUME NEW fs \in SUBSET File, todo' = [todo EXCEPT ![p] = fs],
               \A f \in fs : disk[f] = post[cur[p]]
        PROVE  EditInv'
    <3>1. \A f \in fs : safe[f] = 0
      BY <2>1, <2>2, NotAnEdit DEF EditInv
    <3> QED BY <2>1, <2>2, <3>1 DEF EditInv, ProcOk
  <2> QED BY <2>2, <1>21 DEF Undo, GotoWriting
<1>22. ASSUME NEW p \in Proc, UnrollEnd(p)
      PROVE  EditInv'
  BY <1>22, EditKept DEF UnrollEnd, Goto, GotoWriting, ProcOk
<1>23. ASSUME NEW p \in Proc, Finally(p)
      PROVE  EditInv'
  BY <1>23, EditKept DEF Finally, Goto, ProcOk
<1>24. ASSUME NEW p \in Proc, Unblock(p)
      PROVE  EditInv'
  BY <1>24, EditKept DEF Unblock, ProcOk
<1>25. ASSUME NEW p \in Proc, Abort(p)
      PROVE  EditInv'
  BY <1>25, EditKept DEF Abort, ProcOk
<1>26. ASSUME NEW p \in Proc, Lapse(p)
      PROVE  EditInv'
  BY <1>26, EditKept DEF Lapse, ProcOk
<1>27. ASSUME NEW p \in Proc, Crash(p)
      PROVE  EditInv'
  <2>1. \A f \in File : Image(Base)[f] # safe[f]
    BY NotAnEdit DEF Image
  <2> QED BY <2>1, <1>27 DEF Crash, EditInv, ProcOk, ContentOk
<1>28. ASSUME NEW p \in Proc, NEW g \in {"recover", "verify", "accept"},
        AcquireRecovery(p, g)
      PROVE  EditInv'
  BY <1>28, EditKept DEF AcquireRecovery, ProcOk
<1>29. ASSUME NEW p \in Proc, NEW o \in Oper, PassQuarantined(p, o)
      PROVE  EditInv'
  BY <1>29, EditKept DEF PassQuarantined, GotoWriting, EndPass, ProcOk
<1>30. ASSUME NEW p \in Proc, NEW o \in Oper, BeginRecovery(p, o)
      PROVE  EditInv'
  BY <1>30, EditKept DEF BeginRecovery, GotoWriting, EndPass, ProcOk
<1>31. ASSUME NEW p \in Proc, NEW o \in Oper, VerifyRestored(p, o)
      PROVE  EditInv'
  BY <1>31, EditKept DEF VerifyRestored, Candidates, Unresolved, Goto, Resolved, ProcOk
<1>32. ASSUME NEW p \in Proc, NEW o \in Oper, AcceptCurrent(p, o)
      PROVE  EditInv'
  BY <1>32, EditKept DEF AcceptCurrent, Candidates, Unresolved, Goto, Resolved, ProcOk
<1>33. ASSUME NEW p \in Proc, NEW o \in Oper, NEW c \in Patch, Prepare(p, o, c)
      PROVE  EditInv'
  BY <1>33 DEF Prepare, EditInv, ContentOk
<1>34. ASSUME NEW p \in Proc, NEW f \in File, RestoreOne(p, f)
      PROVE  EditInv'
  <2>1. safe[f] = 0
    BY <1>34 DEF RestoreOne, EditInv
  <2> QED BY <2>1, <1>34 DEF RestoreOne, EditInv, ProcOk, ContentOk
<1>35. ASSUME NEW p \in Proc, NEW f \in File, WriteOne(p, f)
      PROVE  EditInv'
  <2>1. safe[f] = 0
    BY <1>35 DEF WriteOne, EditInv
  <2> QED BY <2>1, <1>35 DEF WriteOne, EditInv, ProcOk, ContentOk
<1>36. ASSUME NEW p \in Proc, NEW f \in File, UnrollOne(p, f)
      PROVE  EditInv'
  <2>1. safe[f] = 0
    BY <1>36 DEF UnrollOne, EditInv
  <2> QED BY <2>1, <1>36 DEF UnrollOne, EditInv, ProcOk, ContentOk
<1>37. ASSUME NEW f \in File, Edit(f)
      PROVE  EditInv'
  <2>0. PICK e : e = events + 1
    OBVIOUS
  <2>1. e \notin Content /\ e # 0
    <3>1. events \in Nat
      BY DEF ContentOk
    <3>2. e \in Nat /\ e \notin 1 .. events /\ e # 0
      BY <2>0, <3>1
    <3> QED BY <3>2, Zenon DEF Content
  <2>2. ASSUME NEW g \in File
        PROVE  /\ git[g] # e
               /\ \A p \in Proc : base[p][g] # e
               /\ \A o \in Oper : org[o][g] # e
    BY <2>1 DEF ContentOk
  <2>3. ASSUME NEW g \in File, g # f
        PROVE  safe'[g] = safe[g] /\ disk'[g] = disk[g]
    BY <2>3, <1>37 DEF Edit, ContentOk
  <2>4. /\ disk'[f] = e
        /\ safe'[f] = 0 \/ (safe'[f] = e /\ \A p \in Proc : f \notin todo[p])
        /\ git' = git /\ org' = org /\ base' = base /\ todo' = todo
    BY <2>0, <1>37 DEF Edit, ContentOk
  <2>5. ASSUME NEW g \in File, safe'[g] # 0
        PROVE  /\ disk'[g] = safe'[g] /\ git'[g] # safe'[g]
               /\ \A p \in Proc : g \notin todo'[p] /\ base'[p][g] # safe'[g]
               /\ \A o \in Oper : org'[o][g] # safe'[g]
    <3>1. CASE g = f
      BY <2>2, <2>4, <2>5, <3>1
    <3>2. CASE g # f
      BY <2>3, <2>4, <2>5, <3>2 DEF EditInv
    <3> QED BY <3>1, <3>2
  <2> QED BY <2>5 DEF EditInv
<1>38. ASSUME NEW f \in File, Discard(f)
      PROVE  EditInv'
  BY <1>38 DEF Discard, EditInv, ContentOk
<1>39. ASSUME GitCommit
      PROVE  EditInv'
  BY <1>39 DEF GitCommit, EditInv
<1>40. ASSUME NEW o \in Oper, GitReset(o)
      PROVE  EditInv'
  BY <1>40 DEF GitReset, EditInv
<1>50. CASE UNCHANGED vars
  BY <1>50 DEF EditInv, vars
<1> QED
  BY <1>1, <1>2, <1>3, <1>4, <1>5, <1>6, <1>7, <1>9, <1>10, <1>11, <1>12,
        <1>13, <1>14, <1>15, <1>16, <1>17, <1>18, <1>19, <1>20, <1>21, <1>22, <1>23,
        <1>24, <1>25, <1>26, <1>27, <1>28, <1>29, <1>30, <1>31, <1>32, <1>33, <1>34,
        <1>35, <1>36, <1>37, <1>38, <1>39, <1>40, <1>50
     DEF Next, Step, RecoveryStep, ResolutionStep, IntegrationStep, Environment

-----------------------------------------------------------------------------
(* A process that acts holds the lock, but for one whose lease lapsed while *)
(* its aborted validation ran: that one only has to leave.                  *)
HolderActs ==
    \A p \in Proc : \/ lock = p \/ pc[p] \in {"idle", "release"}
                    \/ pc[p] = "validate" /\ aborted[p]

(* What the holder of the lock knows where it is: the row it works on is    *)
(* open, and while nobody else writes, what it compared still holds.        *)
HolderKnows(p) ==
    /\ pc[p] \in Working => cur[p] \in Unresolved
    /\ ~user =>
         /\ pc[p] = "prepare" => base[p] = disk
         /\ pc[p] \in {"apply", "check"} => base[p] = disk /\ pre[cur[p]] = disk
         /\ pc[p] \in {"accept", "commit"} => disk = Image(post[cur[p]])

(* While nobody else writes, the checkout is what the last outcome left, or *)
(* an open row remembers that content as its pre-image.                     *)
FilesKnown ==
    /\ Unresolved = {} => disk = want
    /\ \A o \in Unresolved : pre[o] = want

WholeInv ==
    /\ HolderActs
    /\ \A p \in Proc : lock = p => HolderKnows(p)
    /\ ~user => FilesKnown

(* A step of one process leaves the lock, the abort signals and the other   *)
(* processes alone; one that lost its lease during validation leaves.       *)
Alone(p) ==
    /\ lock' = lock /\ aborted' = aborted
    /\ \A q \in Proc \ {p} : pc'[q] = pc[q]
    /\ pc[p] \notin {"idle", "release"}
    /\ pc[p] = "validate" /\ aborted[p] => pc'[p] = "release"

(* What a step of the lock holder establishes.                              *)
Keeps(p) == HolderKnows(p)' /\ (~user' => FilesKnown')

LEMMA RecoversAlone ==
    ASSUME ProcOk, NEW p \in Proc, RecoveryStep(p)
    PROVE  Alone(p)
<1> USE DEF ProcOk, Alone, Goto, GotoWriting, EndPass, Quarantine
<1>1. ASSUME PassNothing(p) PROVE Alone(p)
  BY <1>1 DEF PassNothing
<1>2. ASSUME NEW o \in Oper, PassQuarantined(p, o) PROVE Alone(p)
  BY <1>2 DEF PassQuarantined
<1>3. ASSUME NEW o \in Oper, BeginRecovery(p, o) PROVE Alone(p)
  BY <1>3 DEF BeginRecovery
<1>4. ASSUME EvidenceLost(p) PROVE Alone(p)
  BY <1>4 DEF EvidenceLost
<1>5. ASSUME Judge(p) PROVE Alone(p)
  BY <1>5 DEF Judge
<1>6. ASSUME NEW f \in File, RestoreOne(p, f) PROVE Alone(p)
  BY <1>6 DEF RestoreOne
<1>7. ASSUME RestoreFailed(p) PROVE Alone(p)
  BY <1>7 DEF RestoreFailed
<1>8. ASSUME VerifyRestore(p) PROVE Alone(p)
  BY <1>8 DEF VerifyRestore
<1> QED BY <1>1, <1>2, <1>3, <1>4, <1>5, <1>6, <1>7, <1>8 DEF RecoveryStep

LEMMA IntegratesAlone ==
    ASSUME ProcOk, NEW p \in Proc, IntegrationStep(p) \/ ResolutionStep(p)
    PROVE  Alone(p)
<1> USE DEF ProcOk, Alone, Goto, GotoWriting, Advance
<1>1. ASSUME Snapshot(p) PROVE Alone(p)
  BY <1>1 DEF Snapshot
<1>2. ASSUME NEW o \in Oper, NEW c \in Patch, Prepare(p, o, c) PROVE Alone(p)
  BY <1>2 DEF Prepare
<1>3. ASSUME PrepareRefused(p) PROVE Alone(p)
  BY <1>3 DEF PrepareRefused
<1>4. ASSUME OwnershipLost(p) PROVE Alone(p)
  BY <1>4 DEF OwnershipLost
<1>5. ASSUME StartApply(p) PROVE Alone(p)
  BY <1>5 DEF StartApply
<1>6. ASSUME CheckTarget(p) PROVE Alone(p)
  BY <1>6 DEF CheckTarget
<1>7. ASSUME NEW f \in File, WriteOne(p, f) PROVE Alone(p)
  BY <1>7 DEF WriteOne
<1>8. ASSUME WriteFailed(p) PROVE Alone(p)
  BY <1>8 DEF WriteFailed
<1>9. ASSUME VerifyApplied(p) PROVE Alone(p)
  BY <1>9 DEF VerifyApplied
<1>10. ASSUME StartValidation(p) PROVE Alone(p)
  BY <1>10 DEF StartValidation
<1>11. ASSUME ValidationUnconfirmed(p) PROVE Alone(p)
  BY <1>11 DEF ValidationUnconfirmed
<1>12. ASSUME ValidationEnded(p) PROVE Alone(p)
  BY <1>12 DEF ValidationEnded
<1>13. ASSUME Accept(p) PROVE Alone(p)
  BY <1>13 DEF Accept
<1>14. ASSUME Commit(p) PROVE Alone(p)
  BY <1>14 DEF Commit
<1>15. ASSUME Undo(p) PROVE Alone(p)
  BY <1>15 DEF Undo
<1>16. ASSUME UnrollEnd(p) PROVE Alone(p)
  BY <1>16 DEF UnrollEnd
<1>17. ASSUME Finally(p) PROVE Alone(p)
  BY <1>17 DEF Finally
<1>18. ASSUME NEW f \in File, UnrollOne(p, f) PROVE Alone(p)
  BY <1>18 DEF UnrollOne
<1>19. ASSUME NEW o \in Oper, VerifyRestored(p, o) PROVE Alone(p)
  BY <1>19 DEF VerifyRestored, Resolved
<1>20. ASSUME NEW o \in Oper, AcceptCurrent(p, o) PROVE Alone(p)
  BY <1>20 DEF AcceptCurrent, Resolved
<1> QED
  BY <1>1, <1>2, <1>3, <1>4, <1>5, <1>6, <1>7, <1>8, <1>9, <1>10, <1>11, <1>12, <1>13,
     <1>14, <1>15, <1>16, <1>17, <1>18, <1>19, <1>20 DEF IntegrationStep, ResolutionStep

(* A step that moves its process only, to a place where nothing new is      *)
(* known, keeps what is known.                                              *)
LEMMA MovesOnly ==
    ASSUME NEW p \in Proc, HolderKnows(p), ~user => FilesKnown,
           UNCHANGED <<disk, ost, pre, want, user>>,
           \/ pc'[p] \notin Working \cup {"prepare"}
           \/ /\ pc'[p] \in Working \ {"apply", "check", "accept", "commit"}
              /\ pc[p] \in Working /\ cur'[p] = cur[p]
    PROVE  Keeps(p)
BY DEF Keeps, HolderKnows, FilesKnown, Unresolved, Working

(* The only open row is the one the lock holder works on.                   *)
LEMMA OpenRow ==
    ASSUME JournalInv, NEW p \in Proc, HolderKnows(p), pc[p] \in Working
    PROVE  Unresolved = {cur[p]} /\ cur[p] \in Oper
BY DEF JournalInv, OneOpen, HolderKnows, Unresolved

(* A row that stays open leaves what is known of the rows.                  *)
LEMMA StaysOpen ==
    ASSUME ProcOk, RowOk, JournalInv, NEW p \in Proc, HolderKnows(p), pc[p] \in Working,
           ~user => FilesKnown, NEW s \in {"quarantined"} \cup recoverableStatuses,
           ost' = [ost EXCEPT ![cur[p]] = s], UNCHANGED <<pre, want, user>>
    PROVE  Unresolved' = {cur[p]} /\ (~user' => FilesKnown')
<1>1. Unresolved = {cur[p]} /\ cur[p] \in Oper
  BY OpenRow
<1>2. ost' \in [Oper -> Status] /\ ost'[cur[p]] = s /\ \A o \in Oper \ {cur[p]} : ost'[o] = ost[o]
  BY <1>1 DEF RowOk, Status
<1>3. Unresolved' = {cur[p]}
  BY <1>1, <1>2 DEF Unresolved, recoverableStatuses, INTEGRATION_RESOLVED_STATUSES
<1> QED BY <1>1, <1>3 DEF FilesKnown

(* A row that ends leaves none open; the checkout then has to be what the   *)
(* row's outcome says.                                                      *)
LEMMA Ends ==
    ASSUME ProcOk, RowOk, JournalInv, NEW r \in Oper, r \in Unresolved,
           NEW s \in INTEGRATION_RESOLVED_STATUSES,
           ost' = [ost EXCEPT ![r] = s]
    PROVE  Unresolved' = {}
<1>1. \A o \in Unresolved : o = r
  BY DEF JournalInv, OneOpen
<1>2. ost'[r] = s /\ \A o \in Oper \ {r} : ost'[o] = ost[o]
  BY DEF RowOk
<1> QED BY <1>1, <1>2 DEF Unresolved

(* What each step of recovery does when it is the lock holder's.            *)
LEMMA RecoveryKeeps ==
    ASSUME ProcOk, RowOk, ContentOk, JournalInv, NEW p \in Proc, lock = p, HolderKnows(p),
           ~user => FilesKnown, RecoveryStep(p)
    PROVE  Keeps(p)
<1> USE DEF Goto, GotoWriting, EndPass, Quarantine, Transition
<1> DEFINE Left == /\ UNCHANGED <<disk, pre, want, user>>
                   /\ pc'[p] = "release"
<1>0. /\ pc \in [Proc -> Label] /\ cur \in [Proc -> Oper \cup {NoOper}]
      /\ Working \cap {"pass", "release", "snapshot"} = {}
  BY DEF ProcOk, Working
<1>1. ASSUME PassNothing(p) PROVE Keeps(p)
  <2>1. pc'[p] \in {"snapshot", "release"} /\ UNCHANGED <<disk, ost, pre, want, user>>
    BY <1>0, <1>1 DEF PassNothing
  <2> QED BY <2>1, <1>0, MovesOnly
<1>2. ASSUME NEW o \in Oper, PassQuarantined(p, o) PROVE Keeps(p)
  <2>1. CASE Requalifies(o)
    <3>1. /\ ost' = [ost EXCEPT ![o] = "recovered_noop"] /\ disk = pre[o] /\ o \in Unresolved
          /\ pc'[p] = "pass" /\ UNCHANGED <<disk, pre, want, user>>
      BY <1>0, <1>2, <2>1 DEF PassQuarantined, Requalifies, Candidates
    <3>2. Unresolved' = {}
      BY <3>1, Ends DEF INTEGRATION_RESOLVED_STATUSES
    <3> QED BY <3>1, <3>2, <1>0 DEF Keeps, HolderKnows, FilesKnown
  <2>2. CASE ~Requalifies(o)
    <3>1. pc'[p] = "release" /\ UNCHANGED <<disk, ost, pre, want, user>>
      BY <1>0, <1>2, <2>2 DEF PassQuarantined
    <3> QED BY <3>1, <1>0, MovesOnly
  <2> QED BY <2>1, <2>2
<1>3. ASSUME NEW o \in Oper, BeginRecovery(p, o) PROVE Keeps(p)
  <2>1. /\ ost' = [ost EXCEPT ![o] = "recovering"] /\ o \in Unresolved
        /\ pc'[p] = "judge" /\ cur'[p] = o /\ UNCHANGED <<disk, pre, want, user>>
    BY <1>0, <1>3 DEF BeginRecovery, Candidates
  <2>2. Unresolved' = Unresolved
    BY <2>1 DEF Unresolved, RowOk, INTEGRATION_RESOLVED_STATUSES
  <2> QED BY <2>1, <2>2 DEF Keeps, HolderKnows, FilesKnown
<1>4. ASSUME pc[p] \in Working, NEW w, Quarantine(p, w), UNCHANGED <<disk, pre, want, user>>
      PROVE  Keeps(p)
  <2>1. pc'[p] = "release"
    BY <1>0, <1>4
  <2>2. CASE UNCHANGED ost
    BY <1>0, <1>4, <2>1, <2>2, MovesOnly
  <2>3. CASE ost' = [ost EXCEPT ![cur[p]] = "quarantined"]
    <3>1. ~user' => FilesKnown'
      BY <1>4, <2>3, StaysOpen
    <3> QED BY <1>0, <2>1, <3>1 DEF Keeps, HolderKnows
  <2> QED BY <1>4, <2>2, <2>3
<1>5. ASSUME pc[p] \in Working, EndPass(p, FALSE), UNCHANGED <<disk, ost, pre, want, user>>
      PROVE  Keeps(p)
  BY <1>0, <1>5, MovesOnly
<1>6. ASSUME EvidenceLost(p) PROVE Keeps(p)
  BY <1>4, <1>5, <1>6 DEF EvidenceLost, Working
<1>7. ASSUME Judge(p) PROVE Keeps(p)
  <2> DEFINE o == cur[p]
  <2>0. pc[p] \in Working /\ UNCHANGED <<disk, pre, want, user>>
    BY <1>7 DEF Judge, Working
  <2>1. o \in Oper /\ Unresolved = {o}
    BY <2>0, OpenRow
  <2>2. CASE \/ Quarantine(p, "git") \/ Quarantine(p, "drift")
             \/ EndPass(p, FALSE) /\ UNCHANGED ost
    BY <1>4, <1>5, <2>0, <2>2
  <2>3. CASE /\ AtPre(o) = File /\ ost' = [ost EXCEPT ![o] = "recovered_noop"]
             /\ Goto(p, "pass")
    <3>1. disk = pre[o]
      BY <2>1, <2>3 DEF AtPre, ContentOk
    <3>2. Unresolved' = {}
      BY <2>1, <2>3, Ends DEF INTEGRATION_RESOLVED_STATUSES
    <3> QED BY <1>0, <2>0, <2>1, <2>3, <3>1, <3>2 DEF Keeps, HolderKnows, FilesKnown
  <2>4. CASE /\ ost' = [ost EXCEPT ![o] = "rolling_back"]
             /\ GotoWriting(p, "restore", AtPost(o))
    <3>1. Unresolved' = {o} /\ (~user' => FilesKnown')
      BY <2>0, <2>4, StaysOpen DEF recoverableStatuses
    <3>2. pc'[p] = "restore" /\ cur'[p] = o
      BY <1>0, <2>4
    <3> QED BY <3>1, <3>2 DEF Keeps, HolderKnows
  <2> QED BY <1>7, <2>2, <2>3, <2>4 DEF Judge
<1>8. ASSUME NEW f \in File, RestoreOne(p, f) PROVE Keeps(p)
  <2>1. /\ pc[p] = "restore" /\ pc[p] \in Working
        /\ UNCHANGED <<ost, pre, want, user, pc, cur>>
    BY <1>8 DEF RestoreOne, Working
  <2>2. Unresolved = {cur[p]} /\ Unresolved' = Unresolved
    BY <2>1, OpenRow DEF Unresolved
  <2> QED BY <2>1, <2>2 DEF Keeps, HolderKnows, FilesKnown
<1>9. ASSUME RestoreFailed(p) PROVE Keeps(p)
  BY <1>4, <1>5, <1>9 DEF RestoreFailed, Working
<1>10. ASSUME VerifyRestore(p) PROVE Keeps(p)
  <2> DEFINE o == cur[p]
  <2>0. pc[p] \in Working /\ UNCHANGED <<disk, pre, want, user>>
    BY <1>10 DEF VerifyRestore, Working
  <2>1. o \in Oper /\ Unresolved = {o}
    BY <2>0, OpenRow
  <2>2. CASE \/ Quarantine(p, "git") \/ Quarantine(p, "verification")
             \/ EndPass(p, FALSE) /\ UNCHANGED ost
    BY <1>4, <1>5, <2>0, <2>2
  <2>3. CASE /\ disk = pre[o] /\ ost' = [ost EXCEPT ![o] = "rolled_back"]
             /\ Goto(p, "pass")
    <3>1. Unresolved' = {}
      BY <2>1, <2>3, Ends DEF INTEGRATION_RESOLVED_STATUSES
    <3> QED BY <1>0, <2>0, <2>1, <2>3, <3>1 DEF Keeps, HolderKnows, FilesKnown
  <2> QED BY <1>10, <2>2, <2>3 DEF VerifyRestore
<1> QED BY <1>1, <1>2, <1>3, <1>6, <1>7, <1>8, <1>9, <1>10 DEF RecoveryStep

(* What each step of an integration or of an operator's resolution does     *)
(* when it is the lock holder's.                                            *)
LEMMA IntegrationKeeps ==
    ASSUME ProcOk, RowOk, ContentOk, JournalInv, NEW p \in Proc, lock = p, HolderKnows(p),
           ~user => FilesKnown, IntegrationStep(p) \/ ResolutionStep(p)
    PROVE  Keeps(p)
<1> USE DEF Goto, GotoWriting, Transition
<1>0. /\ pc \in [Proc -> Label] /\ cur \in [Proc -> Oper \cup {NoOper}]
      /\ base \in [Proc -> [File -> Content]]
  BY DEF ProcOk, ContentOk
<1>1. ASSUME pc'[p] \in {"pass", "release", "snapshot"}, UNCHANGED <<disk, ost, pre, want, user>>
      PROVE  Keeps(p)
  BY <1>1, MovesOnly DEF Working
<1>2. ASSUME pc[p] \in Working, cur'[p] = cur[p],
             pc'[p] \in Working \ {"apply", "check", "accept", "commit"},
             UNCHANGED <<disk, ost, pre, want, user>>
      PROVE  Keeps(p)
  BY <1>2, MovesOnly
<1>3. ASSUME NEW from, NEW to \in {"quarantined"} \cup recoverableStatuses,
             NEW next \in Working \ {"apply", "check", "accept"},
             pc[p] \in Working, Advance(p, from, to, next),
             next = "commit" => pc[p] = "accept",
             UNCHANGED <<disk, pre, post, want, user>>
      PROVE  Keeps(p)
  <2>1. CASE Authorised(p, from)
    <3>1. /\ ost' = [ost EXCEPT ![cur[p]] = to] /\ pc'[p] = next /\ UNCHANGED cur
      BY <1>0, <1>3, <2>1 DEF Advance
    <3>2. Unresolved' = {cur[p]} /\ (~user' => FilesKnown')
      BY <1>3, <3>1, StaysOpen
    <3>3. cur[p] \in Unresolved'
      BY <3>2
    <3>4. next = "commit" /\ ~user => disk = Image(post[cur[p]])
      BY <1>3 DEF HolderKnows
    <3>5. Image(post[cur[p]])' = Image(post[cur[p]])
      BY <1>3, <3>1 DEF Image
    <3> QED BY <1>3, <3>1, <3>2, <3>3, <3>4, <3>5 DEF Keeps, HolderKnows, Working
  <2>2. CASE ~Authorised(p, from)
    <3>1. pc'[p] = "undo" /\ UNCHANGED <<ost, cur>>
      BY <1>0, <1>3, <2>2 DEF Advance
    <3> QED BY <1>2, <1>3, <3>1 DEF Working
  <2> QED BY <2>1, <2>2
<1>4. ASSUME Snapshot(p) PROVE Keeps(p)
  <2>1. CASE pc'[p] = "prepare" /\ base'[p] = disk
    BY <1>4, <2>1 DEF Snapshot, Keeps, HolderKnows, FilesKnown, Unresolved, Working
  <2>2. CASE pc'[p] = "release"
    BY <1>1, <1>4, <2>2 DEF Snapshot
  <2> QED BY <1>0, <1>4, <2>1, <2>2 DEF Snapshot
<1>5. ASSUME NEW o \in Oper, NEW c \in Patch, Prepare(p, o, c) PROVE Keeps(p)
  <2>1. /\ pc'[p] = "apply" /\ cur'[p] = o /\ pre'[o] = disk
        /\ UNCHANGED <<disk, base, want, user>>
    BY <1>0, <1>5 DEF Prepare, ContentOk
  <2>2. Entering(p) /\ Unresolved = {}
    BY <1>5 DEF Prepare, Entering, JournalInv
  <2>3. Unresolved' = {o}
    BY <1>5, <2>2 DEF Prepare, Unresolved, RowOk, INTEGRATION_RESOLVED_STATUSES
  <2>4. ~user => base[p] = disk /\ disk = want
    BY <1>5, <2>2 DEF Prepare, HolderKnows, FilesKnown
  <2> QED BY <2>1, <2>3, <2>4 DEF Keeps, HolderKnows, FilesKnown
<1>6. ASSUME PrepareRefused(p) PROVE Keeps(p)
  BY <1>0, <1>1, <1>6 DEF PrepareRefused
<1>7. ASSUME OwnershipLost(p) PROVE Keeps(p)
  BY <1>0, <1>1, <1>7 DEF OwnershipLost
<1>8. ASSUME StartApply(p) PROVE Keeps(p)
  <2>0. pc[p] \in Working /\ UNCHANGED <<disk, pre, base, want, user, cur>>
    BY <1>8 DEF StartApply, Working
  <2>1. CASE Authorised(p, "prepared")
    <3>1. ost' = [ost EXCEPT ![cur[p]] = "applying"] /\ pc'[p] = "check" /\ pc[p] = "apply"
      BY <1>0, <1>8, <2>1 DEF StartApply
    <3>2. Unresolved' = {cur[p]} /\ (~user' => FilesKnown')
      BY <2>0, <3>1, StaysOpen DEF recoverableStatuses
    <3> QED BY <2>0, <3>1, <3>2 DEF Keeps, HolderKnows
  <2>2. CASE ~Authorised(p, "prepared")
    BY <1>0, <1>2, <1>8, <2>0, <2>2 DEF StartApply, Working
  <2> QED BY <2>1, <2>2
<1>9. ASSUME CheckTarget(p) PROVE Keeps(p)
  <2>0. pc[p] = "check" /\ pc[p] \in Working /\ UNCHANGED <<disk, pre, base, want, user, cur>>
    BY <1>9 DEF CheckTarget, Working
  <2>1. CASE UNCHANGED ost /\ pc'[p] \in {"write", "finally"}
    BY <1>2, <2>0, <2>1 DEF Working
  <2>2. CASE disk # base[p] /\ ost' = [ost EXCEPT ![cur[p]] = "recovered_noop"]
             /\ pc'[p] = "release"
    <3>1. user
      BY <2>0, <2>2 DEF HolderKnows
    <3> QED BY <2>0, <2>2, <3>1 DEF Keeps, HolderKnows, Working
  <2> QED BY <1>0, <1>9, <2>1, <2>2 DEF CheckTarget
<1>10. ASSUME pc[p] \in {"write", "unroll"}, UNCHANGED <<ost, pre, want, user, pc, cur>>
       PROVE  Keeps(p)
  <2>1. Unresolved = {cur[p]} /\ Unresolved' = Unresolved
    BY <1>10, OpenRow DEF Unresolved, Working
  <2> QED BY <1>10, <2>1 DEF Keeps, HolderKnows, FilesKnown
<1>11. ASSUME NEW f \in File, WriteOne(p, f) PROVE Keeps(p)
  BY <1>10, <1>11 DEF WriteOne
<1>12. ASSUME WriteFailed(p) PROVE Keeps(p)
  BY <1>0, <1>2, <1>12 DEF WriteFailed, Working
<1>13. ASSUME VerifyApplied(p) PROVE Keeps(p)
  <2>0. pc[p] \in Working /\ UNCHANGED <<disk, pre, post, want, user>>
    BY <1>13 DEF VerifyApplied, Working
  <2>1. CASE pc'[p] \in {"finally", "undo"} /\ UNCHANGED <<ost, cur>>
    BY <1>2, <2>0, <2>1 DEF Working
  <2>2. CASE Advance(p, "applying", "applied_unvalidated", "applied")
    BY <1>3, <2>0, <2>2 DEF Working, recoverableStatuses
  <2> QED BY <1>0, <1>13, <2>1, <2>2 DEF VerifyApplied
<1>14. ASSUME StartValidation(p) PROVE Keeps(p)
  <2>0. pc[p] \in Working /\ UNCHANGED <<disk, pre, post, want, user>>
    BY <1>14 DEF StartValidation, Working
  <2>1. CASE pc'[p] = "undo" /\ UNCHANGED <<ost, cur>>
    BY <1>2, <2>0, <2>1 DEF Working
  <2>2. CASE Advance(p, "applied_unvalidated", "validating", "validate")
    BY <1>3, <2>0, <2>2 DEF Working, recoverableStatuses
  <2> QED BY <1>0, <1>14, <2>1, <2>2 DEF StartValidation
<1>15. ASSUME ValidationUnconfirmed(p) PROVE Keeps(p)
  <2>0. /\ pc[p] \in Working /\ pc'[p] = "release"
        /\ UNCHANGED <<disk, pre, want, user>>
    BY <1>0, <1>15 DEF ValidationUnconfirmed, Working
  <2>1. CASE UNCHANGED ost
    BY <1>1, <2>0, <2>1
  <2>2. CASE ost' = [ost EXCEPT ![cur[p]] = "quarantined"]
    <3>1. ~user' => FilesKnown'
      BY <2>0, <2>2, StaysOpen
    <3> QED BY <2>0, <3>1 DEF Keeps, HolderKnows, Working
  <2> QED BY <1>15, <2>1, <2>2 DEF ValidationUnconfirmed
<1>16. ASSUME ValidationEnded(p) PROVE Keeps(p)
  <2>0. /\ pc[p] = "validate" /\ pc[p] \in Working
        /\ UNCHANGED <<disk, ost, pre, post, want, user, cur>>
    BY <1>16 DEF ValidationEnded, Working
  <2>1. CASE pc'[p] = "release"
    BY <1>1, <2>0, <2>1
  <2>2. CASE pc'[p] \in {"finally", "undo"}
    BY <1>2, <2>0, <2>2 DEF Working
  <2>3. CASE pc'[p] = "accept" /\ disk = Image(post[cur[p]])
    <3>1. Unresolved' = Unresolved /\ cur[p] \in Unresolved
      BY <2>0 DEF Unresolved, HolderKnows
    <3>2. Image(post[cur[p]])' = Image(post[cur[p]])
      BY <2>0 DEF Image
    <3> QED BY <2>0, <2>3, <3>1, <3>2 DEF Keeps, HolderKnows, FilesKnown
  <2> QED BY <1>0, <1>16, <2>1, <2>2, <2>3 DEF ValidationEnded
<1>17. ASSUME Accept(p) PROVE Keeps(p)
  <2>0. pc[p] = "accept" /\ pc[p] \in Working /\ UNCHANGED <<disk, pre, post, want, user>>
    BY <1>17 DEF Accept, Working
  <2>1. CASE pc'[p] = "finally" /\ UNCHANGED <<ost, cur>>
    BY <1>2, <2>0, <2>1 DEF Working
  <2>2. CASE Advance(p, "validating", "validated", "commit")
    BY <1>3, <2>0, <2>2 DEF Working, recoverableStatuses
  <2> QED BY <1>0, <1>17, <2>1, <2>2 DEF Accept
<1>18. ASSUME Commit(p) PROVE Keeps(p)
  <2>0. pc[p] = "commit" /\ pc[p] \in Working /\ UNCHANGED <<disk, pre, post, user>>
    BY <1>18 DEF Commit, Working
  <2>1. CASE Authorised(p, "validated")
    <3>1. /\ ost' = [ost EXCEPT ![cur[p]] = "committed"] /\ pc'[p] = "release"
          /\ want' = Image(post[cur[p]])
      BY <1>0, <1>18, <2>1 DEF Commit, Advance
    <3>2. cur[p] \in Oper /\ cur[p] \in Unresolved
      BY <2>0, OpenRow
    <3>3. Unresolved' = {}
      BY <3>1, <3>2, Ends DEF INTEGRATION_RESOLVED_STATUSES
    <3>4. ~user => disk = Image(post[cur[p]])
      BY <2>0 DEF HolderKnows
    <3> QED BY <2>0, <3>1, <3>3, <3>4 DEF Keeps, HolderKnows, FilesKnown, Working
  <2>2. CASE ~Authorised(p, "validated")
    <3>1. pc'[p] = "undo" /\ UNCHANGED <<ost, want, cur>>
      BY <1>0, <1>18, <2>2 DEF Commit, Advance
    <3> QED BY <1>2, <2>0, <3>1 DEF Working
  <2> QED BY <2>1, <2>2
<1>19. ASSUME Undo(p) PROVE Keeps(p)
  BY <1>0, <1>2, <1>19 DEF Undo, Working
<1>20. ASSUME UnrollEnd(p) PROVE Keeps(p)
  BY <1>0, <1>2, <1>20 DEF UnrollEnd, Working
<1>21. ASSUME Finally(p) PROVE Keeps(p)
  BY <1>0, <1>1, <1>21 DEF Finally
<1>22. ASSUME NEW f \in File, UnrollOne(p, f) PROVE Keeps(p)
  BY <1>10, <1>22 DEF UnrollOne
<1>23. ASSUME NEW o \in Oper, VerifyRestored(p, o) PROVE Keeps(p)
  <2>1. CASE UNCHANGED ost /\ pc'[p] = "release"
    BY <1>1, <1>23, <2>1 DEF VerifyRestored
  <2>2. CASE o \in Quarantined /\ disk = pre[o] /\ Resolved(p, o, "recovered_verified")
    <3>1. /\ ost' = [ost EXCEPT ![o] = "recovered_verified"] /\ o \in Unresolved
          /\ pc'[p] = "pass" /\ UNCHANGED <<disk, pre, want, user>>
      BY <1>23, <2>2 DEF VerifyRestored, Resolved, Quarantined, Unresolved,
                         INTEGRATION_RESOLVED_STATUSES
    <3>2. Unresolved' = {}
      BY <3>1, Ends DEF INTEGRATION_RESOLVED_STATUSES
    <3>3. ~user => disk = want
      BY <2>2, <3>1 DEF FilesKnown
    <3> QED BY <3>1, <3>2, <3>3 DEF Keeps, HolderKnows, FilesKnown, Working
  <2> QED BY <1>0, <1>23, <2>1, <2>2 DEF VerifyRestored
<1>24. ASSUME NEW o \in Oper, AcceptCurrent(p, o) PROVE Keeps(p)
  <2>1. CASE UNCHANGED <<ost, want>> /\ pc'[p] = "release"
    BY <1>1, <1>24, <2>1 DEF AcceptCurrent
  <2>2. CASE o \in Quarantined /\ want' = disk /\ Resolved(p, o, "resolved_by_operator")
    <3>1. /\ ost' = [ost EXCEPT ![o] = "resolved_by_operator"] /\ o \in Unresolved
          /\ pc'[p] = "pass" /\ UNCHANGED <<disk, pre, user>>
      BY <1>24, <2>2 DEF AcceptCurrent, Resolved, Quarantined, Unresolved,
                         INTEGRATION_RESOLVED_STATUSES
    <3>2. Unresolved' = {}
      BY <3>1, Ends DEF INTEGRATION_RESOLVED_STATUSES
    <3> QED BY <2>2, <3>1, <3>2 DEF Keeps, HolderKnows, FilesKnown, Working
  <2> QED BY <1>0, <1>24, <2>1, <2>2 DEF AcceptCurrent
<1> QED
  BY <1>4, <1>5, <1>6, <1>7, <1>8, <1>9, <1>11, <1>12, <1>13, <1>14, <1>15, <1>16, <1>17,
     <1>18, <1>19, <1>20, <1>21, <1>22, <1>23, <1>24 DEF IntegrationStep, ResolutionStep

(* A process that lost its lease during validation touches neither the      *)
(* checkout nor the journal: every transition it could make is refused.     *)
LEMMA LateLeaves ==
    ASSUME ProcOk, NEW p \in Proc, lock # p, pc[p] = "validate", aborted[p],
           RecoveryStep(p) \/ IntegrationStep(p) \/ ResolutionStep(p)
    PROVE  UNCHANGED <<disk, ost, rows, base, cur, want, user>>
<1>1. ValidationUnconfirmed(p) \/ ValidationEnded(p)
  BY DEF RecoveryStep, PassNothing, PassQuarantined, BeginRecovery, EvidenceLost, Judge,
         RestoreOne, RestoreFailed, VerifyRestore, ResolutionStep, VerifyRestored,
         AcceptCurrent, IntegrationStep, Snapshot, Prepare, PrepareRefused, OwnershipLost,
         StartApply, CheckTarget, WriteOne, WriteFailed, VerifyApplied, StartValidation,
         Accept, Commit, Undo, UnrollOne, UnrollEnd, Finally
<1> QED BY <1>1 DEF ValidationUnconfirmed, ValidationEnded, Authorised, Goto

(* Every step keeps what the holder knows and what the checkout is.         *)
LEMMA WholeStep ==
    ASSUME Timely, ProcOk, RowOk, ContentOk, JournalInv, WholeInv, [Next]_vars
    PROVE  WholeInv'
<1> DEFINE Same == UNCHANGED <<disk, ost, rows, want, user>>
<1>0. /\ pc \in [Proc -> Label] /\ aborted \in [Proc -> BOOLEAN] /\ NoProc \notin Proc
      /\ cur \in [Proc -> Oper \cup {NoOper}] /\ base \in [Proc -> [File -> Content]]
  BY DEF ProcOk, ContentOk
<1>1. ASSUME NEW q \in Proc, HolderKnows(q), Same,
             pc'[q] = pc[q], cur'[q] = cur[q], base'[q] = base[q]
      PROVE  HolderKnows(q)'
  BY <1>1 DEF HolderKnows, Unresolved, Image
<1>2. ASSUME Same PROVE ~user' => FilesKnown'
  BY <1>2 DEF WholeInv, FilesKnown, Unresolved
<1>3. ASSUME NEW p \in Proc, RecoveryStep(p) \/ IntegrationStep(p) \/ ResolutionStep(p)
      PROVE  WholeInv'
  <2>1. Alone(p)
    BY <1>3, RecoversAlone, IntegratesAlone
  <2>2. HolderActs'
    BY <2>1 DEF WholeInv, HolderActs, Alone
  <2>3. CASE lock = p
    <3>1. Keeps(p)
      BY <1>3, <2>3, RecoveryKeeps, IntegrationKeeps DEF WholeInv
    <3> QED BY <2>1, <2>2, <2>3, <3>1 DEF Keeps, Alone, WholeInv
  <2>4. CASE lock # p
    <3>1. pc[p] = "validate" /\ aborted[p]
      BY <2>1, <2>4 DEF WholeInv, HolderActs, Alone
    <3>2. Same /\ UNCHANGED <<base, cur>>
      BY <1>3, <2>4, <3>1, LateLeaves
    <3>3. ASSUME NEW q \in Proc, lock' = q PROVE HolderKnows(q)'
      BY <1>1, <2>1, <2>4, <3>2, <3>3 DEF Alone, WholeInv
    <3> QED BY <1>2, <2>2, <3>2, <3>3 DEF WholeInv
  <2> QED BY <2>3, <2>4
<1>4. ASSUME NEW p \in Proc, lock = NoProc, lock' = p, pc' = [pc EXCEPT ![p] = "pass"], Same,
             UNCHANGED <<cur, base, aborted>>
      PROVE  WholeInv'
  <2>1. HolderActs'
    BY <1>0, <1>4 DEF WholeInv, HolderActs
  <2>2. HolderKnows(p)'
    BY <1>0, <1>4 DEF HolderKnows, Working
  <2> QED BY <1>2, <1>4, <2>1, <2>2 DEF WholeInv
<1>5. ASSUME NEW p \in Proc, AcquireIntegration(p) PROVE WholeInv'
  BY <1>4, <1>5 DEF AcquireIntegration
<1>6. ASSUME NEW p \in Proc, NEW g \in {"recover", "verify", "accept"}, AcquireRecovery(p, g)
      PROVE  WholeInv'
  BY <1>4, <1>6 DEF AcquireRecovery
<1>7. ASSUME NEW p \in Proc, pc' = [pc EXCEPT ![p] = "idle"], Same,
             \A q \in Proc \ {p} : /\ cur'[q] = cur[q] /\ base'[q] = base[q]
                                   /\ aborted'[q] = aborted[q],
             lock' = lock \/ (lock = p /\ lock' = NoProc)
      PROVE  WholeInv'
  <2>1. HolderActs'
    BY <1>0, <1>7 DEF WholeInv, HolderActs
  <2>2. HolderKnows(p)'
    BY <1>0, <1>7 DEF HolderKnows, Working
  <2>3. ASSUME NEW q \in Proc, lock' = q PROVE HolderKnows(q)'
    BY <1>0, <1>1, <1>7, <2>2, <2>3 DEF WholeInv
  <2> QED BY <1>2, <1>7, <2>1, <2>3 DEF WholeInv
<1>8. ASSUME NEW p \in Proc, Release(p) PROVE WholeInv'
  <2>1. /\ pc' = [pc EXCEPT ![p] = "idle"] /\ cur' = [cur EXCEPT ![p] = NoOper]
        /\ base' = [base EXCEPT ![p] = Image(Base)]
        /\ aborted' = [aborted EXCEPT ![p] = FALSE]
        /\ Same
    BY <1>8 DEF Release
  <2>2. lock' = lock \/ (lock = p /\ lock' = NoProc)
    BY <1>8 DEF Release
  <2>3. \A q \in Proc \ {p} : /\ cur'[q] = cur[q] /\ base'[q] = base[q]
                             /\ aborted'[q] = aborted[q]
    BY <1>0, <2>1
  <2> QED BY <1>7, <2>1, <2>2, <2>3
<1>9. ASSUME NEW p \in Proc, Crash(p) PROVE WholeInv'
  <2>1. /\ pc' = [pc EXCEPT ![p] = "idle"] /\ cur' = [cur EXCEPT ![p] = NoOper]
        /\ base' = [base EXCEPT ![p] = Image(Base)]
        /\ aborted' = [aborted EXCEPT ![p] = FALSE]
        /\ Same /\ lock' = lock
    BY <1>9 DEF Crash
  <2>2. \A q \in Proc \ {p} : /\ cur'[q] = cur[q] /\ base'[q] = base[q]
                             /\ aborted'[q] = aborted[q]
    BY <1>0, <2>1
  <2> QED BY <1>7, <2>1, <2>2
<1>10. ASSUME NEW p \in Proc, Lapse(p) PROVE WholeInv'
  <2>1. Same /\ UNCHANGED <<local, aborted>> /\ lock = p /\ lock' = NoProc
    BY <1>10 DEF Lapse
  <2>2. pc[p] = "idle" \/ (pc[p] = "validate" /\ aborted[p])
    BY <1>10 DEF Lapse
  <2>3. HolderActs'
    BY <2>1, <2>2 DEF WholeInv, HolderActs
  <2> QED BY <1>0, <1>2, <2>1, <2>3 DEF WholeInv
<1>11. ASSUME NEW p \in Proc, Abort(p) PROVE WholeInv'
  <2>1. Same /\ UNCHANGED <<local, lock>> /\ aborted' = [aborted EXCEPT ![p] = TRUE]
    BY <1>11 DEF Abort
  <2>2. HolderActs'
    BY <1>0, <2>1 DEF WholeInv, HolderActs
  <2>3. ASSUME NEW q \in Proc, lock' = q PROVE HolderKnows(q)'
    BY <1>1, <2>1, <2>3 DEF WholeInv
  <2> QED BY <1>2, <2>1, <2>2, <2>3 DEF WholeInv
<1>12. ASSUME Same, UNCHANGED <<local, lock, aborted>> PROVE WholeInv'
  <2>1. HolderActs'
    BY <1>12 DEF WholeInv, HolderActs
  <2>2. ASSUME NEW q \in Proc, lock' = q PROVE HolderKnows(q)'
    BY <1>1, <1>12, <2>2 DEF WholeInv
  <2> QED BY <1>2, <1>12, <2>1, <2>2 DEF WholeInv
<1>13. ASSUME user' = TRUE, UNCHANGED <<ost, rows, local, lock, aborted>> PROVE WholeInv'
  <2>1. HolderActs'
    BY <1>13 DEF WholeInv, HolderActs
  <2>2. ASSUME NEW q \in Proc, lock' = q PROVE HolderKnows(q)'
    BY <1>13, <2>2 DEF WholeInv, HolderKnows, Unresolved
  <2> QED BY <1>13, <2>1, <2>2 DEF WholeInv
<1>14. ASSUME NEW p \in Proc, Unblock(p) PROVE WholeInv'
  BY <1>12, <1>14 DEF Unblock
<1>15. ASSUME NEW f \in File, Edit(f) \/ Discard(f) PROVE WholeInv'
  BY <1>13, <1>15 DEF Edit, Discard
<1>16. ASSUME GitCommit PROVE WholeInv'
  BY <1>12, <1>16 DEF GitCommit
<1>17. ASSUME NEW o \in Oper, GitReset(o) PROVE WholeInv'
  BY <1>12, <1>17 DEF GitReset
<1>18. CASE UNCHANGED vars
  BY <1>12, <1>18 DEF vars
<1> QED
  BY <1>3, <1>5, <1>6, <1>8, <1>9, <1>10, <1>11, <1>14, <1>15, <1>16, <1>17, <1>18
     DEF Next, Step, Environment
-----------------------------------------------------------------------------
(* The inductive invariant.                                                *)
IInv == ProcOk /\ RowOk /\ ContentOk /\ JournalInv /\ EditInv

(* It holds initially.                                                     *)
LEMMA InitIInv ==
    ASSUME Init
    PROVE  IInv
<1>1. ProcOk
  BY DEF Init, ProcOk, Label, Working
<1>2. RowOk
  BY DEF Init, RowOk, Status, Reason
<1>3. ContentOk
  <2>1. Image(Base) \in [File -> Content]
    BY DEF Image, Content
  <2>2. events \in 0 .. MaxEvents /\ safe \in [File -> 0 .. events]
    <3>1. 0 \in 0 .. MaxEvents /\ 0 \in 0 .. 0
      BY MaxEvents \in Nat
    <3>2. events = 0 /\ safe = [f \in File |-> 0]
      BY DEF Init
    <3> QED BY <3>1, <3>2
  <2>3. /\ pre = [o \in Oper |-> Image(Base)] /\ org = [o \in Oper |-> Image(Base)]
        /\ base = [p \in Proc |-> Image(Base)] /\ post = [o \in Oper |-> Base]
        /\ disk = Image(Base) /\ git = Image(Base) /\ want = Image(Base)
    BY DEF Init
  <2> QED BY <2>1, <2>2, <2>3 DEF ContentOk
<1>4. JournalInv
  <2>1. Unresolved = {}
    BY DEF Init, Unresolved
  <2> QED BY <2>1 DEF Init, JournalInv, OneOpen
<1>5. EditInv
  BY DEF Init, EditInv
<1> QED BY <1>1, <1>2, <1>3, <1>4, <1>5 DEF IInv

(* The inductive invariant holds in every behaviour of the journal         *)
(* protocol.                                                               *)
THEOREM JournalInvariant == Spec => []IInv
<1>1. IInv /\ [Next]_vars => IInv'
  BY ProcStep, RowStep, ContentStep, JournalStep, EditStep DEF IInv
<1> QED BY <1>1, InitIInv, PTL DEF Spec

(* Journal, lock, process state and contents are of their types.           *)
THEOREM TypeCorrect == Spec => []TypeOK
<1>1. IInv => TypeOK
  BY DEF IInv, ProcOk, RowOk, ContentOk, TypeOK, Label
<1> QED BY <1>1, JournalInvariant, PTL

(* acquireHardLock and prepareIntegrationOperation together never leave    *)
(* two operations of a repository unresolved, however leases lapse and     *)
(* processes crash.                                                        *)
THEOREM OneOperationOpen == Spec => []OneOpen
<1>1. IInv => OneOpen
  BY DEF IInv, JournalInv
<1> QED BY <1>1, JournalInvariant, PTL

(* Neither applyPatchFile, nor rollbackVerifiedOwnedChanges, nor the       *)
(* recovery of integration-journal.js overwrites a user edit made before   *)
(* the process decided to write the file.                                  *)
THEOREM EditsAreKept == Spec => []EditsSurvive
<1>1. IInv => EditsSurvive
  BY DEF IInv, EditInv, EditsSurvive
<1> QED BY <1>1, JournalInvariant, PTL

(* Both together, with leases that lapse unnoticed at any step: a late     *)
(* process of prepareIntegrationOperation or of                            *)
(* recoverIntegrationOperationsWhileLocked does no harm.                   *)
THEOREM LapsesDoNoHarm == Spec => []LapsedLeasesHarmless
<1> QED BY OneOperationOpen, EditsAreKept, PTL DEF LapsedLeasesHarmless

(* transitionIntegrationOperation never changes a row that is resolved,    *)
(* whoever calls it.                                                       *)
THEOREM ResolutionIsFinal == Spec => ResolvedFinal
<1>1. ASSUME IInv, [Next]_vars
      PROVE  \A o \in Oper : ost[o] \in INTEGRATION_RESOLVED_STATUSES => ost'[o] = ost[o]
  <2>1. \A o \in Oper : Moves(o)
    BY <1>1, MoveStep DEF IInv
  <2> QED BY <2>1 DEF Moves, INTEGRATION_RESOLVED_STATUSES, recoverableStatuses
<1> QED BY <1>1, JournalInvariant, PTL DEF Spec, ResolvedFinal

(* Only an operator ends a quarantine, except                              *)
(* requalifyStateDriftQuarantine for a Git drift that is gone.             *)
THEOREM QuarantineIsKept == Spec => QuarantineKept
<1>1. ASSUME IInv, [Next]_vars
      PROVE  \A o \in Oper :
                ost[o] = "quarantined" /\ ost'[o] # "quarantined"
                   => \/ ost'[o] \in {"recovered_verified", "resolved_by_operator"}
                      \/ why[o] = "git" /\ ost'[o] = "recovered_noop"
  <2>1. \A o \in Oper : Moves(o)
    BY <1>1, MoveStep DEF IInv
  <2> QED BY <2>1 DEF Moves, recoverableStatuses
<1> QED BY <1>1, JournalInvariant, PTL DEF Spec, QuarantineKept

(* All or nothing, with leases that outlive every step but a validation    *)
(* run: until somebody else writes the files, a checkout without an open   *)
(* operation is exactly what the last commit or operator decision left     *)
(* (applyPatchFile, rollbackVerifiedOwnedChanges and the recovery of       *)
(* integration-journal.js together).                                       *)
THEOREM CheckoutIsWhole == Timely => (Spec => []Whole)
<1> SUFFICES ASSUME Timely PROVE Spec => []Whole
  OBVIOUS
<1>1. Init => WholeInv
  <2> SUFFICES ASSUME Init PROVE WholeInv
    OBVIOUS
  <2>1. /\ \A p \in Proc : lock # p /\ pc[p] = "idle"
        /\ Unresolved = {} /\ disk = want
    BY DEF Init, Unresolved
  <2> QED BY <2>1 DEF WholeInv, HolderActs, FilesKnown
<1>2. IInv /\ WholeInv /\ [Next]_vars => WholeInv'
  BY WholeStep DEF IInv
<1>3. WholeInv => Whole
  BY DEF WholeInv, FilesKnown, Whole
<1> QED BY <1>1, <1>2, <1>3, JournalInvariant, PTL DEF Spec
=============================================================================
