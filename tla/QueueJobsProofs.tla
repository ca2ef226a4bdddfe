-------------------------- MODULE QueueJobsProofs --------------------------
(* Machine-checked proofs about QueueJobs, for every set of processes and jobs, any batch,  *)
(* any number of owner generations and every choice of the events that may happen.          *)
EXTENDS QueueJobs, TLAPS

USE InstAssumption, JobAssumption, BoundAssumption
USE DEF PerRecord, All, Every, Pre, Open, Terminal, Bad, Outcome, Revision

-----------------------------------------------------------------------------
(* Type correctness.                                                                        *)

(* The helpers that write a record, answer a write or end a row keep the types.             *)
LEMMA RecordTypes ==
    ASSUME TypeOK, NEW i \in Inst, NEW j \in Job,
           NEW status \in {"none"} \cup Open \cup Terminal, NEW g \in 0 .. MaxGen,
           NEW c \in BOOLEAN, NEW r \in Revision, Record(i, j, status, g, c, r)
    PROVE  /\ mst' \in PerRecord({"none"} \cup Open \cup Terminal)
           /\ mgen' \in PerRecord(0 .. MaxGen)
           /\ mcan' \in PerRecord(BOOLEAN) /\ mrev' \in PerRecord(Revision)
BY DEF TypeOK, Record

LEMMA LoadTypes ==
    ASSUME TypeOK, NEW i \in Inst, NEW j \in Job, Load(i, j) \/ Drop(i, j)
    PROVE  /\ mst' \in PerRecord({"none"} \cup Open \cup Terminal)
           /\ mgen' \in PerRecord(0 .. MaxGen)
           /\ mcan' \in PerRecord(BOOLEAN) /\ mrev' \in PerRecord(Revision)
<1>1. CASE Load(i, j)
    <2>1. /\ gen[j] \in 0 .. MaxGen /\ cancel[j] \in BOOLEAN
          /\ st[j] \in {"none"} \cup Open \cup Terminal
        BY DEF TypeOK
    <2>2. (IF owner[j] = i THEN gen[j] ELSE 0) \in 0 .. MaxGen
        BY <2>1
    <2> QED BY <1>1, <2>1, <2>2 DEF Load, Record, TypeOK
<1>2. CASE Drop(i, j)
    BY <1>2 DEF TypeOK, Drop, Record
<1> QED BY <1>1, <1>2

LEMMA LandedTypes ==
    ASSUME TypeOK, NEW i \in Inst, NEW j \in Job, Landed(i, j)
    PROVE  /\ fly' \in PerRecord({"none", "note", "claim", "planned"} \cup Outcome)
           /\ frev' \in PerRecord(Revision) /\ fcan' \in PerRecord(BOOLEAN)
BY DEF TypeOK, Landed

LEMMA FinishTypes ==
    ASSUME TypeOK, NEW j \in Job, NEW status \in Terminal, Finish(j, status)
    PROVE  /\ st' \in [Job -> {"none"} \cup Open \cup Terminal]
           /\ cancel' \in [Job -> BOOLEAN] /\ lease' \in [Job -> BOOLEAN]
           /\ pipe' \in {"none", "running", "failed", "cancelled"}
BY DEF TypeOK, Finish

LEMMA TypeStep ==
    ASSUME TypeOK, [Next]_vars
    PROVE  TypeOK'
<1> USE DEF rows, records, flight
<1>1. ASSUME NEW i \in Inst, Heartbeat(i)
      PROVE  TypeOK'
    BY <1>1 DEF TypeOK, Heartbeat, OpenDb
<1>2. ASSUME NEW i \in Inst, LapseInst(i)
      PROVE  TypeOK'
    BY <1>2 DEF TypeOK, LapseInst
<1>3. ASSUME NEW i \in Inst, Crash(i)
      PROVE  TypeOK'
    BY <1>3 DEF TypeOK, Crash
<1>4. ASSUME NEW i \in Inst, ActivateBatch(i)
      PROVE  TypeOK'
    BY <1>4 DEF TypeOK, ActivateBatch, OpenDb
<1>5. ASSUME NEW j \in Job, EnqueueUnowned(j) \/ LapseJob(j)
      PROVE  TypeOK'
    <2>1. CASE EnqueueUnowned(j)
        BY <2>1 DEF TypeOK, EnqueueUnowned
    <2>2. CASE LapseJob(j)
        BY <2>2 DEF TypeOK, LapseJob
    <2> QED BY <1>5, <2>1, <2>2
<1>6. ASSUME NEW j \in Job, CancelRow(j)
      PROVE  /\ st' \in [Job -> {"none"} \cup Open \cup Terminal]
             /\ cancel' \in [Job -> BOOLEAN] /\ lease' \in [Job -> BOOLEAN]
             /\ pipe' \in {"none", "running", "failed", "cancelled"}
    BY <1>6, FinishTypes DEF TypeOK, CancelRow
<1>7. ASSUME NEW j \in Job, DurableCancel(j)
      PROVE  TypeOK'
    BY <1>7, <1>6 DEF TypeOK, DurableCancel, Behind
<1>8. ASSUME NEW i \in Inst, NEW j \in Job, Enqueue(i, j)
      PROVE  TypeOK'
    BY <1>8 DEF TypeOK, Enqueue, Record, OpenDb
<1>9. ASSUME NEW i \in Inst, NEW j \in Job,
             NEW w \in {"planned", "blocked", "failed", "cancelled", "claim"},
             ScheduleWrite(i, j, w)
      PROVE  TypeOK'
    BY <1>9 DEF TypeOK, ScheduleWrite, Begin
<1>10. ASSUME NEW i \in Inst, NEW j \in Job, NoteBegin(i, j)
      PROVE  TypeOK'
    BY <1>10 DEF TypeOK, NoteBegin, Begin
<1>11. ASSUME NEW i \in Inst, NEW j \in Job, NEW w \in Outcome, OutcomeBegin(i, j, w)
      PROVE  TypeOK'
    BY <1>11 DEF TypeOK, OutcomeBegin, Begin
<1>12. ASSUME NEW i \in Inst, NEW j \in Job, WriteCommits(i, j)
      PROVE  TypeOK'
    BY <1>12, SMTT(30) DEF TypeOK, WriteCommits, Plain, Written, Record, Landed, OpenDb
<1>13. ASSUME NEW i \in Inst, NEW j \in Job, WriteRetakes(i, j)
      PROVE  TypeOK'
    BY <1>13, LoadTypes DEF TypeOK, WriteRetakes, OpenDb
<1>14. ASSUME NEW i \in Inst, NEW j \in Job, WriteRefused(i, j)
      PROVE  TypeOK'
    <2>1. Load(i, j) \/ Drop(i, j)
        BY <1>14 DEF WriteRefused
    <2>2. /\ work' \in PerRecord({"none", "run"} \cup Outcome)
          /\ abort' \in PerRecord(BOOLEAN)
        <3>1. /\ \/ UNCHANGED work
                 \/ work' = [work EXCEPT ![i][j] = "cancelled"]
                 \/ work' = [work EXCEPT ![i][j] = "none"]
              /\ UNCHANGED abort \/ abort' = [abort EXCEPT ![i][j] = TRUE]
            BY <1>14 DEF WriteRefused
        <3>2. [work EXCEPT ![i][j] = "cancelled"] \in PerRecord({"none", "run"} \cup Outcome)
            BY DEF TypeOK
        <3>3. [work EXCEPT ![i][j] = "none"] \in PerRecord({"none", "run"} \cup Outcome)
            BY DEF TypeOK
        <3>4. [abort EXCEPT ![i][j] = TRUE] \in PerRecord(BOOLEAN)
            BY DEF TypeOK
        <3> HIDE DEF PerRecord
        <3> QED BY <3>1, <3>2, <3>3, <3>4 DEF TypeOK
    <2>3. Landed(i, j) /\ OpenDb(i) /\ UNCHANGED <<rows, lock, alive, tool, told>>
        BY <1>14 DEF WriteRefused
    <2> QED BY <2>1, <2>2, <2>3, LoadTypes, LandedTypes DEF TypeOK, OpenDb
<1>15. ASSUME NEW i \in Inst, NEW j \in Job, FinalCommits(i, j)
      PROVE  TypeOK'
    <2>1. TerminalWrite(i, j, fly[i][j], frev[i][j]) \in Terminal
        BY <1>15 DEF FinalCommits, Final, TerminalWrite
    <2> DEFINE status == TerminalWrite(i, j, fly[i][j], frev[i][j])
    <2>2. Finish(j, status) /\ Landed(i, j)
        BY <1>15 DEF FinalCommits
    <2>3. (status = "cancelled" \/ fcan[i][j]) \in BOOLEAN
        OBVIOUS
    <2>4. /\ mst' \in PerRecord({"none"} \cup Open \cup Terminal)
          /\ mgen' \in PerRecord(0 .. MaxGen)
          /\ mcan' \in PerRecord(BOOLEAN) /\ mrev' \in PerRecord(Revision)
        BY <1>15, <2>1, <2>3 DEF TypeOK, FinalCommits, Record
    <2> HIDE DEF status
    <2>5. /\ work' \in PerRecord({"none", "run"} \cup Outcome) /\ ilease' \in [Inst -> BOOLEAN]
          /\ UNCHANGED <<owner, gen, lock, alive, abort, tool, told>>
        BY <1>15 DEF TypeOK, FinalCommits, OpenDb
    <2>6. status \in Terminal
        BY <2>1 DEF status
    <2>7. /\ st' \in [Job -> {"none"} \cup Open \cup Terminal]
          /\ cancel' \in [Job -> BOOLEAN] /\ lease' \in [Job -> BOOLEAN]
          /\ pipe' \in {"none", "running", "failed", "cancelled"}
        BY <2>2, <2>6, FinishTypes
    <2> HIDE DEF PerRecord
    <2> QED BY <2>2, <2>4, <2>5, <2>7, LandedTypes DEF TypeOK
<1>16. ASSUME NEW i \in Inst, NEW j \in Job, FinalRefused(i, j)
      PROVE  TypeOK'
    BY <1>16, LoadTypes, LandedTypes DEF TypeOK, FinalRefused, OpenDb
<1>17. ASSUME NEW i \in Inst, NEW j \in Job, WriteThrows(i, j)
      PROVE  TypeOK'
    BY <1>17, LandedTypes, SMTT(30) DEF TypeOK, WriteThrows
<1>18. ASSUME NEW i \in Inst, NEW j \in Job, Abandon(i, j)
      PROVE  TypeOK'
    <2>1. Drop(i, j) \/ UNCHANGED records
        BY <1>18 DEF Abandon
    <2>2. /\ work' \in PerRecord({"none", "run"} \cup Outcome)
          /\ UNCHANGED <<rows, ilease, lock, alive, abort, flight, tool, told>>
        <3>1. \/ work' = [work EXCEPT ![i][j] = "cancelled"]
              \/ work' = [work EXCEPT ![i][j] = "none"]
            BY <1>18 DEF Abandon
        <3>2. [work EXCEPT ![i][j] = "cancelled"] \in PerRecord({"none", "run"} \cup Outcome)
            BY DEF TypeOK
        <3>3. [work EXCEPT ![i][j] = "none"] \in PerRecord({"none", "run"} \cup Outcome)
            BY DEF TypeOK
        <3> HIDE DEF PerRecord
        <3> QED BY <1>18, <3>1, <3>2, <3>3 DEF Abandon
    <2> QED BY <2>1, <2>2, LoadTypes DEF TypeOK
<1>19. ASSUME NEW i \in Inst, NEW j \in Job, ClaimCommits(i, j)
      PROVE  TypeOK'
    BY <1>19, LandedTypes DEF TypeOK, ClaimCommits, OpenDb
<1>20. ASSUME NEW i \in Inst, NEW j \in Job, ClaimRefused(i, j)
      PROVE  TypeOK'
    BY <1>20, LandedTypes, SMTT(30) DEF TypeOK, ClaimRefused, OpenDb
<1>21. ASSUME NEW i \in Inst, NEW j \in Job, AcquireLock(i, j) \/ Fence(i, j)
      PROVE  TypeOK'
    <2>1. CASE AcquireLock(i, j)
        BY <2>1 DEF TypeOK, AcquireLock, OpenDb
    <2>2. CASE Fence(i, j)
        BY <2>2 DEF TypeOK, Fence
    <2> QED BY <1>21, <2>1, <2>2
<1>22. ASSUME NEW i \in Inst, NEW j \in Job, NEW o \in Outcome, NEW keep \in BOOLEAN,
             EndRun(i, j, o, keep)
      PROVE  TypeOK'
    BY <1>22 DEF TypeOK, EndRun
<1>23. ASSUME NEW i \in Inst, NEW j \in Job, Reconcile(i, j)
      PROVE  TypeOK'
    BY <1>23, FinishTypes DEF TypeOK, Reconcile, LockReleased
<1>24. ASSUME NEW i \in Inst, NEW j \in Job, Adopt(i, j)
      PROVE  TypeOK'
    BY <1>24 DEF TypeOK, Adopt, Record
<1>25. ASSUME NEW i \in Inst, NEW j \in Job, FailAdoption(i, j)
      PROVE  TypeOK'
    BY <1>25, FinishTypes DEF TypeOK, FailAdoption
<1>26. ASSUME NEW i \in Inst, NEW j \in Job, Prune(i, j)
      PROVE  TypeOK'
    BY <1>26, LoadTypes DEF TypeOK, Prune
<1>27. ASSUME NEW i \in Inst, NEW j \in Job, CancelBegin(i, j)
      PROVE  TypeOK'
    BY <1>27 DEF TypeOK, CancelBegin, Record
<1>28. ASSUME NEW i \in Inst, NEW j \in Job, CancelPersists(i, j)
      PROVE  TypeOK'
    <2>1. /\ st' \in [Job -> {"none"} \cup Open \cup Terminal]
          /\ cancel' \in [Job -> BOOLEAN] /\ lease' \in [Job -> BOOLEAN]
          /\ pipe' \in {"none", "running", "failed", "cancelled"}
          /\ mst' \in PerRecord({"none"} \cup Open \cup Terminal)
        <3>1. CASE mst[i][j] \in Open
            <4>1. /\ st' = [st EXCEPT ![j] = mst[i][j]]
                  /\ cancel' = [cancel EXCEPT ![j] = mcan[i][j]]
                  /\ UNCHANGED <<lease, pipe, mst>>
                BY <1>28, <3>1 DEF CancelPersists
            <4> QED BY <4>1 DEF TypeOK
        <3>2. CASE mst[i][j] \notin Open
            <4>1. TerminalWrite(i, j, mst[i][j], mrev[i][j]) \in Terminal
                BY <1>28, <3>2 DEF CancelPersists, ToolPersists, TerminalWrite
            <4>2. mst' = [mst EXCEPT ![i][j] = TerminalWrite(i, j, mst[i][j], mrev[i][j])]
                BY <1>28, <3>2 DEF CancelPersists, TypeOK
            <4>3. Finish(j, TerminalWrite(i, j, mst[i][j], mrev[i][j]))
                BY <1>28, <3>2 DEF CancelPersists
            <4>4. mst' \in PerRecord({"none"} \cup Open \cup Terminal)
                BY <4>1, <4>2 DEF TypeOK
            <4> QED BY <4>1, <4>3, <4>4, FinishTypes
        <3> QED BY <3>1, <3>2
    <2>2. /\ frev' \in PerRecord(Revision) /\ mrev' \in PerRecord(Revision)
          /\ abort' \in PerRecord(BOOLEAN)
          /\ tool' \in PerRecord({"none", "pre", "active", "durable"})
          /\ told' \in [Job -> BOOLEAN] /\ ilease' \in [Inst -> BOOLEAN]
        BY <1>28 DEF TypeOK, CancelPersists, Behind, OpenDb
    <2>3. UNCHANGED <<owner, gen, lock, alive, mgen, mcan, work, fly, fcan>>
        BY <1>28 DEF CancelPersists
    <2> QED BY <2>1, <2>2, <2>3 DEF TypeOK
<1>29. ASSUME NEW i \in Inst, NEW j \in Job, CancelRefused(i, j)
      PROVE  TypeOK'
    BY <1>29, LoadTypes DEF TypeOK, CancelRefused, OpenDb
<1>30. ASSUME NEW i \in Inst, NEW j \in Job, CancelRetried(i, j)
      PROVE  TypeOK'
    <2>1. CancelRow(j)
        BY <1>30 DEF CancelRetried
    <2>2. /\ mst' \in PerRecord({"none"} \cup Open \cup Terminal)
          /\ mgen' \in PerRecord(0 .. MaxGen)
          /\ mcan' \in PerRecord(BOOLEAN) /\ mrev' \in PerRecord(Revision)
          /\ abort' \in PerRecord(BOOLEAN) /\ frev' \in PerRecord(Revision)
        <3>1. CASE st[j] \in Terminal \/ mst[i][j] = "none"
            BY <1>30, <3>1 DEF TypeOK, CancelRetried
        <3>2. CASE ~(st[j] \in Terminal \/ mst[i][j] = "none")
            <4> DEFINE status == IF st[j] = "running" THEN mst[i][j] ELSE "cancelled"
            <4>1. /\ mst' = [mst EXCEPT ![i][j] = status]
                  /\ mgen' = [mgen EXCEPT ![i][j] = mgen[i][j]]
                  /\ mcan' = [mcan EXCEPT ![i][j] = TRUE]
                  /\ mrev' = [mrev EXCEPT ![i][j] = "same"]
                BY <1>30, <3>2 DEF CancelRetried, Record
            <4>2. status \in {"none"} \cup Open \cup Terminal
                BY DEF TypeOK
            <4>3. abort' \in PerRecord(BOOLEAN)
                <5>1. abort' = [abort EXCEPT ![i][j] = @ \/ (st[j] = "running" /\ work[i][j] = "run")]
                    BY <1>30, <3>2 DEF CancelRetried
                <5> QED BY <5>1 DEF TypeOK
            <4>4. Behind(j, "newer")
                BY <1>30, <3>2 DEF CancelRetried
            <4>5. frev' \in PerRecord(Revision)
                BY <4>4 DEF TypeOK, Behind
            <4> HIDE DEF status
            <4>6. mst' \in PerRecord({"none"} \cup Open \cup Terminal)
                BY <4>1, <4>2 DEF TypeOK
            <4>7. mgen' \in PerRecord(0 .. MaxGen)
                BY <4>1 DEF TypeOK
            <4>8. mcan' \in PerRecord(BOOLEAN) /\ mrev' \in PerRecord(Revision)
                BY <4>1 DEF TypeOK
            <4> HIDE DEF PerRecord
            <4> QED BY <4>3, <4>5, <4>6, <4>7, <4>8
        <3> QED BY <3>1, <3>2
    <2>3. /\ tool' \in PerRecord({"none", "pre", "active", "durable"})
          /\ told' \in [Job -> BOOLEAN] /\ ilease' \in [Inst -> BOOLEAN]
          /\ UNCHANGED <<owner, gen, lock, alive, work, fly, fcan>>
        BY <1>30 DEF TypeOK, CancelRetried, OpenDb
    <2> QED BY <1>6, <2>1, <2>2, <2>3 DEF TypeOK
<1>31. ASSUME NEW i \in Inst, NEW j \in Job, CancelThrows(i, j)
      PROVE  TypeOK'
    BY <1>31 DEF TypeOK, CancelThrows
<1>32. CASE UNCHANGED vars
    BY <1>32 DEF TypeOK, vars
<1> QED BY <1>1, <1>2, <1>3, <1>4, <1>5, <1>7, <1>8, <1>9, <1>10, <1>11, <1>12, <1>13, <1>14,
           <1>15, <1>16, <1>17, <1>18, <1>19, <1>20, <1>21, <1>22, <1>23, <1>24, <1>25,
           <1>26, <1>27, <1>28, <1>29, <1>30, <1>31, <1>32 DEF Next

(* Every variable of the queue model keeps its type.                                        *)
THEOREM TypeCorrect == Spec => []TypeOK
<1>1. Init => TypeOK
    BY DEF Init, TypeOK
<1>2. TypeOK /\ [Next]_vars => TypeOK'
    BY TypeStep
<1> QED BY <1>1, <1>2, PTL DEF Spec

-----------------------------------------------------------------------------
(* What a transaction that ends a row does to the other rows.                               *)

(* Finish writes the row's status, cancels siblings that have not started, asks the others  *)
(* to stop, and leaves the rest of the table alone.                                         *)
LEMMA FinishFacts ==
    ASSUME TypeOK, NEW j \in Job, NEW status \in Terminal, Finish(j, status)
    PROVE  /\ st'[j] = status
           /\ \A k \in Job : k # j =>
                \/ st'[k] = st[k]
                \/ st[k] \in Pre /\ st'[k] = "cancelled"
           /\ \A k \in Job : cancel[k] => cancel'[k]
           /\ \A k \in Job : k # j /\ st[k] \notin Pre => lease'[k] = lease[k]
           /\ pipe = "none" <=> pipe' = "none"
BY DEF TypeOK, Finish

(* The row of a transaction that cancels: ended when it had not started, asked otherwise.   *)
LEMMA CancelRowFacts ==
    ASSUME TypeOK, NEW j \in Job, CancelRow(j)
    PROVE  /\ \A k \in Job :
                \/ st'[k] = st[k]
                \/ st[k] \in Pre /\ st'[k] = "cancelled"
           /\ \A k \in Job : cancel[k] => cancel'[k]
           /\ \A k \in Job : st[k] \notin Pre => lease'[k] = lease[k]
           /\ pipe = "none" <=> pipe' = "none"
<1>1. CASE st[j] \in Pre
    BY <1>1, FinishFacts DEF CancelRow
<1>2. CASE st[j] \notin Pre
    BY <1>2 DEF CancelRow, TypeOK
<1> QED BY <1>1, <1>2

-----------------------------------------------------------------------------
(* Who works on a row.                                                                      *)

(* A row that has not started has no worker and no lock.                                    *)
LEMMA UnstartedIsFree ==
    ASSUME QueueInv, NEW j \in Job, st[j] \notin Terminal, st[j] # "running"
    PROVE  lock[j] # "held" /\ \A k \in Inst : work[k][j] = "none"
BY DEF QueueInv, WorkerOk, LockOk

(* Only the owner of an open row has a worker for it, and the lock of a row whose owner is  *)
(* alive and does not run it is free.                                                       *)
LEMMA OnlyOwnerWorks ==
    ASSUME QueueInv, NEW i \in Inst, NEW j \in Job, Owns(i, j), st[j] \notin Terminal
    PROVE  /\ \A k \in Inst : work[k][j] # "none" => k = i
           /\ alive[i] /\ work[i][j] # "run" => lock[j] # "held"
<1>1. \A k \in Inst : work[k][j] # "none" => k = i
    BY DEF QueueInv, WorkerOk, Owns
<1>2. ASSUME alive[i], work[i][j] # "run" PROVE lock[j] # "held"
    BY <1>1, <1>2 DEF QueueInv, LockOk, Owns
<1> QED BY <1>1, <1>2

(* A step that leaves the rows, the workers, their records and the locks alone.             *)
LEMMA QuietStep ==
    ASSUME QueueInv, UNCHANGED <<st, owner, gen, pipe, lock, alive, mst, mgen, work, fly>>
    PROVE  QueueInv'
BY DEF QueueInv, WorkerOk, LockOk, OneWorker, Owns

(* How one record keeps WorkerOk: a step leaves it and its worker alone, and the row either  *)
(* stays as it is or ends.                                                                  *)
LEMMA WorkerKept ==
    ASSUME QueueInv, NEW a \in Inst, NEW b \in Job,
           work'[a][b] = work[a][b], fly'[a][b] = fly[a][b], alive'[a] = alive[a],
           mst'[a][b] = mst[a][b], mgen'[a][b] = mgen[a][b],
           work[a][b] # "none" =>
             \/ st'[b] \in Terminal
             \/ st'[b] = st[b] /\ owner'[b] = owner[b] /\ gen'[b] = gen[b]
    PROVE  WorkerOk(a, b)'
BY DEF QueueInv, WorkerOk, Owns

(* How one lock keeps LockOk: nothing takes it, and while it is held the row and the worker *)
(* that holds it stay.                                                                      *)
LEMMA LockKept ==
    ASSUME QueueInv, NEW b \in Job, UNCHANGED alive,
           lock'[b] = "held" =>
             /\ lock[b] = "held"
             /\ st'[b] = st[b] /\ owner'[b] = owner[b]
             /\ \A k \in Inst : work[k][b] = "run" => work'[k][b] = "run"
    PROVE  LockOk(b)'
BY DEF QueueInv, LockOk

(* A step that starts no worker keeps OneWorker.                                            *)
LEMMA NoNewWorker ==
    ASSUME QueueInv, \A a \in Inst, b \in Job : work'[a][b] # "none" => work[a][b] # "none"
    PROVE  OneWorker'
BY DEF QueueInv, OneWorker

(* Every step keeps the invariant.                                                          *)
LEMMA InvStep ==
    ASSUME TypeOK, QueueInv, [Next]_vars
    PROVE  QueueInv'
<1> USE DEF rows, records, flight
<1>1. ASSUME NEW i \in Inst, Crash(i)
      PROVE  QueueInv'
    <2>1. ASSUME NEW a \in Inst, NEW b \in Job PROVE WorkerOk(a, b)'
        BY <1>1 DEF QueueInv, TypeOK, WorkerOk, Owns, Crash
    <2>2. OneWorker'
        BY <1>1 DEF QueueInv, TypeOK, OneWorker, Crash
    <2>3. ASSUME NEW b \in Job PROVE LockOk(b)'
        <3>1. CASE owner[b] = i /\ lock[b] = "held"
            BY <1>1, <3>1 DEF QueueInv, TypeOK, LockOk, Crash
        <3>2. CASE owner[b] # i /\ lock[b] = "held"
            <4>1. \A k \in Inst : work[k][b] = "run" => k # i
                BY <3>2 DEF QueueInv, WorkerOk, LockOk, Owns
            <4>2. \A k \in Inst : work[k][b] = "run" => work'[k][b] = "run"
                BY <1>1, <4>1 DEF TypeOK, Crash
            <4> QED BY <1>1, <3>2, <4>2 DEF QueueInv, TypeOK, LockOk, Crash
        <3> QED BY <1>1, <3>1, <3>2 DEF LockOk, Crash
    <2>4. \A b \in Batch : st'[b] = "none" <=> pipe' = "none"
        BY <1>1 DEF QueueInv, TypeOK, Crash
    <2> QED BY <2>1, <2>2, <2>3, <2>4 DEF QueueInv
<1>2. ASSUME NEW i \in Inst, ActivateBatch(i)
      PROVE  QueueInv'
    <2>1. ASSUME NEW a \in Inst, NEW b \in Job PROVE WorkerOk(a, b)'
        BY <1>2, UnstartedIsFree DEF QueueInv, TypeOK, WorkerOk, Owns, ActivateBatch
    <2>2. OneWorker'
        BY <1>2, UnstartedIsFree DEF QueueInv, TypeOK, OneWorker, ActivateBatch
    <2>3. ASSUME NEW b \in Job PROVE LockOk(b)'
        BY <1>2, UnstartedIsFree DEF QueueInv, TypeOK, WorkerOk, LockOk, Owns, ActivateBatch
    <2>4. \A b \in Batch : st'[b] = "none" <=> pipe' = "none"
        BY <1>2, UnstartedIsFree DEF QueueInv, TypeOK, ActivateBatch
    <2> QED BY <2>1, <2>2, <2>3, <2>4 DEF QueueInv
<1>3. ASSUME NEW j \in Job, EnqueueUnowned(j)
      PROVE  QueueInv'
    <2>1. ASSUME NEW a \in Inst, NEW b \in Job PROVE WorkerOk(a, b)'
        BY <1>3, UnstartedIsFree DEF QueueInv, TypeOK, WorkerOk, Owns, EnqueueUnowned
    <2>2. OneWorker'
        BY <1>3, UnstartedIsFree DEF QueueInv, TypeOK, OneWorker, EnqueueUnowned
    <2>3. ASSUME NEW b \in Job PROVE LockOk(b)'
        BY <1>3, UnstartedIsFree DEF QueueInv, TypeOK, WorkerOk, LockOk, Owns, EnqueueUnowned
    <2>4. \A b \in Batch : st'[b] = "none" <=> pipe' = "none"
        BY <1>3, UnstartedIsFree DEF QueueInv, TypeOK, EnqueueUnowned
    <2> QED BY <2>1, <2>2, <2>3, <2>4 DEF QueueInv
<1>4. ASSUME NEW j \in Job, DurableCancel(j)
      PROVE  QueueInv'
    <2>1. ASSUME NEW a \in Inst, NEW b \in Job PROVE WorkerOk(a, b)'
        BY <1>4, CancelRowFacts, UnstartedIsFree DEF QueueInv, TypeOK, WorkerOk, Owns,
           DurableCancel
    <2>2. OneWorker'
        BY <1>4, CancelRowFacts, UnstartedIsFree DEF QueueInv, TypeOK, OneWorker, DurableCancel
    <2>3. ASSUME NEW b \in Job PROVE LockOk(b)'
        <3>1. /\ UNCHANGED alive
              /\ lock'[b] = "held" =>
                   /\ lock[b] = "held"
                   /\ st'[b] = st[b] /\ owner'[b] = owner[b]
                   /\ \A k \in Inst : work[k][b] = "run" => work'[k][b] = "run"
            BY <1>4, CancelRowFacts, UnstartedIsFree DEF DurableCancel
        <3> QED BY <3>1, LockKept
    <2>4. \A b \in Batch : st'[b] = "none" <=> pipe' = "none"
        BY <1>4, CancelRowFacts, UnstartedIsFree DEF QueueInv, TypeOK, DurableCancel
    <2> QED BY <2>1, <2>2, <2>3, <2>4 DEF QueueInv
<1>5. ASSUME NEW i \in Inst, NEW j \in Job, Enqueue(i, j)
      PROVE  QueueInv'
    <2>1. ASSUME NEW a \in Inst, NEW b \in Job PROVE WorkerOk(a, b)'
        BY <1>5, UnstartedIsFree DEF QueueInv, TypeOK, WorkerOk, Owns, Enqueue, Record
    <2>2. OneWorker'
        BY <1>5, UnstartedIsFree DEF QueueInv, TypeOK, OneWorker, Enqueue, Record
    <2>3. ASSUME NEW b \in Job PROVE LockOk(b)'
        BY <1>5, UnstartedIsFree, SMTT(30)
           DEF QueueInv, TypeOK, WorkerOk, LockOk, Owns, Enqueue, Record
    <2>4. \A b \in Batch : st'[b] = "none" <=> pipe' = "none"
        BY <1>5, UnstartedIsFree DEF QueueInv, TypeOK, Enqueue, Record
    <2> QED BY <2>1, <2>2, <2>3, <2>4 DEF QueueInv
<1>6. ASSUME NEW i \in Inst, NEW j \in Job, 
             NEW w \in {"planned", "blocked", "failed", "cancelled", "claim"},
             ScheduleWrite(i, j, w)
      PROVE  QueueInv'
    <2>1. ASSUME NEW a \in Inst, NEW b \in Job PROVE WorkerOk(a, b)'
        BY <1>6 DEF QueueInv, TypeOK, WorkerOk, Owns, ScheduleWrite, Begin
    <2>2. OneWorker'
        BY <1>6 DEF QueueInv, TypeOK, OneWorker, ScheduleWrite, Begin
    <2>3. ASSUME NEW b \in Job PROVE LockOk(b)'
        BY <1>6 DEF QueueInv, TypeOK, WorkerOk, LockOk, Owns, ScheduleWrite, Begin
    <2>4. \A b \in Batch : st'[b] = "none" <=> pipe' = "none"
        BY <1>6 DEF QueueInv, TypeOK, ScheduleWrite, Begin
    <2> QED BY <2>1, <2>2, <2>3, <2>4 DEF QueueInv
<1>7. ASSUME NEW i \in Inst, NEW j \in Job, NoteBegin(i, j)
      PROVE  QueueInv'
    <2>1. ASSUME NEW a \in Inst, NEW b \in Job PROVE WorkerOk(a, b)'
        BY <1>7 DEF QueueInv, TypeOK, WorkerOk, Owns, NoteBegin, Begin
    <2>2. OneWorker'
        BY <1>7 DEF QueueInv, TypeOK, OneWorker, NoteBegin, Begin
    <2>3. ASSUME NEW b \in Job PROVE LockOk(b)'
        BY <1>7 DEF QueueInv, TypeOK, WorkerOk, LockOk, Owns, NoteBegin, Begin
    <2>4. \A b \in Batch : st'[b] = "none" <=> pipe' = "none"
        BY <1>7 DEF QueueInv, TypeOK, NoteBegin, Begin
    <2> QED BY <2>1, <2>2, <2>3, <2>4 DEF QueueInv
<1>8. ASSUME NEW i \in Inst, NEW j \in Job, NEW w \in Outcome, OutcomeBegin(i, j, w)
      PROVE  QueueInv'
    <2>1. ASSUME NEW a \in Inst, NEW b \in Job PROVE WorkerOk(a, b)'
        BY <1>8 DEF QueueInv, TypeOK, WorkerOk, Owns, OutcomeBegin, Begin
    <2>2. OneWorker'
        BY <1>8 DEF QueueInv, TypeOK, OneWorker, OutcomeBegin, Begin
    <2>3. ASSUME NEW b \in Job PROVE LockOk(b)'
        BY <1>8 DEF QueueInv, TypeOK, WorkerOk, LockOk, Owns, OutcomeBegin, Begin
    <2>4. \A b \in Batch : st'[b] = "none" <=> pipe' = "none"
        BY <1>8 DEF QueueInv, TypeOK, OutcomeBegin, Begin
    <2> QED BY <2>1, <2>2, <2>3, <2>4 DEF QueueInv
<1>9. ASSUME NEW i \in Inst, NEW j \in Job, WriteCommits(i, j)
      PROVE  QueueInv'
    <2>1. ASSUME NEW a \in Inst, NEW b \in Job PROVE WorkerOk(a, b)'
        BY <1>9, OnlyOwnerWorks, SMTT(30) DEF QueueInv, TypeOK, WorkerOk, Owns, WriteCommits, Plain,
           Written, UpdateAllowed, Record, Landed
    <2>2. OneWorker'
        BY <1>9, OnlyOwnerWorks DEF QueueInv, TypeOK, OneWorker, WriteCommits, Plain,
           Written, UpdateAllowed, Record, Landed
    <2>3. ASSUME NEW b \in Job PROVE LockOk(b)'
        <3>1. Owns(i, j) /\ st[j] \notin Terminal /\ alive[i]
            BY <1>9 DEF WriteCommits, Plain, UpdateAllowed
        <3>2. lock[j] = "held" => work[i][j] = "run" /\ fly[i][j] = "note" /\ st[j] = "running"
            BY <1>9, <3>1, OnlyOwnerWorks DEF QueueInv, WorkerOk, LockOk, WriteCommits, Plain
        <3>3. lock[j] = "held" => st'[j] = st[j]
            BY <1>9, <3>2 DEF TypeOK, WriteCommits, Written
        <3>4. \A k \in Inst : work[k][b] = "run" => work'[k][b] = "run"
            BY <1>9 DEF TypeOK, WriteCommits
        <3>5. b # j => st'[b] = st[b]
            BY <1>9 DEF TypeOK, WriteCommits
        <3>6. UNCHANGED <<alive, lock, owner>>
            BY <1>9 DEF WriteCommits
        <3> QED BY <3>3, <3>4, <3>5, <3>6, LockKept
    <2>4. \A b \in Batch : st'[b] = "none" <=> pipe' = "none"
        BY <1>9, OnlyOwnerWorks DEF QueueInv, TypeOK, WriteCommits, Plain, Written,
           UpdateAllowed, Record, Landed
    <2> QED BY <2>1, <2>2, <2>3, <2>4 DEF QueueInv
<1>10. ASSUME NEW i \in Inst, NEW j \in Job, WriteRetakes(i, j)
      PROVE  QueueInv'
    <2>1. ASSUME NEW a \in Inst, NEW b \in Job PROVE WorkerOk(a, b)'
        BY <1>10 DEF QueueInv, TypeOK, WorkerOk, Owns, WriteRetakes, Retakes, Load, Record
    <2>2. OneWorker'
        BY <1>10 DEF QueueInv, TypeOK, OneWorker, WriteRetakes, Retakes, Load, Record
    <2>3. ASSUME NEW b \in Job PROVE LockOk(b)'
        BY <1>10 DEF QueueInv, TypeOK, WorkerOk, LockOk, Owns, WriteRetakes, Retakes, Load,
           Record
    <2>4. \A b \in Batch : st'[b] = "none" <=> pipe' = "none"
        BY <1>10 DEF QueueInv, TypeOK, WriteRetakes, Retakes, Load, Record
    <2> QED BY <2>1, <2>2, <2>3, <2>4 DEF QueueInv
<1>11. ASSUME NEW i \in Inst, NEW j \in Job, WriteRefused(i, j)
      PROVE  QueueInv'
    <2>1. ASSUME NEW a \in Inst, NEW b \in Job PROVE WorkerOk(a, b)'
        BY <1>11 DEF QueueInv, TypeOK, WorkerOk, Owns, WriteRefused, Plain, Load, Drop,
           Record, Landed
    <2>2. OneWorker'
        BY <1>11 DEF QueueInv, TypeOK, OneWorker, WriteRefused, Plain, Load, Drop, Record,
           Landed
    <2>3. ASSUME NEW b \in Job PROVE LockOk(b)'
        <3>1. UNCHANGED <<alive, lock, st, owner>>
            BY <1>11 DEF WriteRefused
        <3>2. \A k \in Inst : work[k][b] = "run" => work'[k][b] = "run"
            <4>1. CASE UNCHANGED work
                BY <4>1
            <4>2. CASE work[i][j] = "blocked" /\ work' = [work EXCEPT ![i][j] = "cancelled"]
                BY <4>2 DEF TypeOK
            <4>3. CASE work[i][j] = "blocked" /\ work' = [work EXCEPT ![i][j] = "none"]
                BY <4>3 DEF TypeOK
            <4> QED BY <1>11, <4>1, <4>2, <4>3 DEF WriteRefused
        <3> QED BY <3>1, <3>2, LockKept
    <2>4. \A b \in Batch : st'[b] = "none" <=> pipe' = "none"
        BY <1>11 DEF QueueInv, TypeOK, WriteRefused, Plain, Load, Drop, Record, Landed
    <2> QED BY <2>1, <2>2, <2>3, <2>4 DEF QueueInv
<1>12. ASSUME NEW i \in Inst, NEW j \in Job, FinalCommits(i, j)
      PROVE  QueueInv'
    <2>1. PICK status \in Terminal : Finish(j, status)
        BY <1>12 DEF FinalCommits, Final, TerminalWrite
    <2>2. Owns(i, j) /\ st[j] \notin Terminal /\ st[j] # "none" /\ alive[i]
        <3>1. TerminalWrite(i, j, fly[i][j], frev[i][j]) # "none" /\ alive[i]
            BY <1>12 DEF FinalCommits, Final
        <3>2. Owns(i, j)
            BY <3>1 DEF TerminalWrite
        <3>3. st[j] \in Open
            BY <3>1 DEF TerminalWrite
        <3> QED BY <3>1, <3>2, <3>3
    <2>3. work[i][j] # "run"
        BY <1>12 DEF FinalCommits, Final, QueueInv, WorkerOk
    <2>4. ASSUME NEW a \in Inst, NEW b \in Job PROVE WorkerOk(a, b)'
        <3>1. CASE a = i /\ b = j
            BY <1>12, <3>1 DEF TypeOK, WorkerOk, FinalCommits, Landed
        <3>2. CASE ~(a = i /\ b = j)
            <4>1. /\ work'[a][b] = work[a][b] /\ fly'[a][b] = fly[a][b] /\ alive'[a] = alive[a]
                  /\ mst'[a][b] = mst[a][b] /\ mgen'[a][b] = mgen[a][b]
                  /\ owner'[b] = owner[b] /\ gen'[b] = gen[b]
                BY <1>12, <3>2 DEF TypeOK, FinalCommits, Record, Landed
            <4>2. st'[b] \in Terminal \/ st'[b] = st[b]
                BY <2>1, FinishFacts
            <4> QED BY <4>1, <4>2, WorkerKept
        <3> QED BY <3>1, <3>2
    <2>5. OneWorker'
        BY <1>12, OnlyOwnerWorks, FinishFacts DEF QueueInv, TypeOK, OneWorker, FinalCommits,
           Final, Record, Landed
    <2>6. ASSUME NEW b \in Job PROVE LockOk(b)'
        <3>1. lock[j] # "held"
            BY <2>2, <2>3, OnlyOwnerWorks
        <3>2. lock[b] = "held" => st'[b] = st[b]
            BY <2>1, <3>1, FinishFacts, UnstartedIsFree
        <3>3. \A k \in Inst : work[k][b] = "run" => work'[k][b] = "run"
            BY <1>12, <2>3 DEF TypeOK, FinalCommits
        <3>4. UNCHANGED <<alive, lock, owner>>
            BY <1>12 DEF FinalCommits
        <3> QED BY <3>2, <3>3, <3>4, LockKept
    <2>7. \A b \in Batch : st'[b] = "none" <=> pipe' = "none"
        BY <2>1, <2>2, FinishFacts DEF QueueInv
    <2> QED BY <2>4, <2>5, <2>6, <2>7 DEF QueueInv
<1>13. ASSUME NEW i \in Inst, NEW j \in Job, FinalRefused(i, j)
      PROVE  QueueInv'
    <2>1. ASSUME NEW a \in Inst, NEW b \in Job PROVE WorkerOk(a, b)'
        BY <1>13 DEF QueueInv, TypeOK, WorkerOk, Owns, FinalRefused, Final, Load, Drop,
           Record, Landed
    <2>2. OneWorker'
        BY <1>13 DEF QueueInv, TypeOK, OneWorker, FinalRefused, Final, Load, Drop, Record,
           Landed
    <2>3. ASSUME NEW b \in Job PROVE LockOk(b)'
        <3>1. UNCHANGED <<alive, lock, st, owner>>
            BY <1>13 DEF FinalRefused
        <3>2. work[i][j] # "run" /\ work' = [work EXCEPT ![i][j] = "none"]
            BY <1>13 DEF FinalRefused, Final, QueueInv, WorkerOk
        <3>3. \A k \in Inst : work[k][b] = "run" => work'[k][b] = "run"
            BY <3>2 DEF TypeOK
        <3> QED BY <3>1, <3>3, LockKept
    <2>4. \A b \in Batch : st'[b] = "none" <=> pipe' = "none"
        BY <1>13 DEF QueueInv, TypeOK, FinalRefused, Final, Load, Drop, Record, Landed
    <2> QED BY <2>1, <2>2, <2>3, <2>4 DEF QueueInv
<1>14. ASSUME NEW i \in Inst, NEW j \in Job, WriteThrows(i, j)
      PROVE  QueueInv'
    <2>1. ASSUME NEW a \in Inst, NEW b \in Job PROVE WorkerOk(a, b)'
        BY <1>14 DEF QueueInv, TypeOK, WorkerOk, Owns, WriteThrows, Landed
    <2>2. OneWorker'
        <3>1. \A a \in Inst, b \in Job : work'[a][b] # "none" => work[a][b] # "none"
            BY <1>14 DEF QueueInv, WorkerOk, TypeOK, WriteThrows
        <3> QED BY <3>1, NoNewWorker
    <2>3. ASSUME NEW b \in Job PROVE LockOk(b)'
        BY <1>14 DEF QueueInv, TypeOK, WorkerOk, LockOk, Owns, WriteThrows, Landed
    <2>4. \A b \in Batch : st'[b] = "none" <=> pipe' = "none"
        BY <1>14 DEF QueueInv, TypeOK, WriteThrows, Landed
    <2> QED BY <2>1, <2>2, <2>3, <2>4 DEF QueueInv
<1>15. ASSUME NEW i \in Inst, NEW j \in Job, Abandon(i, j)
      PROVE  QueueInv'
    <2>1. /\ work[i][j] \in Outcome /\ fly[i][j] = "none"
          /\ UNCHANGED <<st, owner, gen, pipe, lock, alive, fly>>
        BY <1>15 DEF Abandon
    <2>2. /\ \A a \in Inst, b \in Job : ~(a = i /\ b = j) =>
               work'[a][b] = work[a][b] /\ mst'[a][b] = mst[a][b] /\ mgen'[a][b] = mgen[a][b]
          /\ \/ work'[i][j] = "none"
             \/ work'[i][j] = "cancelled" /\ UNCHANGED <<mst, mgen>>
        <3>1. CASE work' = [work EXCEPT ![i][j] = "cancelled"] /\ UNCHANGED records
            BY <3>1 DEF TypeOK
        <3>2. CASE work' = [work EXCEPT ![i][j] = "none"] /\ Drop(i, j)
            BY <3>2 DEF TypeOK, Drop, Record
        <3> QED BY <1>15, <3>1, <3>2 DEF Abandon
    <2>3. ASSUME NEW a \in Inst, NEW b \in Job PROVE WorkerOk(a, b)'
        <3>1. CASE a = i /\ b = j
            BY <2>1, <2>2, <3>1 DEF QueueInv, WorkerOk, Owns
        <3>2. CASE ~(a = i /\ b = j)
            BY <2>1, <2>2, <3>2, WorkerKept
        <3> QED BY <3>1, <3>2
    <2>4. OneWorker'
        BY <2>1, <2>2, NoNewWorker
    <2>5. ASSUME NEW b \in Job PROVE LockOk(b)'
        BY <2>1, <2>2, LockKept
    <2>6. \A b \in Batch : st'[b] = "none" <=> pipe' = "none"
        BY <1>15 DEF QueueInv, TypeOK, Abandon, Drop, Record
    <2> QED BY <2>3, <2>4, <2>5, <2>6 DEF QueueInv
<1>16. ASSUME NEW i \in Inst, NEW j \in Job, ClaimCommits(i, j)
      PROVE  QueueInv'
    <2>1. ASSUME NEW a \in Inst, NEW b \in Job PROVE WorkerOk(a, b)'
        BY <1>16, UnstartedIsFree DEF QueueInv, TypeOK, WorkerOk, Owns, ClaimCommits,
           Claimable, Landed
    <2>2. OneWorker'
        <3>1. \A k \in Inst : work[k][j] = "none"
            BY <1>16, UnstartedIsFree DEF ClaimCommits, Claimable
        <3>2. \A a \in Inst, b \in Job : ~(a = i /\ b = j) => work'[a][b] = work[a][b]
            BY <1>16 DEF TypeOK, ClaimCommits
        <3> QED BY <3>1, <3>2 DEF QueueInv, OneWorker
    <2>3. ASSUME NEW b \in Job PROVE LockOk(b)'
        BY <1>16, UnstartedIsFree DEF QueueInv, TypeOK, WorkerOk, LockOk, Owns, ClaimCommits,
           Claimable, Landed
    <2>4. \A b \in Batch : st'[b] = "none" <=> pipe' = "none"
        BY <1>16, UnstartedIsFree DEF QueueInv, TypeOK, ClaimCommits, Claimable, Landed
    <2> QED BY <2>1, <2>2, <2>3, <2>4 DEF QueueInv
<1>17. ASSUME NEW i \in Inst, NEW j \in Job, ClaimRefused(i, j)
      PROVE  QueueInv'
    <2>1. ASSUME NEW a \in Inst, NEW b \in Job PROVE WorkerOk(a, b)'
        BY <1>17, UnstartedIsFree DEF QueueInv, TypeOK, WorkerOk, Owns, ClaimRefused, Landed
    <2>2. OneWorker'
        BY <1>17, UnstartedIsFree DEF QueueInv, TypeOK, OneWorker, ClaimRefused, Landed
    <2>3. ASSUME NEW b \in Job PROVE LockOk(b)'
        BY <1>17, UnstartedIsFree DEF QueueInv, TypeOK, WorkerOk, LockOk, Owns, ClaimRefused,
           Landed
    <2>4. \A b \in Batch : st'[b] = "none" <=> pipe' = "none"
        BY <1>17, UnstartedIsFree DEF QueueInv, TypeOK, ClaimRefused, Landed
    <2> QED BY <2>1, <2>2, <2>3, <2>4 DEF QueueInv
<1>18. ASSUME NEW i \in Inst, NEW j \in Job, AcquireLock(i, j)
      PROVE  QueueInv'
    <2>1. ASSUME NEW a \in Inst, NEW b \in Job PROVE WorkerOk(a, b)'
        BY <1>18 DEF QueueInv, TypeOK, WorkerOk, Owns, AcquireLock, LockAllowed
    <2>2. OneWorker'
        BY <1>18 DEF QueueInv, TypeOK, OneWorker, AcquireLock, LockAllowed
    <2>3. ASSUME NEW b \in Job PROVE LockOk(b)'
        BY <1>18 DEF QueueInv, TypeOK, WorkerOk, LockOk, Owns, AcquireLock, LockAllowed
    <2>4. \A b \in Batch : st'[b] = "none" <=> pipe' = "none"
        BY <1>18 DEF QueueInv, TypeOK, AcquireLock, LockAllowed
    <2> QED BY <2>1, <2>2, <2>3, <2>4 DEF QueueInv
<1>19. ASSUME NEW i \in Inst, NEW j \in Job, NEW o \in Outcome, NEW keep \in BOOLEAN,
             EndRun(i, j, o, keep)
      PROVE  QueueInv'
    <2>1. ASSUME NEW a \in Inst, NEW b \in Job PROVE WorkerOk(a, b)'
        BY <1>19 DEF QueueInv, TypeOK, WorkerOk, Owns, EndRun
    <2>2. OneWorker'
        BY <1>19 DEF QueueInv, TypeOK, OneWorker, EndRun
    <2>3. ASSUME NEW b \in Job PROVE LockOk(b)'
        BY <1>19 DEF QueueInv, TypeOK, WorkerOk, LockOk, Owns, EndRun
    <2>4. \A b \in Batch : st'[b] = "none" <=> pipe' = "none"
        BY <1>19 DEF QueueInv, TypeOK, EndRun
    <2> QED BY <2>1, <2>2, <2>3, <2>4 DEF QueueInv
<1>20. ASSUME NEW i \in Inst, NEW j \in Job, Reconcile(i, j)
      PROVE  QueueInv'
    <2>1. ASSUME NEW a \in Inst, NEW b \in Job PROVE WorkerOk(a, b)'
        <3>1. PICK status \in Terminal : Finish(j, status)
            BY <1>20 DEF Reconcile
        <3>2. st'[b] = st[b] \/ st'[b] \in Terminal
            BY <3>1, FinishFacts DEF QueueInv
        <3>3. UNCHANGED <<owner, gen, alive, mst, mgen, work, fly>>
            BY <1>20 DEF Reconcile
        <3> QED BY <3>2, <3>3, WorkerKept
    <2>2. OneWorker'
        BY <1>20, FinishFacts DEF QueueInv, TypeOK, OneWorker, Reconcile, Stale, LockReleased
    <2>3. ASSUME NEW b \in Job PROVE LockOk(b)'
        <3>1. PICK status \in Terminal : Finish(j, status)
            BY <1>20 DEF Reconcile
        <3>2. lock'[b] = "held" => b # j /\ lock[b] = "held"
            BY <1>20 DEF TypeOK, Reconcile, LockReleased
        <3>3. lock'[b] = "held" => st'[b] = st[b]
            BY <3>1, <3>2, FinishFacts, UnstartedIsFree
        <3>4. UNCHANGED <<alive, work, owner>>
            BY <1>20 DEF Reconcile
        <3> QED BY <3>2, <3>3, <3>4, LockKept
    <2>4. \A b \in Batch : st'[b] = "none" <=> pipe' = "none"
        BY <1>20, FinishFacts, ZenonT(40) DEF QueueInv, TypeOK, Reconcile, Stale, LockReleased
    <2> QED BY <2>1, <2>2, <2>3, <2>4 DEF QueueInv
<1>21. ASSUME NEW i \in Inst, NEW j \in Job, Adopt(i, j)
      PROVE  QueueInv'
    <2>1. ASSUME NEW a \in Inst, NEW b \in Job PROVE WorkerOk(a, b)'
        BY <1>21, UnstartedIsFree DEF QueueInv, TypeOK, WorkerOk, Owns, Adopt, Adoptable,
           Record
    <2>2. OneWorker'
        BY <1>21, UnstartedIsFree DEF QueueInv, TypeOK, OneWorker, Adopt, Adoptable, Record
    <2>3. ASSUME NEW b \in Job PROVE LockOk(b)'
        BY <1>21, UnstartedIsFree DEF QueueInv, TypeOK, WorkerOk, LockOk, Owns, Adopt,
           Adoptable, Record
    <2>4. \A b \in Batch : st'[b] = "none" <=> pipe' = "none"
        BY <1>21, UnstartedIsFree DEF QueueInv, TypeOK, Adopt, Adoptable, Record
    <2> QED BY <2>1, <2>2, <2>3, <2>4 DEF QueueInv
<1>22. ASSUME NEW i \in Inst, NEW j \in Job, FailAdoption(i, j)
      PROVE  QueueInv'
    <2>1. Finish(j, "failed") /\ st[j] \in Pre
          /\ UNCHANGED <<owner, gen, lock, alive, mst, mgen, work, fly>>
        BY <1>22 DEF FailAdoption, Adoptable
    <2>2. \A b \in Job : st'[b] = st[b] \/ (st[b] \in Pre /\ st'[b] \in Terminal)
        BY <2>1, FinishFacts
    <2>3. ASSUME NEW a \in Inst, NEW b \in Job PROVE WorkerOk(a, b)'
        BY <2>1, <2>2, WorkerKept
    <2>4. OneWorker'
        BY <1>22, FinishFacts, UnstartedIsFree DEF QueueInv, TypeOK, OneWorker, FailAdoption,
           Adoptable
    <2>5. ASSUME NEW b \in Job PROVE LockOk(b)'
        BY <2>1, <2>2, UnstartedIsFree, LockKept
    <2>6. \A b \in Batch : st'[b] = "none" <=> pipe' = "none"
        BY <2>1, <2>2, FinishFacts DEF QueueInv
    <2> QED BY <2>3, <2>4, <2>5, <2>6 DEF QueueInv
<1>23. ASSUME NEW i \in Inst, NEW j \in Job, Prune(i, j)
      PROVE  QueueInv'
    <2>1. ASSUME NEW a \in Inst, NEW b \in Job PROVE WorkerOk(a, b)'
        BY <1>23 DEF QueueInv, TypeOK, WorkerOk, Owns, Prune, Drop, Record
    <2>2. OneWorker'
        BY <1>23 DEF QueueInv, TypeOK, OneWorker, Prune, Drop, Record
    <2>3. ASSUME NEW b \in Job PROVE LockOk(b)'
        BY <1>23 DEF QueueInv, TypeOK, WorkerOk, LockOk, Owns, Prune, Drop, Record
    <2>4. \A b \in Batch : st'[b] = "none" <=> pipe' = "none"
        BY <1>23 DEF QueueInv, TypeOK, Prune, Drop, Record
    <2> QED BY <2>1, <2>2, <2>3, <2>4 DEF QueueInv
<1>24. ASSUME NEW i \in Inst, NEW j \in Job, CancelBegin(i, j)
      PROVE  QueueInv'
    <2>1. ASSUME NEW a \in Inst, NEW b \in Job PROVE WorkerOk(a, b)'
        BY <1>24 DEF QueueInv, TypeOK, WorkerOk, Owns, CancelBegin, Record
    <2>2. OneWorker'
        BY <1>24 DEF QueueInv, TypeOK, OneWorker, CancelBegin, Record
    <2>3. ASSUME NEW b \in Job PROVE LockOk(b)'
        BY <1>24 DEF QueueInv, TypeOK, WorkerOk, LockOk, Owns, CancelBegin, Record
    <2>4. \A b \in Batch : st'[b] = "none" <=> pipe' = "none"
        BY <1>24 DEF QueueInv, TypeOK, CancelBegin, Record
    <2> QED BY <2>1, <2>2, <2>3, <2>4 DEF QueueInv
<1>25. ASSUME NEW i \in Inst, NEW j \in Job, CancelPersists(i, j)
      PROVE  QueueInv'
    <2>1. alive[i] /\ UNCHANGED <<owner, gen, lock, alive, mgen, work, fly>>
        BY <1>25 DEF CancelPersists, ToolWriting
    <2>2. Owns(i, j) /\ st[j] \in Open
        <3>1. CASE UpdateAllowed(i, j, mrev[i][j])
            BY <3>1 DEF UpdateAllowed
        <3>2. CASE TerminalWrite(i, j, mst[i][j], mrev[i][j]) # "none"
            <4>1. Owns(i, j)
                BY <3>2 DEF TerminalWrite
            <4>2. st[j] \in Open
                BY <3>2 DEF TerminalWrite
            <4> QED BY <4>1, <4>2
        <3> QED BY <1>25, <3>1, <3>2 DEF CancelPersists, ToolPersists
    <2>3. /\ \A b \in Job : b # j => st'[b] = st[b] \/ (st[b] \in Pre /\ st'[b] \in Terminal)
          /\ \/ mst[i][j] \in Open /\ st'[j] = mst[i][j] /\ UNCHANGED mst
             \/ mst[i][j] \notin Open /\ st'[j] \in Terminal
          /\ \A a \in Inst, b \in Job : b # j => mst'[a][b] = mst[a][b]
          /\ pipe = "none" <=> pipe' = "none"
        <3>1. CASE mst[i][j] \in Open
            BY <1>25, <3>1 DEF CancelPersists, TypeOK
        <3>2. CASE mst[i][j] \notin Open
            <4>1. PICK status \in Terminal : Finish(j, status)
                BY <1>25, <3>2 DEF CancelPersists, ToolPersists, TerminalWrite
            <4>2. \A a \in Inst, b \in Job : b # j => mst'[a][b] = mst[a][b]
                <5>1. mst' = [mst EXCEPT ![i][j] = TerminalWrite(i, j, mst[i][j], mrev[i][j])]
                    BY <1>25, <3>2 DEF CancelPersists, TypeOK
                <5> QED BY <5>1 DEF TypeOK
            <4> QED BY <3>2, <4>1, <4>2, FinishFacts
        <3> QED BY <3>1, <3>2
    <2>4. work[i][j] # "none" => st'[j] \in Terminal \/ (st'[j] = st[j] /\ UNCHANGED mst)
        BY <2>2, <2>3 DEF QueueInv, WorkerOk
    <2>5. /\ \A k \in Inst : work[k][j] # "none" => k = i
          /\ lock[j] = "held" => mst[i][j] = "running"
        BY <2>1, <2>2, OnlyOwnerWorks DEF QueueInv, WorkerOk
    <2>6. ASSUME NEW a \in Inst, NEW b \in Job PROVE WorkerOk(a, b)'
        <3>1. CASE work[a][b] = "none"
            BY <2>1, <3>1 DEF QueueInv, WorkerOk
        <3>2. CASE work[a][b] # "none" /\ b = j
            BY <2>1, <2>4, <2>5, <3>2 DEF QueueInv, WorkerOk, Owns
        <3>3. CASE work[a][b] # "none" /\ b # j
            <4>1. mst'[a][b] = mst[a][b] /\ (st'[b] \in Terminal \/ st'[b] = st[b])
                BY <2>3, <3>3
            <4> QED BY <2>1, <4>1, WorkerKept
        <3> QED BY <3>1, <3>2, <3>3
    <2>7. OneWorker'
        BY <2>1, NoNewWorker
    <2>8. ASSUME NEW b \in Job PROVE LockOk(b)'
        <3>1. lock[b] = "held" => st'[b] = st[b]
            BY <2>3, <2>5, UnstartedIsFree DEF QueueInv, LockOk
        <3> QED BY <2>1, <3>1, LockKept
    <2>9. \A b \in Batch : st'[b] = "none" <=> pipe' = "none"
        BY <2>2, <2>3 DEF QueueInv
    <2> QED BY <2>6, <2>7, <2>8, <2>9 DEF QueueInv
<1>26. ASSUME NEW i \in Inst, NEW j \in Job, CancelRefused(i, j)
      PROVE  QueueInv'
    <2>1. ASSUME NEW a \in Inst, NEW b \in Job PROVE WorkerOk(a, b)'
        <3>1. UNCHANGED <<st, owner, gen, alive, work, fly>>
            BY <1>26 DEF CancelRefused
        <3>2. CASE UNCHANGED records
            BY <3>1, <3>2, WorkerKept
        <3>3. CASE Load(i, j)
            <4>1. CASE a = i /\ b = j
                BY <3>1, <3>3, <4>1 DEF QueueInv, TypeOK, WorkerOk, Owns, Load, Record
            <4>2. CASE ~(a = i /\ b = j)
                <5>1. mst'[a][b] = mst[a][b] /\ mgen'[a][b] = mgen[a][b]
                    BY <3>3, <4>2 DEF TypeOK, Load, Record
                <5> QED BY <3>1, <5>1, WorkerKept
            <4> QED BY <4>1, <4>2
        <3> QED BY <1>26, <3>2, <3>3 DEF CancelRefused
    <2>2. OneWorker'
        BY <1>26 DEF QueueInv, TypeOK, OneWorker, CancelRefused, Load, Record
    <2>3. ASSUME NEW b \in Job PROVE LockOk(b)'
        BY <1>26 DEF QueueInv, TypeOK, WorkerOk, LockOk, Owns, CancelRefused, Load, Record
    <2>4. \A b \in Batch : st'[b] = "none" <=> pipe' = "none"
        BY <1>26 DEF QueueInv, TypeOK, CancelRefused, Load, Record
    <2> QED BY <2>1, <2>2, <2>3, <2>4 DEF QueueInv
<1>27. ASSUME NEW i \in Inst, NEW j \in Job, CancelRetried(i, j)
      PROVE  QueueInv'
    <2>1. CancelRow(j) /\ UNCHANGED <<owner, gen, lock, alive, work, fly>>
        BY <1>27 DEF CancelRetried
    <2>2. \A b \in Job : st'[b] = st[b] \/ (st[b] \in Pre /\ st'[b] = "cancelled")
        BY <2>1, CancelRowFacts
    <2>3. \A a \in Inst, b \in Job :
             /\ mgen'[a][b] = mgen[a][b]
             /\ mst'[a][b] = mst[a][b] \/ (b = j /\ st[j] \notin Terminal /\ st[j] # "running")
        <3>1. CASE st[j] \in Terminal \/ mst[i][j] = "none"
            BY <1>27, <3>1 DEF CancelRetried
        <3>2. CASE ~(st[j] \in Terminal \/ mst[i][j] = "none")
            <4> DEFINE status == IF st[j] = "running" THEN mst[i][j] ELSE "cancelled"
            <4>1. /\ mst' = [mst EXCEPT ![i][j] = status]
                  /\ mgen' = [mgen EXCEPT ![i][j] = mgen[i][j]]
                BY <1>27, <3>2 DEF CancelRetried, Record
            <4> QED BY <3>2, <4>1 DEF TypeOK
        <3> QED BY <3>1, <3>2
    <2>4. ASSUME NEW a \in Inst, NEW b \in Job PROVE WorkerOk(a, b)'
        <3>1. CASE work[a][b] = "none"
            BY <2>1, <3>1 DEF QueueInv, WorkerOk
        <3>2. CASE work[a][b] # "none"
            <4>1. st[b] \in Terminal \/ st[b] = "running"
                BY <3>2, UnstartedIsFree
            <4>2. mst'[a][b] = mst[a][b] /\ mgen'[a][b] = mgen[a][b] /\ st'[b] = st[b]
                BY <2>2, <2>3, <4>1
            <4> QED BY <2>1, <4>2, WorkerKept
        <3> QED BY <3>1, <3>2
    <2>5. OneWorker'
        BY <2>1, NoNewWorker
    <2>6. ASSUME NEW b \in Job PROVE LockOk(b)'
        BY <2>1, <2>2, UnstartedIsFree, LockKept
    <2>7. \A b \in Batch : st'[b] = "none" <=> pipe' = "none"
        BY <2>1, <2>2, CancelRowFacts DEF QueueInv
    <2> QED BY <2>4, <2>5, <2>6, <2>7 DEF QueueInv
<1>28. ASSUME NEW i \in Inst, Heartbeat(i)
      PROVE  QueueInv'
    BY <1>28, QuietStep DEF Heartbeat
<1>29. ASSUME NEW i \in Inst, LapseInst(i)
      PROVE  QueueInv'
    BY <1>29, QuietStep DEF LapseInst
<1>30. ASSUME NEW j \in Job, LapseJob(j)
      PROVE  QueueInv'
    BY <1>30, QuietStep DEF LapseJob
<1>31. ASSUME NEW i \in Inst, NEW j \in Job, Fence(i, j)
      PROVE  QueueInv'
    BY <1>31, QuietStep DEF Fence
<1>32. ASSUME NEW i \in Inst, NEW j \in Job, CancelThrows(i, j)
      PROVE  QueueInv'
    BY <1>32, QuietStep DEF CancelThrows
<1>33. CASE UNCHANGED vars
    BY <1>33, QuietStep DEF vars
<1> QED BY <1>1, <1>2, <1>3, <1>4, <1>5, <1>6, <1>7, <1>8, <1>9, <1>10, <1>11, <1>12,
           <1>13, <1>14, <1>15, <1>16, <1>17, <1>18, <1>19, <1>20, <1>21, <1>22, <1>23,
           <1>24, <1>25, <1>26, <1>27, <1>28, <1>29, <1>30, <1>31, <1>32, <1>33 DEF Next
-----------------------------------------------------------------------------
(* What a step may do to a row.                                                             *)

(* An ended row stays, and a started one that is asked to stop runs on or is cancelled.     *)
RowKept(k) ==
    /\ st[k] \in Terminal => st'[k] = st[k]
    /\ cancel[k] /\ st[k] = "running" => st'[k] \in {"running", "cancelled"} /\ cancel'[k]

(* No step changes an ended row, or lets a started row that is asked to stop end otherwise. *)
LEMMA RowStep ==
    ASSUME TypeOK, QueueInv, [Next]_vars, NEW k \in Job
    PROVE  RowKept(k)
<1> USE DEF rows, records, flight
<1>1. ASSUME NEW i \in Inst, Crash(i)
      PROVE  RowKept(k)
    BY <1>1 DEF QueueInv, TypeOK, RowKept, Crash
<1>2. ASSUME NEW i \in Inst, ActivateBatch(i)
      PROVE  RowKept(k)
    BY <1>2 DEF QueueInv, TypeOK, RowKept, ActivateBatch
<1>3. ASSUME NEW j \in Job, EnqueueUnowned(j)
      PROVE  RowKept(k)
    BY <1>3 DEF QueueInv, TypeOK, RowKept, EnqueueUnowned
<1>4. ASSUME NEW j \in Job, DurableCancel(j)
      PROVE  RowKept(k)
    <2>1. CancelRow(j)
        BY <1>4 DEF DurableCancel
    <2> QED BY <2>1, CancelRowFacts DEF RowKept
<1>5. ASSUME NEW i \in Inst, NEW j \in Job, Enqueue(i, j)
      PROVE  RowKept(k)
    BY <1>5 DEF QueueInv, TypeOK, RowKept, Enqueue, Record
<1>6. ASSUME NEW i \in Inst, NEW j \in Job, 
             NEW w \in {"planned", "blocked", "failed", "cancelled", "claim"},
             ScheduleWrite(i, j, w)
      PROVE  RowKept(k)
    BY <1>6 DEF QueueInv, TypeOK, RowKept, ScheduleWrite, Begin
<1>7. ASSUME NEW i \in Inst, NEW j \in Job, NoteBegin(i, j)
      PROVE  RowKept(k)
    BY <1>7 DEF QueueInv, TypeOK, RowKept, NoteBegin, Begin
<1>8. ASSUME NEW i \in Inst, NEW j \in Job, NEW w \in Outcome, OutcomeBegin(i, j, w)
      PROVE  RowKept(k)
    BY <1>8 DEF QueueInv, TypeOK, RowKept, OutcomeBegin, Begin
<1>9. ASSUME NEW i \in Inst, NEW j \in Job, WriteCommits(i, j)
      PROVE  RowKept(k)
    BY <1>9 DEF QueueInv, TypeOK, RowKept, WriteCommits, Plain, Written, UpdateAllowed,
       Record, Landed
<1>10. ASSUME NEW i \in Inst, NEW j \in Job, WriteRetakes(i, j)
      PROVE  RowKept(k)
    BY <1>10 DEF QueueInv, TypeOK, RowKept, WriteRetakes, Retakes, Load, Record
<1>11. ASSUME NEW i \in Inst, NEW j \in Job, WriteRefused(i, j)
      PROVE  RowKept(k)
    BY <1>11 DEF QueueInv, TypeOK, RowKept, WriteRefused, Plain, Load, Drop, Record, Landed
<1>12. ASSUME NEW i \in Inst, NEW j \in Job, FinalCommits(i, j)
      PROVE  RowKept(k)
    <2> DEFINE status == TerminalWrite(i, j, fly[i][j], frev[i][j])
    <2>1. status # "none" /\ Finish(j, status) /\ fly[i][j] \in {"completed", "failed", "cancelled"}
        BY <1>12 DEF FinalCommits, Final
    <2>2. /\ status \in Terminal /\ st[j] \in Open
          /\ st[j] = "running" /\ cancel[j] => status = "cancelled"
        BY <2>1 DEF TerminalWrite
    <2> HIDE DEF status
    <2> QED BY <2>1, <2>2, FinishFacts DEF RowKept
<1>13. ASSUME NEW i \in Inst, NEW j \in Job, FinalRefused(i, j)
      PROVE  RowKept(k)
    BY <1>13 DEF QueueInv, TypeOK, RowKept, FinalRefused, Final, Load, Drop, Record, Landed
<1>14. ASSUME NEW i \in Inst, NEW j \in Job, WriteThrows(i, j)
      PROVE  RowKept(k)
    BY <1>14 DEF QueueInv, TypeOK, RowKept, WriteThrows, Landed
<1>15. ASSUME NEW i \in Inst, NEW j \in Job, Abandon(i, j)
      PROVE  RowKept(k)
    BY <1>15 DEF QueueInv, TypeOK, RowKept, Abandon, Drop, Record
<1>16. ASSUME NEW i \in Inst, NEW j \in Job, ClaimCommits(i, j)
      PROVE  RowKept(k)
    BY <1>16 DEF QueueInv, TypeOK, RowKept, ClaimCommits, Claimable, Landed
<1>17. ASSUME NEW i \in Inst, NEW j \in Job, ClaimRefused(i, j)
      PROVE  RowKept(k)
    BY <1>17 DEF QueueInv, TypeOK, RowKept, ClaimRefused, Landed
<1>18. ASSUME NEW i \in Inst, NEW j \in Job, AcquireLock(i, j)
      PROVE  RowKept(k)
    BY <1>18 DEF QueueInv, TypeOK, RowKept, AcquireLock, LockAllowed
<1>19. ASSUME NEW i \in Inst, NEW j \in Job, NEW o \in Outcome, NEW keep \in BOOLEAN,
             EndRun(i, j, o, keep)
      PROVE  RowKept(k)
    BY <1>19 DEF QueueInv, TypeOK, RowKept, EndRun
<1>20. ASSUME NEW i \in Inst, NEW j \in Job, Reconcile(i, j)
      PROVE  RowKept(k)
    BY <1>20, FinishFacts DEF Reconcile, Stale, RowKept
<1>21. ASSUME NEW i \in Inst, NEW j \in Job, Adopt(i, j)
      PROVE  RowKept(k)
    BY <1>21 DEF QueueInv, TypeOK, RowKept, Adopt, Adoptable, Record
<1>22. ASSUME NEW i \in Inst, NEW j \in Job, FailAdoption(i, j)
      PROVE  RowKept(k)
    BY <1>22, FinishFacts DEF FailAdoption, Adoptable, RowKept
<1>23. ASSUME NEW i \in Inst, NEW j \in Job, Prune(i, j)
      PROVE  RowKept(k)
    BY <1>23 DEF QueueInv, TypeOK, RowKept, Prune, Drop, Record
<1>24. ASSUME NEW i \in Inst, NEW j \in Job, CancelBegin(i, j)
      PROVE  RowKept(k)
    BY <1>24 DEF QueueInv, TypeOK, RowKept, CancelBegin, Record
<1>25. ASSUME NEW i \in Inst, NEW j \in Job, CancelPersists(i, j)
      PROVE  RowKept(k)
    <2>1. CASE mst[i][j] \in Open
        BY <1>25, <2>1 DEF CancelPersists, ToolPersists, UpdateAllowed, TypeOK, RowKept
    <2>2. CASE mst[i][j] \notin Open
        <3> DEFINE status == TerminalWrite(i, j, mst[i][j], mrev[i][j])
        <3>1. status # "none" /\ Finish(j, status) /\ mst[i][j] \in {"completed", "failed", "cancelled"}
            BY <1>25, <2>2 DEF CancelPersists, ToolPersists
        <3>2. /\ status \in Terminal /\ st[j] \in Open
              /\ st[j] = "running" /\ cancel[j] => status = "cancelled"
            BY <3>1 DEF TerminalWrite
        <3> HIDE DEF status
        <3> QED BY <3>1, <3>2, FinishFacts DEF RowKept
    <2> QED BY <2>1, <2>2
<1>26. ASSUME NEW i \in Inst, NEW j \in Job, CancelRefused(i, j)
      PROVE  RowKept(k)
    BY <1>26 DEF QueueInv, TypeOK, RowKept, CancelRefused, Load, Record
<1>27. ASSUME NEW i \in Inst, NEW j \in Job, CancelRetried(i, j)
      PROVE  RowKept(k)
    <2>1. CancelRow(j)
        BY <1>27 DEF CancelRetried
    <2> QED BY <2>1, CancelRowFacts DEF RowKept
<1>28. ASSUME NEW i \in Inst, Heartbeat(i)
      PROVE  RowKept(k)
    BY <1>28 DEF QueueInv, TypeOK, RowKept, Heartbeat
<1>29. ASSUME NEW i \in Inst, LapseInst(i)
      PROVE  RowKept(k)
    BY <1>29 DEF QueueInv, TypeOK, RowKept, LapseInst
<1>30. ASSUME NEW j \in Job, LapseJob(j)
      PROVE  RowKept(k)
    BY <1>30 DEF QueueInv, TypeOK, RowKept, LapseJob
<1>31. ASSUME NEW i \in Inst, NEW j \in Job, Fence(i, j)
      PROVE  RowKept(k)
    BY <1>31 DEF QueueInv, TypeOK, RowKept, Fence
<1>32. ASSUME NEW i \in Inst, NEW j \in Job, CancelThrows(i, j)
      PROVE  RowKept(k)
    BY <1>32 DEF QueueInv, TypeOK, RowKept, CancelThrows
<1>33. CASE UNCHANGED vars
    BY <1>33 DEF QueueInv, TypeOK, RowKept, vars
<1> QED BY <1>1, <1>2, <1>3, <1>4, <1>5, <1>6, <1>7, <1>8, <1>9, <1>10, <1>11, <1>12,
           <1>13, <1>14, <1>15, <1>16, <1>17, <1>18, <1>19, <1>20, <1>21, <1>22, <1>23,
           <1>24, <1>25, <1>26, <1>27, <1>28, <1>29, <1>30, <1>31, <1>32, <1>33 DEF Next

(* The propagation inside Finish takes the siblings along.                                  *)
LEMMA FinishKeepsBatch ==
    ASSUME TypeOK, QueueInv, BatchFailsTogether,
           NEW j \in Job, NEW status \in Terminal, Finish(j, status)
    PROVE  BatchFailsTogether'
<1> DEFINE done == [st EXCEPT ![j] = status]
           fails == j \in Batch /\ pipe = "running" /\ \E k \in Batch : done[k] \in Bad
<1>1. CASE fails
    <2>1. \A k \in Batch : st[k] # "none"
        BY <1>1 DEF QueueInv
    <2>2. pipe' # "running" /\ st'[j] = status
        BY <1>1 DEF Finish, TypeOK
    <2>3. ASSUME NEW k \in Batch PROVE st'[k] \in Terminal \/ cancel'[k]
        <3>1. CASE k = j
            BY <2>2, <3>1
        <3>2. CASE k # j /\ st[k] \in Pre
            BY <1>1, <3>2 DEF Finish, TypeOK
        <3>3. CASE k # j /\ st[k] \notin Pre
            BY <1>1, <2>1, <3>3 DEF Finish, TypeOK
        <3> QED BY <3>1, <3>2, <3>3
    <2> QED BY <2>2, <2>3 DEF BatchFailsTogether
<1>2. CASE ~fails
    BY <1>2 DEF Finish, TypeOK, BatchFailsTogether
<1> QED BY <1>1, <1>2

(* Every step keeps a pipeline and its children together.                                   *)
LEMMA BatchStep ==
    ASSUME TypeOK, QueueInv, BatchFailsTogether, [Next]_vars
    PROVE  BatchFailsTogether'
<1> USE DEF rows, records, flight
<1>1. ASSUME NEW i \in Inst, Crash(i)
      PROVE  BatchFailsTogether'
    BY <1>1 DEF QueueInv, TypeOK, BatchFailsTogether, Crash
<1>2. ASSUME NEW i \in Inst, ActivateBatch(i)
      PROVE  BatchFailsTogether'
    BY <1>2 DEF QueueInv, TypeOK, BatchFailsTogether, ActivateBatch
<1>3. ASSUME NEW j \in Job, EnqueueUnowned(j)
      PROVE  BatchFailsTogether'
    BY <1>3 DEF QueueInv, TypeOK, BatchFailsTogether, EnqueueUnowned
<1>4. ASSUME NEW j \in Job, DurableCancel(j)
      PROVE  BatchFailsTogether'
    <2>1. CASE st[j] \in Pre
        BY <1>4, <2>1, FinishKeepsBatch DEF DurableCancel, CancelRow
    <2>2. CASE st[j] \notin Pre
        BY <1>4, <2>2 DEF DurableCancel, CancelRow, TypeOK, BatchFailsTogether
    <2> QED BY <2>1, <2>2
<1>5. ASSUME NEW i \in Inst, NEW j \in Job, Enqueue(i, j)
      PROVE  BatchFailsTogether'
    BY <1>5 DEF QueueInv, TypeOK, BatchFailsTogether, Enqueue, Record
<1>6. ASSUME NEW i \in Inst, NEW j \in Job, 
             NEW w \in {"planned", "blocked", "failed", "cancelled", "claim"},
             ScheduleWrite(i, j, w)
      PROVE  BatchFailsTogether'
    BY <1>6 DEF QueueInv, TypeOK, BatchFailsTogether, ScheduleWrite, Begin
<1>7. ASSUME NEW i \in Inst, NEW j \in Job, NoteBegin(i, j)
      PROVE  BatchFailsTogether'
    BY <1>7 DEF QueueInv, TypeOK, BatchFailsTogether, NoteBegin, Begin
<1>8. ASSUME NEW i \in Inst, NEW j \in Job, NEW w \in Outcome, OutcomeBegin(i, j, w)
      PROVE  BatchFailsTogether'
    BY <1>8 DEF QueueInv, TypeOK, BatchFailsTogether, OutcomeBegin, Begin
<1>9. ASSUME NEW i \in Inst, NEW j \in Job, WriteCommits(i, j)
      PROVE  BatchFailsTogether'
    BY <1>9 DEF QueueInv, TypeOK, BatchFailsTogether, WriteCommits, Plain, Written,
       UpdateAllowed, Record, Landed
<1>10. ASSUME NEW i \in Inst, NEW j \in Job, WriteRetakes(i, j)
      PROVE  BatchFailsTogether'
    BY <1>10 DEF QueueInv, TypeOK, BatchFailsTogether, WriteRetakes, Retakes, Load, Record
<1>11. ASSUME NEW i \in Inst, NEW j \in Job, WriteRefused(i, j)
      PROVE  BatchFailsTogether'
    BY <1>11 DEF QueueInv, TypeOK, BatchFailsTogether, WriteRefused, Plain, Load, Drop,
       Record, Landed
<1>12. ASSUME NEW i \in Inst, NEW j \in Job, FinalCommits(i, j)
      PROVE  BatchFailsTogether'
    <2>1. PICK status \in Terminal : Finish(j, status)
        BY <1>12 DEF FinalCommits, Final, TerminalWrite
    <2> QED BY <2>1, FinishKeepsBatch
<1>13. ASSUME NEW i \in Inst, NEW j \in Job, FinalRefused(i, j)
      PROVE  BatchFailsTogether'
    BY <1>13 DEF QueueInv, TypeOK, BatchFailsTogether, FinalRefused, Final, Load, Drop,
       Record, Landed
<1>14. ASSUME NEW i \in Inst, NEW j \in Job, WriteThrows(i, j)
      PROVE  BatchFailsTogether'
    BY <1>14 DEF QueueInv, TypeOK, BatchFailsTogether, WriteThrows, Landed
<1>15. ASSUME NEW i \in Inst, NEW j \in Job, Abandon(i, j)
      PROVE  BatchFailsTogether'
    BY <1>15 DEF QueueInv, TypeOK, BatchFailsTogether, Abandon, Drop, Record
<1>16. ASSUME NEW i \in Inst, NEW j \in Job, ClaimCommits(i, j)
      PROVE  BatchFailsTogether'
    BY <1>16 DEF QueueInv, TypeOK, BatchFailsTogether, ClaimCommits, Claimable, Landed
<1>17. ASSUME NEW i \in Inst, NEW j \in Job, ClaimRefused(i, j)
      PROVE  BatchFailsTogether'
    BY <1>17 DEF QueueInv, TypeOK, BatchFailsTogether, ClaimRefused, Landed
<1>18. ASSUME NEW i \in Inst, NEW j \in Job, AcquireLock(i, j)
      PROVE  BatchFailsTogether'
    BY <1>18 DEF QueueInv, TypeOK, BatchFailsTogether, AcquireLock, LockAllowed
<1>19. ASSUME NEW i \in Inst, NEW j \in Job, NEW o \in Outcome, NEW keep \in BOOLEAN,
             EndRun(i, j, o, keep)
      PROVE  BatchFailsTogether'
    BY <1>19 DEF QueueInv, TypeOK, BatchFailsTogether, EndRun
<1>20. ASSUME NEW i \in Inst, NEW j \in Job, Reconcile(i, j)
      PROVE  BatchFailsTogether'
    <2>1. PICK status \in Terminal : Finish(j, status)
        BY <1>20 DEF Reconcile
    <2> QED BY <2>1, FinishKeepsBatch
<1>21. ASSUME NEW i \in Inst, NEW j \in Job, Adopt(i, j)
      PROVE  BatchFailsTogether'
    BY <1>21 DEF QueueInv, TypeOK, BatchFailsTogether, Adopt, Adoptable, Record
<1>22. ASSUME NEW i \in Inst, NEW j \in Job, FailAdoption(i, j)
      PROVE  BatchFailsTogether'
    BY <1>22, FinishKeepsBatch DEF FailAdoption
<1>23. ASSUME NEW i \in Inst, NEW j \in Job, Prune(i, j)
      PROVE  BatchFailsTogether'
    BY <1>23 DEF QueueInv, TypeOK, BatchFailsTogether, Prune, Drop, Record
<1>24. ASSUME NEW i \in Inst, NEW j \in Job, CancelBegin(i, j)
      PROVE  BatchFailsTogether'
    BY <1>24 DEF QueueInv, TypeOK, BatchFailsTogether, CancelBegin, Record
<1>25. ASSUME NEW i \in Inst, NEW j \in Job, CancelPersists(i, j)
      PROVE  BatchFailsTogether'
    <2>1. CASE mst[i][j] \in Open
        BY <1>25, <2>1, ZenonT(40) DEF CancelPersists, ToolPersists, UpdateAllowed, TypeOK,
           BatchFailsTogether
    <2>2. CASE mst[i][j] \notin Open
        <3>1. PICK status \in Terminal : Finish(j, status)
            BY <1>25, <2>2 DEF CancelPersists, ToolPersists, TerminalWrite
        <3> QED BY <3>1, FinishKeepsBatch
    <2> QED BY <2>1, <2>2
<1>26. ASSUME NEW i \in Inst, NEW j \in Job, CancelRefused(i, j)
      PROVE  BatchFailsTogether'
    BY <1>26 DEF QueueInv, TypeOK, BatchFailsTogether, CancelRefused, Load, Record
<1>27. ASSUME NEW i \in Inst, NEW j \in Job, CancelRetried(i, j)
      PROVE  BatchFailsTogether'
    <2>1. CASE st[j] \in Pre
        BY <1>27, <2>1, FinishKeepsBatch DEF CancelRetried, CancelRow
    <2>2. CASE st[j] \notin Pre
        BY <1>27, <2>2, ZenonT(40) DEF CancelRetried, CancelRow, TypeOK, BatchFailsTogether
    <2> QED BY <2>1, <2>2
<1>28. ASSUME NEW i \in Inst, Heartbeat(i)
      PROVE  BatchFailsTogether'
    BY <1>28 DEF QueueInv, TypeOK, BatchFailsTogether, Heartbeat
<1>29. ASSUME NEW i \in Inst, LapseInst(i)
      PROVE  BatchFailsTogether'
    BY <1>29 DEF QueueInv, TypeOK, BatchFailsTogether, LapseInst
<1>30. ASSUME NEW j \in Job, LapseJob(j)
      PROVE  BatchFailsTogether'
    BY <1>30 DEF QueueInv, TypeOK, BatchFailsTogether, LapseJob
<1>31. ASSUME NEW i \in Inst, NEW j \in Job, Fence(i, j)
      PROVE  BatchFailsTogether'
    BY <1>31 DEF QueueInv, TypeOK, BatchFailsTogether, Fence
<1>32. ASSUME NEW i \in Inst, NEW j \in Job, CancelThrows(i, j)
      PROVE  BatchFailsTogether'
    BY <1>32 DEF QueueInv, TypeOK, BatchFailsTogether, CancelThrows
<1>33. CASE UNCHANGED vars
    BY <1>33 DEF QueueInv, TypeOK, BatchFailsTogether, vars
<1> QED BY <1>1, <1>2, <1>3, <1>4, <1>5, <1>6, <1>7, <1>8, <1>9, <1>10, <1>11, <1>12,
           <1>13, <1>14, <1>15, <1>16, <1>17, <1>18, <1>19, <1>20, <1>21, <1>22, <1>23,
           <1>24, <1>25, <1>26, <1>27, <1>28, <1>29, <1>30, <1>31, <1>32, <1>33 DEF Next

-----------------------------------------------------------------------------
(* The fence.                                                                               *)

(* WorkingOwns of one record.                                                               *)
Fenced(a, b) ==
    work[a][b] = "run" /\ ~abort[a][b] => st[b] = "running" /\ Owns(a, b) /\ lease[b]

(* With the fence on time, every step leaves a working worker its row and its lease.        *)
LEMMA FenceStep ==
    ASSUME TypeOK, QueueInv, WorkingOwns, Timely, [Next]_vars, NEW a \in Inst, NEW b \in Job
    PROVE  Fenced(a, b)'
<1> USE DEF rows, records, flight
<1>1. ASSUME NEW i \in Inst, Crash(i)
      PROVE  Fenced(a, b)'
    BY <1>1 DEF QueueInv, TypeOK, WorkingOwns, WorkerOk, Owns, Fenced, Crash
<1>2. ASSUME NEW i \in Inst, ActivateBatch(i)
      PROVE  Fenced(a, b)'
    BY <1>2 DEF QueueInv, TypeOK, WorkingOwns, WorkerOk, Owns, Fenced, ActivateBatch
<1>3. ASSUME NEW j \in Job, EnqueueUnowned(j)
      PROVE  Fenced(a, b)'
    BY <1>3 DEF QueueInv, TypeOK, WorkingOwns, WorkerOk, Owns, Fenced, EnqueueUnowned
<1>4. ASSUME NEW j \in Job, DurableCancel(j)
      PROVE  Fenced(a, b)'
    <2>1. CancelRow(j) /\ UNCHANGED <<owner, gen, mgen, work, abort>>
        BY <1>4 DEF DurableCancel
    <2> QED BY <2>1, CancelRowFacts DEF Fenced, WorkingOwns, Owns
<1>5. ASSUME NEW i \in Inst, NEW j \in Job, Enqueue(i, j)
      PROVE  Fenced(a, b)'
    BY <1>5 DEF QueueInv, TypeOK, WorkingOwns, WorkerOk, Owns, Fenced, Enqueue, Record
<1>6. ASSUME NEW i \in Inst, NEW j \in Job, 
             NEW w \in {"planned", "blocked", "failed", "cancelled", "claim"},
             ScheduleWrite(i, j, w)
      PROVE  Fenced(a, b)'
    BY <1>6 DEF QueueInv, TypeOK, WorkingOwns, WorkerOk, Owns, Fenced, ScheduleWrite, Begin
<1>7. ASSUME NEW i \in Inst, NEW j \in Job, NoteBegin(i, j)
      PROVE  Fenced(a, b)'
    BY <1>7 DEF QueueInv, TypeOK, WorkingOwns, WorkerOk, Owns, Fenced, NoteBegin, Begin
<1>8. ASSUME NEW i \in Inst, NEW j \in Job, NEW w \in Outcome, OutcomeBegin(i, j, w)
      PROVE  Fenced(a, b)'
    BY <1>8 DEF QueueInv, TypeOK, WorkingOwns, WorkerOk, Owns, Fenced, OutcomeBegin, Begin
<1>9. ASSUME NEW i \in Inst, NEW j \in Job, WriteCommits(i, j)
      PROVE  Fenced(a, b)'
    <2>1. /\ Owns(i, j) /\ st[j] \notin Terminal /\ UNCHANGED <<owner, gen, lease, abort>>
          /\ fly[i][j] \in {"planned", "blocked", "note"}
          /\ st' = [st EXCEPT ![j] = Written(fly[i][j])]
          /\ work' = [work EXCEPT ![i][j] = IF @ = "blocked" THEN "none" ELSE @]
          /\ mgen' = [mgen EXCEPT ![i][j] = mgen[i][j]]
        BY <1>9 DEF WriteCommits, Plain, UpdateAllowed, Record
    <2>2. mgen'[a][b] = mgen[a][b] /\ (work'[a][b] = "run" => work[a][b] = "run")
        BY <2>1 DEF TypeOK
    <2>3. work[a][b] = "run" /\ b = j => fly[i][j] = "note"
        BY <2>1, OnlyOwnerWorks DEF QueueInv, WorkerOk
    <2>4. work[a][b] = "run" /\ st[b] = "running" => st'[b] = "running"
        BY <2>1, <2>3 DEF TypeOK, Written
    <2> QED BY <2>1, <2>2, <2>4 DEF Fenced, WorkingOwns, Owns
<1>10. ASSUME NEW i \in Inst, NEW j \in Job, WriteRetakes(i, j)
      PROVE  Fenced(a, b)'
    BY <1>10 DEF QueueInv, TypeOK, WorkingOwns, WorkerOk, Owns, Fenced, WriteRetakes,
       Retakes, Load, Record
<1>11. ASSUME NEW i \in Inst, NEW j \in Job, WriteRefused(i, j)
      PROVE  Fenced(a, b)'
    <2>1. UNCHANGED <<st, owner, gen, lease>>
        BY <1>11 DEF WriteRefused
    <2>2. CASE a = i /\ b = j
        <3>1. CASE fly[i][j] = "note"
            BY <1>11, <2>2, <3>1 DEF WriteRefused, TypeOK, Fenced
        <3>2. CASE fly[i][j] # "note"
            <4>1. work[i][j] # "run"
                BY <1>11, <3>2 DEF WriteRefused, Plain, QueueInv, WorkerOk
            <4>2. work'[i][j] # "run"
                <5>1. CASE UNCHANGED work
                    BY <4>1, <5>1
                <5>2. CASE work' = [work EXCEPT ![i][j] = "cancelled"]
                    BY <5>2 DEF TypeOK
                <5>3. CASE work' = [work EXCEPT ![i][j] = "none"]
                    BY <5>3 DEF TypeOK
                <5> QED BY <1>11, <5>1, <5>2, <5>3 DEF WriteRefused
            <4> QED BY <2>2, <4>2 DEF Fenced
        <3> QED BY <3>1, <3>2
    <2>3. CASE ~(a = i /\ b = j)
        <3>1. work'[a][b] = work[a][b]
            <4>1. CASE work' = [work EXCEPT ![i][j] = "cancelled"]
                BY <2>3, <4>1 DEF TypeOK
            <4>2. CASE work' = [work EXCEPT ![i][j] = "none"]
                BY <2>3, <4>2 DEF TypeOK
            <4> QED BY <1>11, <4>1, <4>2 DEF WriteRefused
        <3>2. abort[a][b] => abort'[a][b]
            <4>1. CASE abort' = [abort EXCEPT ![i][j] = TRUE]
                BY <2>3, <4>1 DEF TypeOK
            <4> QED BY <1>11, <4>1 DEF WriteRefused
        <3>3. mgen'[a][b] = mgen[a][b]
            <4>1. CASE Load(i, j)
                BY <2>3, <4>1 DEF Load, Record, TypeOK
            <4>2. CASE Drop(i, j)
                BY <2>3, <4>2 DEF Drop, Record, TypeOK
            <4>3. Load(i, j) \/ Drop(i, j)
                BY <1>11 DEF WriteRefused
            <4> QED BY <4>1, <4>2, <4>3
        <3>4. work[a][b] = "run" /\ ~abort[a][b] => st[b] = "running" /\ Owns(a, b) /\ lease[b]
            BY DEF WorkingOwns
        <3>5. Owns(a, b) => Owns(a, b)'
            BY <2>1, <3>3 DEF Owns
        <3> QED BY <2>1, <3>1, <3>2, <3>4, <3>5 DEF Fenced
    <2> QED BY <2>2, <2>3
<1>12. ASSUME NEW i \in Inst, NEW j \in Job, FinalCommits(i, j)
      PROVE  Fenced(a, b)'
    <2>1. PICK status \in Terminal : Finish(j, status)
        BY <1>12 DEF FinalCommits, Final, TerminalWrite
    <2>2. TerminalWrite(i, j, fly[i][j], frev[i][j]) # "none"
        BY <1>12 DEF FinalCommits
    <2>3. Owns(i, j)
        BY <2>2 DEF TerminalWrite
    <2>4. st[j] \in Open
        BY <2>2 DEF TerminalWrite
    <2>5. fly[i][j] \in {"completed", "failed", "cancelled"}
        BY <1>12 DEF FinalCommits, Final
    <2>6. \A x \in Inst : work[x][j] # "run"
        BY <2>3, <2>4, <2>5, OnlyOwnerWorks DEF QueueInv, WorkerOk
    <2>7. /\ UNCHANGED <<owner, gen, abort>> /\ work' = [work EXCEPT ![i][j] = "none"]
          /\ mgen' = [mgen EXCEPT ![i][j] = mgen[i][j]]
        BY <1>12 DEF FinalCommits, Record
    <2>8. work'[a][b] = "run" => work[a][b] = "run" /\ b # j
        BY <2>6, <2>7 DEF TypeOK
    <2>9. mgen'[a][b] = mgen[a][b]
        BY <2>7 DEF TypeOK
    <2> QED BY <2>1, <2>7, <2>8, <2>9, FinishFacts DEF Fenced, WorkingOwns, Owns
<1>13. ASSUME NEW i \in Inst, NEW j \in Job, FinalRefused(i, j)
      PROVE  Fenced(a, b)'
    BY <1>13 DEF QueueInv, TypeOK, WorkingOwns, WorkerOk, Owns, Fenced, FinalRefused, Final,
       Load, Drop, Record, Landed
<1>14. ASSUME NEW i \in Inst, NEW j \in Job, WriteThrows(i, j)
      PROVE  Fenced(a, b)'
    BY <1>14 DEF QueueInv, TypeOK, WorkingOwns, WorkerOk, Owns, Fenced, WriteThrows, Landed
<1>15. ASSUME NEW i \in Inst, NEW j \in Job, Abandon(i, j)
      PROVE  Fenced(a, b)'
    <2>1. UNCHANGED <<st, owner, gen, lease, abort>>
        BY <1>15 DEF Abandon
    <2>2. CASE work' = [work EXCEPT ![i][j] = "cancelled"] /\ UNCHANGED records
        BY <2>1, <2>2 DEF TypeOK, Fenced, WorkingOwns, Owns
    <2>3. CASE work' = [work EXCEPT ![i][j] = "none"] /\ Drop(i, j)
        BY <2>1, <2>3 DEF TypeOK, Fenced, WorkingOwns, Owns, Drop, Record
    <2> QED BY <1>15, <2>2, <2>3 DEF Abandon
<1>16. ASSUME NEW i \in Inst, NEW j \in Job, ClaimCommits(i, j)
      PROVE  Fenced(a, b)'
    BY <1>16 DEF QueueInv, TypeOK, WorkingOwns, WorkerOk, Owns, Fenced, ClaimCommits,
       Claimable, Landed
<1>17. ASSUME NEW i \in Inst, NEW j \in Job, ClaimRefused(i, j)
      PROVE  Fenced(a, b)'
    BY <1>17 DEF QueueInv, TypeOK, WorkingOwns, WorkerOk, Owns, Fenced, ClaimRefused, Landed
<1>18. ASSUME NEW i \in Inst, NEW j \in Job, AcquireLock(i, j)
      PROVE  Fenced(a, b)'
    BY <1>18 DEF QueueInv, TypeOK, WorkingOwns, WorkerOk, Owns, Fenced, AcquireLock,
       LockAllowed
<1>19. ASSUME NEW i \in Inst, NEW j \in Job, NEW o \in Outcome, NEW keep \in BOOLEAN,
             EndRun(i, j, o, keep)
      PROVE  Fenced(a, b)'
    BY <1>19 DEF QueueInv, TypeOK, WorkingOwns, WorkerOk, Owns, Fenced, EndRun
<1>20. ASSUME NEW i \in Inst, NEW j \in Job, Reconcile(i, j)
      PROVE  Fenced(a, b)'
    <2>1. PICK status \in Terminal : Finish(j, status)
        BY <1>20 DEF Reconcile
    <2>2. UNCHANGED <<owner, gen, mgen, work, abort>> /\ ~lease[j]
        BY <1>20 DEF Reconcile, Stale
    <2> QED BY <2>1, <2>2, FinishFacts DEF Fenced, WorkingOwns, Owns
<1>21. ASSUME NEW i \in Inst, NEW j \in Job, Adopt(i, j)
      PROVE  Fenced(a, b)'
    BY <1>21 DEF QueueInv, TypeOK, WorkingOwns, WorkerOk, Owns, Fenced, Adopt, Adoptable,
       Record
<1>22. ASSUME NEW i \in Inst, NEW j \in Job, FailAdoption(i, j)
      PROVE  Fenced(a, b)'
    <2>1. Finish(j, "failed") /\ st[j] \in Pre /\ UNCHANGED <<owner, gen, mgen, work, abort>>
        BY <1>22 DEF FailAdoption, Adoptable
    <2> QED BY <2>1, FinishFacts DEF Fenced, WorkingOwns, Owns
<1>23. ASSUME NEW i \in Inst, NEW j \in Job, Prune(i, j)
      PROVE  Fenced(a, b)'
    BY <1>23 DEF QueueInv, TypeOK, WorkingOwns, WorkerOk, Owns, Fenced, Prune, Drop, Record
<1>24. ASSUME NEW i \in Inst, NEW j \in Job, CancelBegin(i, j)
      PROVE  Fenced(a, b)'
    BY <1>24 DEF QueueInv, TypeOK, WorkingOwns, WorkerOk, Owns, Fenced, CancelBegin, Record
<1>25. ASSUME NEW i \in Inst, NEW j \in Job, CancelPersists(i, j)
      PROVE  Fenced(a, b)'
    <2>1. UNCHANGED <<owner, gen, mgen, work>> /\ (abort[a][b] => abort'[a][b])
        BY <1>25 DEF CancelPersists, TypeOK
    <2>2. SUFFICES ASSUME work[a][b] = "run", ~abort[a][b]
                   PROVE  st'[b] = "running" /\ lease'[b]
        BY <2>1 DEF Fenced, WorkingOwns, Owns
    <2>3. st[b] = "running" /\ Owns(a, b) /\ lease[b] /\ mst[a][b] = "running"
        BY <2>2 DEF WorkingOwns, QueueInv, WorkerOk
    <2>4. CASE mst[i][j] \in Open
        <3>1. st' = [st EXCEPT ![j] = mst[i][j]] /\ UNCHANGED lease
            BY <1>25, <2>4 DEF CancelPersists
        <3>2. Owns(i, j)
            BY <1>25, <2>4 DEF CancelPersists, ToolPersists, UpdateAllowed
        <3> QED BY <2>3, <3>1, <3>2 DEF TypeOK, Owns
    <2>5. CASE mst[i][j] \notin Open
        <3>1. PICK status \in Terminal : Finish(j, status)
            BY <1>25, <2>5 DEF CancelPersists, ToolPersists, TerminalWrite
        <3>2. TerminalWrite(i, j, mst[i][j], mrev[i][j]) # "none"
            BY <1>25, <2>5 DEF CancelPersists, ToolPersists
        <3>3. Owns(i, j)
            BY <3>2 DEF TerminalWrite
        <3>4. b # j
            BY <2>3, <2>5, <3>3 DEF Owns
        <3> QED BY <2>3, <3>1, <3>4, FinishFacts
    <2> QED BY <2>4, <2>5
<1>26. ASSUME NEW i \in Inst, NEW j \in Job, CancelRefused(i, j)
      PROVE  Fenced(a, b)'
    <2>1. UNCHANGED <<st, owner, gen, lease, work, abort>>
        BY <1>26 DEF CancelRefused
    <2>2. CASE UNCHANGED records
        BY <2>1, <2>2 DEF Fenced, WorkingOwns, Owns
    <2>3. CASE Load(i, j)
        BY <2>1, <2>3 DEF TypeOK, Fenced, WorkingOwns, Owns, Load, Record
    <2> QED BY <1>26, <2>2, <2>3 DEF CancelRefused
<1>27. ASSUME NEW i \in Inst, NEW j \in Job, CancelRetried(i, j)
      PROVE  Fenced(a, b)'
    <2>1. CancelRow(j) /\ UNCHANGED <<owner, gen, work>>
        BY <1>27 DEF CancelRetried
    <2>2. mgen'[a][b] = mgen[a][b] /\ (abort[a][b] => abort'[a][b])
        <3>1. CASE st[j] \in Terminal \/ mst[i][j] = "none"
            BY <1>27, <3>1 DEF CancelRetried
        <3>2. CASE ~(st[j] \in Terminal \/ mst[i][j] = "none")
            <4>1. /\ mgen' = [mgen EXCEPT ![i][j] = mgen[i][j]]
                  /\ abort' = [abort EXCEPT ![i][j] = @ \/ (st[j] = "running" /\ work[i][j] = "run")]
                BY <1>27, <3>2 DEF CancelRetried, Record
            <4>2. mgen'[a][b] = mgen[a][b]
                BY <4>1 DEF TypeOK
            <4>3. abort[a][b] => abort'[a][b]
                BY <4>1 DEF TypeOK
            <4> QED BY <4>2, <4>3
        <3> QED BY <3>1, <3>2
    <2> QED BY <2>1, <2>2, CancelRowFacts DEF Fenced, WorkingOwns, Owns
<1>28. ASSUME NEW i \in Inst, Heartbeat(i)
      PROVE  Fenced(a, b)'
    BY <1>28 DEF QueueInv, TypeOK, WorkingOwns, WorkerOk, Owns, Fenced, Heartbeat
<1>29. ASSUME NEW i \in Inst, LapseInst(i)
      PROVE  Fenced(a, b)'
    BY <1>29 DEF QueueInv, TypeOK, WorkingOwns, WorkerOk, Owns, Fenced, LapseInst
<1>30. ASSUME NEW j \in Job, LapseJob(j)
      PROVE  Fenced(a, b)'
    BY <1>30 DEF QueueInv, TypeOK, WorkingOwns, WorkerOk, Owns, Fenced, LapseJob
<1>31. ASSUME NEW i \in Inst, NEW j \in Job, Fence(i, j)
      PROVE  Fenced(a, b)'
    BY <1>31 DEF QueueInv, TypeOK, WorkingOwns, WorkerOk, Owns, Fenced, Fence
<1>32. ASSUME NEW i \in Inst, NEW j \in Job, CancelThrows(i, j)
      PROVE  Fenced(a, b)'
    BY <1>32 DEF QueueInv, TypeOK, WorkingOwns, WorkerOk, Owns, Fenced, CancelThrows
<1>33. CASE UNCHANGED vars
    BY <1>33 DEF QueueInv, TypeOK, WorkingOwns, WorkerOk, Owns, Fenced, vars
<1> QED BY <1>1, <1>2, <1>3, <1>4, <1>5, <1>6, <1>7, <1>8, <1>9, <1>10, <1>11, <1>12,
           <1>13, <1>14, <1>15, <1>16, <1>17, <1>18, <1>19, <1>20, <1>21, <1>22, <1>23,
           <1>24, <1>25, <1>26, <1>27, <1>28, <1>29, <1>30, <1>31, <1>32, <1>33 DEF Next

-----------------------------------------------------------------------------
(* The theorems.                                                                            *)

(* The invariant behind the others holds of every reachable state: a worker owns its row    *)
(* until the row ends, and a held lock has a worker or a dead owner.                        *)
THEOREM QueueInvariant == Spec => []QueueInv
<1>1. Init => QueueInv
    BY DEF Init, QueueInv, WorkerOk, LockOk, OneWorker
<1>2. TypeOK /\ QueueInv /\ [Next]_vars => QueueInv'
    BY InvStep
<1> QED BY <1>1, <1>2, TypeCorrect, PTL DEF Spec

(* startQueueRecord never runs for one job in two processes, whatever leases lapse and      *)
(* however late a process wakes up.                                                         *)
THEOREM SingleWorker == Spec => []OneWorker
<1>1. QueueInv => OneWorker
    BY DEF QueueInv
<1> QED BY <1>1, QueueInvariant, PTL

(* releaseQueueJobLocks and the worker between them leave no lock behind an ended row.      *)
THEOREM LocksAreFreed == Spec => []LockFreed
<1>1. QueueInv => LockFreed
    BY DEF QueueInv, LockOk, LockFreed
<1> QED BY <1>1, QueueInvariant, PTL

(* No write of a late owner, a cancellation, a reconciliation or a sibling changes the      *)
(* terminal status of a row.                                                                *)
THEOREM OutcomesAreFinal == Spec => TerminalStable
<1>1. TypeOK /\ QueueInv /\ [Next]_vars
          => [\A j \in Job : st[j] \in Terminal => st'[j] = st[j]]_vars
    BY RowStep DEF RowKept
<1> QED BY <1>1, TypeCorrect, QueueInvariant, PTL DEF Spec, TerminalStable

(* A started job that is asked to stop is cancelled, whatever result was in flight.         *)
THEOREM CancellationPrevails == Spec => CancellationWins
<1>1. TypeOK /\ QueueInv /\ [Next]_vars
          => [\A j \in Job : cancel[j] /\ st[j] = "running"
                                => st'[j] \in {"running", "cancelled"} /\ cancel'[j]]_vars
    BY RowStep DEF RowKept
<1> QED BY <1>1, TypeCorrect, QueueInvariant, PTL DEF Spec, CancellationWins

(* propagatePipelineTerminalInTransaction and the guards of every write keep a pipeline and *)
(* its children together.                                                                   *)
THEOREM BatchEndsTogether == Spec => []BatchFailsTogether
<1>1. Init => BatchFailsTogether
    BY DEF Init, BatchFailsTogether
<1>2. TypeOK /\ QueueInv /\ BatchFailsTogether /\ [Next]_vars => BatchFailsTogether'
    BY BatchStep
<1> QED BY <1>1, <1>2, TypeCorrect, QueueInvariant, PTL DEF Spec

(* With the lease fence on time a worker that was not told to stop can record its result.   *)
THEOREM WorkingImpliesOwning == Spec => []WorkingOwns
<1>1. Init => WorkingOwns
    BY DEF Init, WorkingOwns
<1>2. TypeOK /\ QueueInv /\ WorkingOwns /\ [Next]_vars => WorkingOwns'
    BY FenceStep DEF WorkingOwns, Fenced
<1> QED BY <1>1, <1>2, TypeCorrect, QueueInvariant, PTL DEF Spec
=============================================================================
