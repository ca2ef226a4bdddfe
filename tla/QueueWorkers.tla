---------------------------- MODULE QueueWorkers ----------------------------
(***************************************************************************)
(* The unattended queue worker of one repository: its presence, stop and   *)
(* parked files (lib/queue/worker-files.js), its life from the claim to    *)
(* the exit (bin/queue-worker.js), the commands of an operator, and a      *)
(* client bridge that leaves the queue alone while a worker owns it        *)
(* (server.js).  What a row goes through while it runs is in QueueJobs.    *)
(***************************************************************************)
EXTENDS Integers, FiniteSets

CONSTANTS
    Workers,    \* worker processes; each claims the repository at most once
    Lines,      \* the jobs of the files given with --enqueue and --add
    FileOf,     \* the lines of the file each worker was started with
    MaxFaults,  \* bound: processes killed, and steps by which live ones fall behind
    MaxCalls    \* bound: commands and signals of operators

ASSUME QueueWorkersAssumption ==
    /\ FileOf \in [Workers -> SUBSET Lines] /\ MaxFaults \in Nat /\ MaxCalls \in Nat
    /\ {"none", ""} \cap Workers = {}

VARIABLES
    presence,   \* the worker <key>.json names, or "none"
    aside,      \* a presence file renamed for a takeover, or "none"
    mutex,      \* the process inside withQueueWorkerTransition across steps, or "none"
    unchanged,  \* the file is still the text the holder judged stale
    stop,       \* <key>.stop: [for, now]; for is "" without a file, "none" without a target
    parked,     \* <key>.parked exists
    worker,     \* the memory of each worker process
    line,       \* the row of each line: [is, by]
    cli,        \* the command in progress: [op, made]
    bridge,     \* "idle", or "clear": it saw no worker and no mark
    nap,        \* how late the heartbeat is: 0 under 2 minutes, 1 under 10, 2 more
    spent,      \* bounded events: [faults, calls]
    past        \* history: [slept, asked, askedNow, owed]

files == <<presence, aside, mutex, unchanged, stop, parked>>
workervars == <<files, worker, line, cli, bridge, nap, spent, past>>

Idle ==
    [pc |-> "off", fd |-> FALSE, drain |-> FALSE, why |-> "", now |-> FALSE, retired |-> FALSE,
     left |-> {}, made |-> {}, prev |-> "none", empty |-> FALSE]
NoStop == [for |-> "", now |-> FALSE]
NoLine == [is |-> "none", by |-> "none"]
ClosedLine == [is |-> "closed", by |-> "none"]    \* ended, or moved to a client bridge

Up(w) == worker[w].pc \notin {"off", "over", "dead"}
Registered(w) == Up(w) /\ worker[w].pc \notin {"judged", "aside", "creating"}
(* queueWorkerPresenceLive: a dead pid is never live; a live one for ten    *)
(* minutes after its last heartbeat.  HeartbeatFresh is for bridges.*)
Live == presence # "none" /\ Up(presence) /\ nap[presence] < 2
HeartbeatFresh == presence # "none" /\ Up(presence) /\ nap[presence] = 0
LineOpen(j) == line[j] \notin {NoLine, ClosedLine}
RunningOf(w) == {j \in Lines : line[j].by = w /\ line[j].is \in {"running", "stopping"}}
(* The lease of a row lapses when its owner died or fell behind.            *)
Lapsed(j) == line[j].by \notin {w \in Workers : Up(w) /\ nap[w] = 0}

WorkersTypeOK ==
    /\ {presence, aside, mutex} \subseteq Workers \cup {"none"}
    /\ stop \in [for : Workers \cup {"none", ""}, now : BOOLEAN] /\ parked \in BOOLEAN
    /\ \A w \in Workers :
         /\ worker[w].made \cap worker[w].left = {}
         /\ worker[w].pc \in {"off", "judged", "aside", "creating", "starting", "first", "filing",
                              "undo", "last", "going", "run", "tick", "check", "ending",
                              "leaving", "over", "dead"}
         /\ worker[w].fd => worker[w].pc \in {"first", "last", "tick", "dead"}
    /\ \A j \in Lines :
         line[j] \in {NoLine, ClosedLine} \cup
           [is : {"pending", "starting", "running", "stopping"}, by : Workers \cup {"none"}]
    /\ mutex # "none" <=> \E w \in Workers : worker[w].pc \in {"judged", "aside", "creating"}
    /\ aside # "none" => mutex # "none"

WorkersInit ==
    /\ presence = "none" /\ aside = "none" /\ mutex = "none" /\ unchanged = TRUE
    /\ stop = NoStop /\ parked = FALSE
    /\ worker = [w \in Workers |-> [Idle EXCEPT !.left = FileOf[w]]]
    /\ line = [j \in Lines |-> NoLine]
    /\ cli = [op |-> "idle", made |-> {}] /\ bridge = "idle"
    /\ nap = [w \in Workers |-> 0] /\ spent = [faults |-> 0, calls |-> 0]
    /\ past = [slept |-> [w \in Workers |-> 0], asked |-> {}, askedNow |-> {}, owed |-> FALSE]

InStep(w, pc) == worker[w].pc = pc
Goes(w, pc) == worker' = [worker EXCEPT ![w].pc = pc]
others == <<cli, bridge, nap, spent>>

(* What a process that is gone remembered is forgotten.                     *)
Forget(w, pc) ==
    /\ worker' = [worker EXCEPT ![w] = [Idle EXCEPT !.pc = pc]]
    /\ nap' = [nap EXCEPT ![w] = 0]
    /\ past' = [past EXCEPT !.slept[w] = 0, !.asked = @ \ {w}, !.askedNow = @ \ {w},
                            !.owed = @ /\ ~InStep(w, "ending")]

-----------------------------------------------------------------------------
(* claimQueueWorkerPresenceHeld.  A stale file is renamed aside, compared   *)
(* with what was judged, and put back when its owner wrote meanwhile.       *)
ClaimPresence(w) ==
    /\ InStep(w, "off")
    /\ \/ /\ mutex # "none" \/ Live
          /\ worker' = [worker EXCEPT ![w].pc = "over", ![w].left = {}]
          /\ UNCHANGED <<mutex, unchanged>>
       \/ /\ mutex = "none" /\ ~Live
          /\ mutex' = w /\ unchanged' = TRUE
          /\ Goes(w, IF presence = "none" THEN "creating" ELSE "judged")
    /\ UNCHANGED <<presence, aside, stop, parked, line, others, past>>

MoveAside(w) ==
    /\ InStep(w, "judged")
    /\ aside' = presence /\ presence' = "none"
    /\ Goes(w, "aside")
    /\ UNCHANGED <<mutex, unchanged, stop, parked, line, others, past>>

TakeOver(w) ==
    /\ InStep(w, "aside")
    /\ aside' = "none" /\ unchanged' = TRUE
    /\ IF unchanged
       THEN /\ worker' = [worker EXCEPT ![w].pc = "creating", ![w].prev = aside]
            /\ UNCHANGED <<presence, mutex>>
       ELSE /\ presence' = aside /\ mutex' = "none"
            /\ worker' = [worker EXCEPT ![w].pc = "over", ![w].left = {}]
    /\ UNCHANGED <<stop, parked, line, others, past>>

(* The exclusive create, and retireStartupStop: a stop without a target, or *)
(* one for the worker just taken over, is not for this one.                 *)
CreatePresence(w) ==
    /\ InStep(w, "creating")
    /\ presence' = w /\ mutex' = "none"
    /\ stop' = IF stop.for \in {"none", worker[w].prev} THEN NoStop ELSE stop
    /\ worker' = [worker EXCEPT ![w].pc = "starting", ![w].prev = "none"]
    /\ UNCHANGED <<aside, unchanged, parked, line, others, past>>

(* Mutant: the stop file is removed without a look at whose it is (B-083).  *)
ReleaseFilesAnyway(w) ==
    IF ~worker[w].retired /\ mutex = "none"
    THEN /\ presence' = (IF presence = w THEN "none" ELSE presence) /\ stop' = NoStop
    ELSE UNCHANGED <<presence, stop>>

(* releaseQueueWorkerPresence: only its own files, or nothing.              *)
ReleaseFiles(w) ==
    IF ~worker[w].retired /\ mutex = "none" /\ presence = w
    THEN /\ presence' = "none"
         /\ stop' = IF stop.for \in {w, "none"} THEN NoStop ELSE stop
    ELSE UNCHANGED <<presence, stop>>

-----------------------------------------------------------------------------
(* startWorkerMode; a refused start releases the files.                     *)
StartWorkerMode(w) ==
    /\ InStep(w, "starting")
    /\ \E pc \in {"first", "leaving"} : Goes(w, pc)
    /\ UNCHANGED <<files, line, others, past>>

(* The recovery pass adopts unstarted rows whose lease lapsed.              *)
AdoptLine(w, j) ==
    /\ Registered(w) /\ worker[w].pc # "leaving" /\ ~worker[w].fd
    /\ line[j].is \in {"pending", "starting"} /\ line[j].by # w /\ Lapsed(j)
    /\ line' = [line EXCEPT ![j] = [is |-> "pending", by |-> w]]
    /\ UNCHANGED <<files, worker, others, past>>

(* enqueueLinesInBatch: a line that has a row is not enqueued again; a line *)
(* refused, an exception or Ctrl+C cancels what this file added.            *)
EnqueueLine(w, j) ==
    /\ InStep(w, "filing") /\ j \in worker[w].left
    /\ IF line[j].is = "none"
       THEN /\ line' = [line EXCEPT ![j] = [is |-> "pending", by |-> w]]
            /\ worker' = [worker EXCEPT ![w].left = @ \ {j}, ![w].made = @ \cup {j}]
       ELSE /\ worker' = [worker EXCEPT ![w].left = @ \ {j}] /\ UNCHANGED line
    /\ UNCHANGED <<files, others, past>>

Enqueued(w) ==
    /\ InStep(w, "filing") /\ worker[w].left = {}
    /\ Goes(w, "last")
    /\ UNCHANGED <<files, line, others, past>>

RefuseFile(w) ==
    /\ InStep(w, "filing") \/ InStep(w, "going")
    /\ Goes(w, "undo")
    /\ UNCHANGED <<files, line, others, past>>

(* cancelUnstartedQueueJobs: a row another process took meanwhile refuses.  *)
CancelLine(w, j) ==
    /\ InStep(w, "undo") /\ j \in worker[w].made /\ line[j] = [is |-> "pending", by |-> w]
    /\ line' = [line EXCEPT ![j] = ClosedLine]
    /\ UNCHANGED <<files, worker, others, past>>

FileRefused(w) ==
    /\ InStep(w, "undo") /\ \A j \in worker[w].made : line[j] # [is |-> "pending", by |-> w]
    /\ worker' = [worker EXCEPT ![w].pc = "leaving", ![w].why = "refused"]
    /\ UNCHANGED <<files, line, others, past>>

(* The parked mark goes only now, and then the starts are released.         *)
ReleaseStarts(w) ==
    /\ InStep(w, "going")
    /\ parked' = FALSE /\ past' = [past EXCEPT !.owed = FALSE]
    /\ worker' = [worker EXCEPT ![w].pc = "run", ![w].made = {}]
    /\ UNCHANGED <<presence, aside, mutex, unchanged, stop, line, others>>

-----------------------------------------------------------------------------
(* A pass of the scheduler; a claim in flight is not running yet, and may   *)
(* still be when the worker ends.                                           *)
StartJob(w, j) ==
    /\ worker[w].pc \in {"run", "tick"} /\ ~worker[w].fd /\ ~worker[w].drain
    /\ line[j] = [is |-> "pending", by |-> w]
    /\ line' = [line EXCEPT ![j].is = "starting"]
    /\ UNCHANGED <<files, worker, others, past>>

JobStarts(w, j) ==
    /\ Up(w) /\ line[j] = [is |-> "starting", by |-> w]
    /\ line' = [line EXCEPT ![j].is = "running"]
    /\ UNCHANGED <<files, worker, others, past>>

JobFinishes(w, j) ==
    /\ Up(w) /\ line[j] = [is |-> "running", by |-> w]
    /\ line' = [line EXCEPT ![j] = ClosedLine]
    /\ UNCHANGED <<files, worker, others, past>>

JobStops(w, j) ==
    /\ Up(w) /\ line[j] = [is |-> "stopping", by |-> w]
    /\ line' = [line EXCEPT ![j] = ClosedLine]
    /\ UNCHANGED <<files, worker, others, past>>

(* abortRunningQueueJobs, at every check of a worker that stops now (B-089).*)
AbortRunning(w) ==
    line' = [j \in Lines |->
      IF j \in RunningOf(w) THEN [line[j] EXCEPT !.is = "stopping"] ELSE line[j]]

(* The tick up to its snapshot.  A stop is this worker's while the presence *)
(* is; one that lost its presence retires and sees none.                    *)
CheckStop(w) ==
    LET own == presence = w /\ ~worker[w].retired
        heard == own /\ stop.for \in {w, "none"}
        now == heard /\ stop.now
    IN
    /\ InStep(w, "run")
    /\ worker' = [worker EXCEPT ![w] = [worker[w] EXCEPT
         !.pc = "tick",
         !.drain = @ \/ heard,
         !.why = IF (now /\ ~worker[w].now) \/ (heard /\ ~worker[w].drain) THEN "stop" ELSE @,
         !.now = @ \/ now,
         !.retired = @ \/ (~own /\ stop.for # ""),
         !.empty = \A j \in Lines : ~LineOpen(j)]]
    /\ IF now \/ worker[w].now THEN AbortRunning(w) ELSE UNCHANGED line
    /\ UNCHANGED <<files, others, past>>

(* refreshQueueWorkerPresence: the file is opened and found to be its own,  *)
(* written through the descriptor, and read again at its path.              *)
Refreshing(w) == worker[w].pc \in {"first", "last", "tick"}
Awake(w) == nap' = [nap EXCEPT ![w] = 0] /\ UNCHANGED <<cli, bridge, spent>>

RefreshDone(w) ==
    worker' = [worker EXCEPT ![w].fd = FALSE,
                 ![w].pc = CASE @ = "first" -> "filing" [] @ = "last" -> "going"
                             [] OTHER -> "check"]

PresenceLost(w, forGood) ==
    worker' = [worker EXCEPT ![w] = [worker[w] EXCEPT
      !.fd = FALSE, !.drain = TRUE, !.why = "lost", !.retired = @ \/ forGood,
      !.pc = IF @ = "tick" THEN "check" ELSE "leaving"]]

RefreshOpens(w) ==
    /\ Refreshing(w) /\ ~worker[w].fd /\ ~worker[w].retired /\ worker[w].why # "lost"
    /\ presence = w
    /\ worker' = [worker EXCEPT ![w].fd = TRUE]
    /\ UNCHANGED <<files, line, others, past>>

RefreshWrites(w) ==
    /\ Refreshing(w) /\ worker[w].fd
    /\ unchanged' = (unchanged /\ ~(mutex # "none" /\ w \in {presence, aside}))
    /\ IF presence = w THEN RefreshDone(w) ELSE PresenceLost(w, TRUE)
    /\ Awake(w)
    /\ UNCHANGED <<presence, aside, mutex, stop, parked, line, past>>

(* The file is missing: it is created again unless a transition is running. *)
RefreshRecreates(w) ==
    /\ Refreshing(w) /\ ~worker[w].fd /\ ~worker[w].retired /\ worker[w].why # "lost"
    /\ presence = "none" /\ mutex = "none"
    /\ presence' = w
    /\ RefreshDone(w) /\ Awake(w)
    /\ UNCHANGED <<aside, mutex, unchanged, stop, parked, line, past>>

RefreshFails(w) ==
    /\ Refreshing(w) /\ ~worker[w].fd
    /\ \/ worker[w].retired \/ worker[w].why = "lost" \/ presence \notin {w, "none"}
       \/ presence = "none" /\ mutex # "none"
    /\ PresenceLost(w, presence # "none") /\ Awake(w)
    /\ UNCHANGED <<files, line, past>>

(* The end of the tick: a stop waits for what runs, not for what starts.    *)
FinishTick(w) ==
    /\ InStep(w, "check")
    /\ LET ends == worker[w].drain /\ RunningOf(w) = {} IN
       \/ /\ ends /\ Goes(w, "ending")
          /\ past' = [past EXCEPT !.owed = @ \/ ( /\ worker[w].why = "stop" /\ past.slept[w] = 0
                                                 /\ \E j \in Lines : LineOpen(j))]
       \/ /\ ~worker[w].drain /\ worker[w].empty /\ RunningOf(w) = {}
          /\ worker' = [worker EXCEPT ![w].pc = "ending", ![w].why = "empty"]
          /\ UNCHANGED past
       \/ ~ends /\ Goes(w, "run") /\ UNCHANGED past
    /\ UNCHANGED <<files, line, others>>

(* A stop that leaves jobs behind parks the queue, and then the files go.   *)
Park(w) ==
    /\ InStep(w, "ending")
    /\ LET open == \E j \in Lines : LineOpen(j) IN
       /\ parked' = (parked \/ (worker[w].why = "stop" /\ open))
       /\ past' = [past EXCEPT !.owed = @ /\ open]
    /\ Goes(w, "leaving")
    /\ UNCHANGED <<presence, aside, mutex, unchanged, stop, line, others>>

Leave(w) ==
    /\ InStep(w, "leaving")
    /\ ReleaseFiles(w) /\ Forget(w, "over")
    /\ UNCHANGED <<aside, mutex, unchanged, parked, line, cli, bridge, spent>>

-----------------------------------------------------------------------------
(* queue-worker.js --stop, --release and --add: the presence is looked at,  *)
(* and then the command acts.                                               *)
Command ==
    /\ cli.op = "idle"
    /\ \/ /\ Live /\ spent.calls < MaxCalls
          /\ \E op \in {"stop", "now", "add"} : cli' = [cli EXCEPT !.op = op]
          /\ spent' = [spent EXCEPT !.calls = @ + 1]
       \/ /\ ~Live /\ parked
          /\ cli' = [cli EXCEPT !.op = "release"] /\ UNCHANGED spent
    /\ UNCHANGED <<files, worker, line, bridge, nap, past>>

(* writeQueueWorkerStop: for whoever the presence names; a later plain stop *)
(* of the same worker stays a --now, and another one's file is kept.        *)
StopWritable == mutex = "none" /\ stop.for \in {"", "none", presence}
WriteStop(now) ==
    /\ stop' = [for |-> presence, now |-> now \/ (stop.for \in {"none", presence} /\ stop.now)]
    /\ past' = [past EXCEPT !.asked = @ \cup ({presence} \ {"none"}),
                            !.askedNow = IF now THEN @ \cup ({presence} \ {"none"}) ELSE @]

RequestStop ==
    /\ cli.op \in {"stop", "now"}
    /\ IF StopWritable THEN WriteStop(cli.op = "now") ELSE UNCHANGED <<stop, past>>
    /\ cli' = [cli EXCEPT !.op = "idle"]
    /\ UNCHANGED <<presence, aside, mutex, unchanged, parked, worker, line, bridge, nap, spent>>

(* Ctrl+C writes the same file, the second one with now; when it cannot,    *)
(* this worker drains.  The third one is a forced exit.                     *)
Signal(w) ==
    /\ worker[w].pc \in {"run", "tick"} /\ ~worker[w].fd
    /\ \E now \in BOOLEAN :
         /\ \/ spent.calls < MaxCalls /\ ~now /\ spent' = [spent EXCEPT !.calls = @ + 1]
            \/ now /\ stop = [for |-> w, now |-> FALSE] /\ UNCHANGED spent
         /\ IF StopWritable
            THEN WriteStop(now) /\ UNCHANGED worker
            ELSE worker' = [worker EXCEPT ![w].drain = TRUE] /\ UNCHANGED <<stop, past>>
    /\ UNCHANGED <<presence, aside, mutex, unchanged, parked, line, cli, bridge, nap>>

ReleaseParked ==
    /\ cli.op = "release"
    /\ parked' = FALSE /\ past' = [past EXCEPT !.owed = FALSE]
    /\ cli' = [cli EXCEPT !.op = "idle"]
    /\ UNCHANGED <<presence, aside, mutex, unchanged, stop, worker, line, bridge, nap, spent>>

(* Rows without an owner, for the running worker to adopt; a refused line   *)
(* cancels what was added, also what that worker already started.           *)
AddLine(j) ==
    /\ cli.op = "add" /\ line[j].is = "none"
    /\ line' = [line EXCEPT ![j].is = "pending"]
    /\ cli' = [cli EXCEPT !.made = @ \cup {j}]
    /\ UNCHANGED <<files, worker, bridge, nap, spent, past>>

Cancelled(j) ==
    CASE line[j].is \in {"pending", "starting"} -> ClosedLine
      [] line[j].is = "running" -> [line[j] EXCEPT !.is = "stopping"]
      [] OTHER -> line[j]

AddEnds ==
    /\ cli.op = "add"
    /\ \/ UNCHANGED line
       \/ line' = [j \in Lines |-> IF j \in cli.made THEN Cancelled(j) ELSE line[j]]
    /\ cli' = [op |-> "idle", made |-> {}]
    /\ UNCHANGED <<files, worker, bridge, nap, spent, past>>

(* --cancel-pending --apply: the unstarted rows that match.                 *)
CancelPending ==
    /\ spent.calls < MaxCalls /\ spent' = [spent EXCEPT !.calls = @ + 1]
    /\ \E match \in SUBSET {j \in Lines : line[j].is \in {"pending", "starting"}} :
         match # {} /\ line' = [j \in Lines |-> IF j \in match THEN Cancelled(j) ELSE line[j]]
    /\ UNCHANGED <<files, worker, cli, bridge, nap, past>>

-----------------------------------------------------------------------------
(* foreignQueueWorkerPresence.                                              *)
BridgeMay == ~HeartbeatFresh /\ ~parked

BridgeLooks ==
    /\ bridge = "idle" /\ BridgeMay
    /\ bridge' = "clear"
    /\ UNCHANGED <<files, worker, line, cli, nap, spent, past>>

(* The rest of the pass: it adopts unstarted rows and ends abandoned ones.  *)
BridgeTakes(j) ==
    /\ bridge = "clear" /\ LineOpen(j) /\ Lapsed(j)
    /\ line' = [line EXCEPT ![j] = ClosedLine]
    /\ UNCHANGED <<files, worker, cli, bridge, nap, spent, past>>

BridgeEnds ==
    /\ bridge = "clear" /\ bridge' = "idle"
    /\ UNCHANGED <<files, worker, line, cli, nap, spent, past>>

(* The recovery pass of a worker ends what another one left running.        *)
Interrupt(w, j) ==
    /\ Registered(w) /\ worker[w].pc # "leaving" /\ ~worker[w].fd
    /\ line[j].is \in {"running", "stopping"} /\ line[j].by # w /\ Lapsed(j)
    /\ line' = [line EXCEPT ![j] = ClosedLine]
    /\ UNCHANGED <<files, worker, others, past>>

-----------------------------------------------------------------------------
(* A process sleeps: its heartbeat passes 2 minutes, or 10.                 *)
Nap(w) ==
    /\ Registered(w) /\ spent.faults < MaxFaults
    /\ \E n \in nap[w] + 1..2 :
         /\ nap' = [nap EXCEPT ![w] = n]
         /\ past' = [past EXCEPT !.slept[w] = IF @ < n THEN n ELSE @,
                                 !.owed = @ /\ ~InStep(w, "ending")]
    /\ spent' = [spent EXCEPT !.faults = @ + 1]
    /\ UNCHANGED <<files, worker, line, cli, bridge>>

(* A killed process leaves its files; the transaction it was in ends.       *)
Dies(w) ==
    /\ Up(w) /\ spent.faults < MaxFaults
    /\ spent' = [spent EXCEPT !.faults = @ + 1]
    /\ Forget(w, "dead")
    /\ UNCHANGED <<unchanged, parked, line, cli, bridge>>

Kill(w) ==
    /\ Dies(w)
    /\ mutex' = (IF mutex = w THEN "none" ELSE mutex)
    /\ aside' = (IF mutex = w THEN "none" ELSE aside)
    /\ UNCHANGED <<presence, stop>>

(* A crash through the failure handlers, or a third Ctrl+C: the exit        *)
(* handler still removes the files.                                         *)
ForcedExit(w) ==
    /\ Registered(w) /\ Dies(w)
    /\ ReleaseFiles(w)
    /\ UNCHANGED <<aside, mutex>>

StartUp(w) ==
    \/ MoveAside(w) \/ TakeOver(w) \/ CreatePresence(w) \/ StartWorkerMode(w)
    \/ (\E j \in Lines : EnqueueLine(w, j)) \/ Enqueued(w) \/ RefuseFile(w)
    \/ (\E j \in Lines : CancelLine(w, j)) \/ FileRefused(w) \/ ReleaseStarts(w)
Tick(w) ==
    \/ CheckStop(w) \/ RefreshOpens(w) \/ RefreshWrites(w) \/ RefreshRecreates(w) \/ RefreshFails(w)
    \/ FinishTick(w) \/ Park(w) \/ Leave(w)

WorkersNext ==
    \/ \E w \in Workers :
         \/ ClaimPresence(w) \/ StartUp(w) \/ Tick(w)
         \/ Signal(w) \/ Nap(w) \/ Kill(w) \/ ForcedExit(w)
         \/ \E j \in Lines :
              \/ AdoptLine(w, j) \/ Interrupt(w, j)
              \/ StartJob(w, j) \/ JobStarts(w, j) \/ JobFinishes(w, j) \/ JobStops(w, j)
    \/ Command \/ RequestStop \/ ReleaseParked \/ AddEnds \/ CancelPending
    \/ BridgeLooks \/ BridgeEnds
    \/ \E j \in Lines : AddLine(j) \/ BridgeTakes(j)

-----------------------------------------------------------------------------
(* A worker that never slept ten minutes keeps its presence file from the   *)
(* claim to its exit; so there is one of those at a time.                   *)
PresenceHeld ==
    \A w \in Workers : Registered(w) /\ past.slept[w] < 2 => presence = w

(* A stop that was accepted for a worker waits until it has seen it: nothing*)
(* removes it, turns it to another worker or makes a --now a plain stop     *)
(* (B-081, B-083).                                                          *)
StopHeld ==
    \A w \in past.asked :
      Registered(w) /\ past.slept[w] < 2 =>
        /\ ~worker[w].drain => stop.for = w
        /\ w \in past.askedNow /\ ~worker[w].now => stop = [for |-> w, now |-> TRUE]

(* A file refused at its start leaves no job behind that can run, unless    *)
(* its worker slept past two minutes and another process took the rows.     *)
RefusedLeavesNothing ==
    \A w \in Workers : InStep(w, "leaving") /\ worker[w].why = "refused" /\ past.slept[w] = 0 =>
      \A j \in worker[w].made : ~LineOpen(j)

(* A client bridge finds the queue free neither while a worker that keeps   *)
(* its heartbeat owns it, nor while jobs that a stopped worker left wait    *)
(* for the next worker or for --release.                                    *)
BridgeKeepsOff ==
    bridge = "idle" /\ bridge' = "clear" =>
      /\ ~past.owed
      /\ \A w \in Workers : Registered(w) => past.slept[w] > 0

(* What the files of the workers promise, as one property of every step.    *)
WorkersKeepOrder ==
    [][WorkersTypeOK' /\ PresenceHeld' /\ StopHeld' /\ RefusedLeavesNothing'
       /\ BridgeKeepsOff]_workervars
=============================================================================
