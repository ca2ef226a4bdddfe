---------------------------- MODULE SupervisedRun ----------------------------
(***************************************************************************)
(* One agent run: the bridge (runSpawnCommand of lib/run-command.js), the  *)
(* supervisor process it spawns (bin/process-supervisor.js) and the        *)
(* process tree of the agent.  The two programs talk through pipes: the    *)
(* bridge writes launch, heartbeat and terminate on the supervisor's       *)
(* stdin, the supervisor writes ready, launched, termination_unconfirmed   *)
(* and exit on its control channel.  Either side may die at any step.      *)
(*                                                                         *)
(* The supervisor kills the tree when the durable lease the bridge proves  *)
(* on each heartbeat runs out, so a lost bridge cannot leave an agent that *)
(* writes under a lease somebody else now holds.                           *)
(***************************************************************************)
EXTENDS Integers, Sequences

CONSTANTS
    RunEnd,       \* bound: the last time of the clock
    WatchdogMs,   \* supervisorWatchdogMs
    RunLeaseMs,   \* how far a renewal moves the durable lease
    MaxControl    \* bound: control messages in the pipe before a heartbeat waits

ASSUME RunAssumption ==
    /\ {RunEnd, WatchdogMs, RunLeaseMs, MaxControl} \subseteq Nat \ {0}

VARIABLES
    clock,
    platform,     \* process.platform: "posix" or "win32"
    run,          \* the bridge: "gate", "launched", "stopping", "settled", "lost"
    gate,         \* [ready, persisted, failed]: supervisorReady, identityPersisted, gateFailureType
    sent,         \* launchSent
    lease,        \* expiry of the durable lease this run holds
    proving,      \* heartbeatInFlight
    seen,         \* [exit, unconfirmed]: controlExitEvent, controlTerminationUnconfirmed
    verdict,      \* the settled result: "none", "contained" or "unconfirmed"
    stdin,        \* control messages on their way to the supervisor
    stdinClosed,
    events,       \* control events on their way to the bridge
    sup,          \* the supervisor: "booting", "ready", "running", "killing", "done", "gone"
    watchdog,     \* watchdogDeadlineAt of the supervisor
    reason,       \* terminationReason: "none", "watchdog_expired" or any other, "asked"
    child,        \* the direct child: "none", "alive", "exited"
    desc          \* a descendant of the agent, or NoDesc

runvars == <<clock, platform, run, gate, sent, lease, proving, seen, verdict, stdin,
             stdinClosed, events, sup, watchdog, reason, child, desc>>
bridgevars == <<run, gate, sent, lease, proving, seen, verdict>>
supvars == <<sup, watchdog, reason>>
treevars == <<child, desc>>

(* A live descendant: is it still in the payload's process group, and does  *)
(* it still hold the inherited stdio pipes?                                 *)
NoDesc == [alive |-> FALSE, grouped |-> FALSE, holds |-> FALSE]
Descendants == [alive : {TRUE}, grouped : BOOLEAN, holds : BOOLEAN]

NoEvent == [type |-> "none"]
Exit(why, confirmed, error) ==
    [type |-> "exit", why |-> why, confirmed |-> confirmed, error |-> error]

Least(a, b) == IF a <= b THEN a ELSE b

RunTypeOK ==
    /\ clock \in 0..RunEnd
    /\ platform \in {"posix", "win32"}
    /\ run \in {"gate", "launched", "stopping", "settled", "lost"}
    /\ gate \in [ready : BOOLEAN, persisted : BOOLEAN, failed : BOOLEAN]
    /\ verdict \in {"none", "contained", "unconfirmed"}
    /\ sup \in {"booting", "ready", "running", "killing", "done", "gone"}
    /\ child \in {"none", "alive", "exited"}
    /\ desc \in Descendants \cup {NoDesc}
    /\ {lease, watchdog} \subseteq 0..(RunEnd + RunLeaseMs)

RunInit ==
    /\ clock = 0
    /\ platform \in {"posix", "win32"}
    /\ run = "gate"
    /\ gate = [ready |-> FALSE, persisted |-> FALSE, failed |-> FALSE]
    /\ sent = FALSE /\ proving = FALSE
    /\ lease = RunLeaseMs
    /\ seen = [exit |-> NoEvent, unconfirmed |-> FALSE]
    /\ verdict = "none"
    /\ stdin = <<>> /\ stdinClosed = FALSE /\ events = <<>>
    /\ sup = "booting" /\ watchdog = 0 /\ reason = "none"
    /\ child = "none" /\ desc = NoDesc

-----------------------------------------------------------------------------
(* The process tree, as the operating system shows it.                      *)

GroupAbsent == child # "alive" /\ ~(desc.alive /\ desc.grouped)
PipesClosed == child # "alive" /\ ~(desc.alive /\ desc.holds)

(* What a confirmed end promises: on POSIX nothing of the process group and *)
(* nothing holding the pipes is left, on Windows nothing holding the pipes. *)
Contained == PipesClosed /\ (platform = "posix" => GroupAbsent)

AgentSpawns ==
    /\ child = "alive" /\ ~desc.alive
    /\ desc' \in Descendants
    /\ UNCHANGED <<clock, platform, bridgevars, stdin, stdinClosed, events, supvars, child>>

AgentExits ==
    /\ child = "alive"
    /\ child' = "exited"
    /\ UNCHANGED <<clock, platform, bridgevars, stdin, stdinClosed, events, supvars, desc>>

DescendantExits ==
    /\ desc.alive
    /\ desc' = NoDesc
    /\ UNCHANGED <<clock, platform, bridgevars, stdin, stdinClosed, events, supvars, child>>

-----------------------------------------------------------------------------
(* The supervisor.                                                          *)

Emit(list) == events' = IF run \in {"settled", "lost"} THEN events ELSE events \o list

(* complete(): the one exit event, after which stdin is no longer read.     *)
Complete(list) ==
    /\ sup' = "done"
    /\ Emit(list)

SupervisorStarts ==
    /\ sup = "booting"
    /\ sup' = "ready"
    /\ Emit(<<[type |-> "ready"]>>)
    /\ UNCHANGED <<clock, platform, bridgevars, stdin, stdinClosed, watchdog, reason,
                   treevars>>

(* requestTermination of the supervisor: the first reason wins.             *)
RequestKill(why) ==
    IF sup = "running"
    THEN sup' = "killing" /\ reason' = why
    ELSE UNCHANGED <<sup, reason>>

(* launchPayload: the authority may have expired while the message waited   *)
(* in the pipe; then nothing is started.                                    *)
LaunchPayload ==
    /\ sup = "ready" /\ stdin # <<>> /\ Head(stdin).type = "launch"
    /\ stdin' = Tail(stdin)
    /\ watchdog' = Head(stdin).deadline
    /\ \/ /\ Head(stdin).deadline <= clock
          /\ Complete(<<Exit("no_payload", FALSE, "expired")>>)
          /\ UNCHANGED child
       \/ /\ Head(stdin).deadline > clock
          /\ Complete(<<Exit("no_payload", FALSE, "spawn_failed")>>)
          /\ UNCHANGED child
       \/ /\ Head(stdin).deadline > clock
          /\ child' = "alive"
          /\ sup' = "running"
          /\ Emit(<<[type |-> "launched"]>>)
    /\ UNCHANGED <<clock, platform, bridgevars, stdinClosed, reason, desc>>

(* Mutant: a heartbeat restarts the watchdog whatever deadline it proves.    *)
HandleMessageOnTrust ==
    /\ sup \in {"running", "killing"} /\ stdin # <<>>
    /\ stdin' = Tail(stdin)
    /\ IF Head(stdin).type = "terminate" THEN RequestKill("asked") /\ UNCHANGED watchdog
       ELSE watchdog' = clock + WatchdogMs /\ UNCHANGED <<sup, reason>>
    /\ UNCHANGED <<clock, platform, bridgevars, stdinClosed, events, treevars>>

(* handleMessage for a heartbeat or a terminate message.                    *)
HandleMessage ==
    /\ sup \in {"running", "killing"} /\ stdin # <<>>
    /\ stdin' = Tail(stdin)
    /\ LET m == Head(stdin) IN
       \/ /\ m.type = "heartbeat"
          /\ IF sup = "killing" THEN UNCHANGED <<sup, reason, watchdog>>
             ELSE IF m.deadline <= clock
             THEN RequestKill("asked") /\ UNCHANGED watchdog
             ELSE /\ watchdog' = Least(clock + WatchdogMs, m.deadline)
                  /\ UNCHANGED <<sup, reason>>
       \/ /\ m.type = "terminate"
          /\ RequestKill("asked") /\ UNCHANGED watchdog
    /\ UNCHANGED <<clock, platform, bridgevars, stdinClosed, events, treevars>>

(* The end of stdin: the bridge closed it or died.  Messages before it are  *)
(* handled first (messageChain).                                            *)
StdinEnds ==
    /\ stdinClosed /\ stdin = <<>>
    /\ \/ /\ sup = "ready"
          /\ Complete(<<Exit("no_payload", TRUE, "none")>>)
          /\ UNCHANGED reason
       \/ /\ sup = "running"
          /\ RequestKill("asked")
          /\ UNCHANGED events
    /\ UNCHANGED <<clock, platform, bridgevars, stdin, stdinClosed, watchdog, treevars>>

WatchdogDue == sup = "running" /\ clock >= watchdog

(* The watchdog, and the run's own time limit: that one is not measured, it *)
(* may strike at any time and strikes some time.                            *)
SupervisorTimer ==
    /\ sup = "running"
    /\ RequestKill(IF WatchdogDue THEN "watchdog_expired" ELSE "asked")
    /\ UNCHANGED <<clock, platform, bridgevars, stdin, stdinClosed, events, watchdog,
                   treevars>>

(* SIGTERM, SIGINT or SIGHUP to the supervisor.                             *)
SupervisorSignalled ==
    /\ \/ /\ sup = "ready"
          /\ Complete(<<Exit("no_payload", TRUE, "none")>>)
          /\ UNCHANGED reason
       \/ /\ sup = "running"
          /\ RequestKill("asked")
          /\ UNCHANGED events
    /\ UNCHANGED <<clock, platform, bridgevars, stdin, stdinClosed, watchdog, treevars>>

(* onPayloadClose: the child is gone and its pipes are closed.  A process   *)
(* left in its group is a descendant to be contained.                       *)
PayloadCloses ==
    /\ sup = "running" /\ child = "exited" /\ PipesClosed
    /\ IF platform = "win32" \/ GroupAbsent
       THEN /\ Complete(<<Exit("payload_closed", platform = "posix", "none")>>)
            /\ UNCHANGED reason
       ELSE RequestKill("asked") /\ UNCHANGED events
    /\ UNCHANGED <<clock, platform, bridgevars, stdin, stdinClosed, watchdog, treevars>>

(* scheduleExitCloseCheck: idle pipes still open past the grace period.     *)
ExitCloseCheck ==
    /\ sup = "running" /\ child = "exited" /\ ~PipesClosed
    /\ RequestKill("asked")
    /\ UNCHANGED <<clock, platform, bridgevars, stdin, stdinClosed, events, watchdog,
                   treevars>>

(* What a kill may leave: a process that does not die in the bounded wait.  *)
KillChild == child' \in (IF child = "alive" THEN {"alive", "exited"} ELSE {child})
KillDesc(reached) == desc' \in (IF reached THEN {NoDesc, desc} ELSE {desc})

ReportKill(confirmed, best) ==
    Complete(IF confirmed \/ best
             THEN <<Exit(reason, confirmed, "none")>>
             ELSE <<[type |-> "unconfirmed"], Exit(reason, FALSE, "termination_unconfirmed")>>)

(* Mutant: an empty process group is taken for a dead tree.                 *)
TerminateGroupOnly ==
    /\ sup = "killing" /\ platform = "posix"
    /\ KillChild /\ KillDesc(desc.alive /\ desc.grouped)
    /\ ReportKill(GroupAbsent', FALSE)
    /\ UNCHANGED <<clock, platform, bridgevars, stdin, stdinClosed, watchdog, reason>>

(* terminatePosix: SIGTERM, then SIGKILL, to the process group; an empty    *)
(* group confirms nothing while the pipes are still held.                   *)
TerminatePosix ==
    /\ sup = "killing" /\ platform = "posix"
    /\ KillChild /\ KillDesc(desc.alive /\ desc.grouped)
    /\ ReportKill(GroupAbsent' /\ PipesClosed', FALSE)
    /\ UNCHANGED <<clock, platform, bridgevars, stdin, stdinClosed, watchdog, reason>>

(* terminateWindows and terminateWindowsAfterExit: taskkill of a live       *)
(* child, or the verified kill of the descendants of an exited one.  The    *)
(* verdict is best effort: the tools succeeded and the pipes are closed.    *)
TerminateWindows ==
    /\ sup = "killing" /\ platform = "win32"
    /\ KillChild /\ KillDesc(desc.alive)
    /\ \E toolOk \in BOOLEAN :
         ReportKill(FALSE, (toolOk \/ (child = "exited" /\ PipesClosed)) /\ PipesClosed')
    /\ UNCHANGED <<clock, platform, bridgevars, stdin, stdinClosed, watchdog, reason>>

(* The supervisor process is killed from outside.  What it already wrote is *)
(* still in the pipe; the agent's tree keeps running.                       *)
SupervisorDies ==
    /\ sup \in {"booting", "ready", "running", "killing"}
    /\ sup' = "gone"
    /\ UNCHANGED <<clock, platform, bridgevars, stdin, stdinClosed, events, watchdog, reason,
                   treevars>>

-----------------------------------------------------------------------------
(* The bridge.                                                              *)

(* sendControl: a message to a supervisor that is no longer there is lost.  *)
Send(m) == stdin' = IF sup \in {"done", "gone"} THEN stdin ELSE Append(stdin, m)

Pending == run \in {"gate", "launched"}

(* requestTermination of the bridge: before the launch the closed stdin is  *)
(* the cancellation, after it a terminate message.                          *)
RequestTermination ==
    /\ run' = "stopping"
    /\ IF sent
       THEN Send([type |-> "terminate"]) /\ UNCHANGED stdinClosed
       ELSE stdinClosed' = TRUE /\ UNCHANGED stdin

(* maybeLaunch: both the ready event and the persisted identity are in.     *)
MaybeLaunch(ready, persisted) ==
    LET deadline == Least(clock + WatchdogMs, lease) IN
    IF ~(run = "gate" /\ ready /\ persisted /\ ~gate.failed)
    THEN /\ gate' = [gate EXCEPT !.ready = ready, !.persisted = persisted]
         /\ UNCHANGED <<run, sent, stdin, stdinClosed>>
    ELSE IF deadline <= clock
    THEN /\ gate' = [ready |-> ready, persisted |-> persisted, failed |-> TRUE]
         /\ RequestTermination
         /\ UNCHANGED sent
    ELSE /\ gate' = [gate EXCEPT !.ready = ready, !.persisted = persisted]
         /\ Send([type |-> "launch", deadline |-> deadline])
         /\ sent' = TRUE /\ run' = "launched"
         /\ UNCHANGED stdinClosed

(* onSpawn settles: the supervisor's identity is durable, or it is not and  *)
(* nothing may be launched.                                                 *)
PersistIdentity ==
    /\ run \in {"gate", "stopping"} /\ ~gate.persisted /\ ~gate.failed
    /\ MaybeLaunch(gate.ready, TRUE)
    /\ UNCHANGED <<clock, platform, lease, proving, seen, verdict, events, supvars, treevars>>

LaunchRefused ==
    /\ run = "gate" /\ ~gate.failed
    /\ gate' = [gate EXCEPT !.failed = TRUE]
    /\ RequestTermination
    /\ UNCHANGED <<clock, platform, sent, lease, proving, seen, verdict, events, supvars, treevars>>

(* A control line that is malformed, too long or of another identity.       *)
ControlProtocolBroken ==
    /\ Pending /\ ~gate.failed
    /\ gate' = [gate EXCEPT !.failed = TRUE]
    /\ RequestTermination
    /\ UNCHANGED <<clock, platform, sent, lease, proving, seen, verdict, events, supvars, treevars>>

(* handleControlEvent, one event at a time.                                 *)
HandleControlEvent ==
    /\ run \in {"gate", "launched", "stopping"} /\ events # <<>>
    /\ events' = Tail(events)
    /\ LET e == Head(events) IN
       \/ /\ e.type = "ready"
          /\ MaybeLaunch(TRUE, gate.persisted)
          /\ UNCHANGED seen
       \/ /\ e.type = "launched"
          /\ UNCHANGED <<run, gate, sent, seen, stdin, stdinClosed>>
       \/ /\ e.type \in {"unconfirmed", "exit"}
          /\ seen' = IF e.type = "exit" THEN [seen EXCEPT !.exit = e]
                     ELSE [seen EXCEPT !.unconfirmed = TRUE]
          /\ UNCHANGED <<run, gate, sent, stdin, stdinClosed>>
    /\ UNCHANGED <<clock, platform, lease, proving, verdict, supvars, treevars>>

(* The heartbeat timer: beforeHeartbeat renews the durable lease, and only  *)
(* then is the supervisor told the deadline.  The answer is used without a  *)
(* second look at whether a termination was asked for meanwhile.            *)
HeartbeatStarts ==
    /\ run = "launched" /\ ~proving /\ seen.exit = NoEvent
    /\ Len(stdin) < MaxControl
    /\ proving' = TRUE
    /\ UNCHANGED <<clock, platform, run, gate, sent, lease, seen, verdict, stdin,
                   stdinClosed, events, supvars, treevars>>

HeartbeatProven ==
    /\ proving /\ run \in {"launched", "stopping"}
    /\ proving' = FALSE
    /\ \/ /\ lease > clock
          /\ lease' = clock + RunLeaseMs
          /\ Send([type |-> "heartbeat", deadline |-> Least(clock + WatchdogMs, lease')])
          /\ UNCHANGED <<run, stdinClosed>>
       \/ /\ UNCHANGED lease
          /\ IF run = "launched" THEN RequestTermination
             ELSE UNCHANGED <<run, stdin, stdinClosed>>
    /\ UNCHANGED <<clock, platform, gate, sent, seen, verdict, events, supvars, treevars>>

(* abortHandler, an idle or output limit, a provider error, a rate limit.   *)
AskToStop ==
    /\ Pending
    /\ RequestTermination
    /\ UNCHANGED <<clock, platform, gate, sent, lease, proving, seen, verdict, events, supvars,
                   treevars>>

(* finish(): the first result stands; later control output is not read.     *)
Settle(result) ==
    /\ run' = "settled"
    /\ verdict' = result
    /\ stdinClosed' = TRUE
    /\ events' = <<>>

(* The fallback timer: the supervisor did not report in time; it is killed  *)
(* and the result says so.                                                  *)
TerminationFallback ==
    /\ run = "stopping"
    /\ Settle(IF sent THEN "unconfirmed" ELSE "contained")
    /\ sup' = IF sup = "done" THEN sup ELSE "gone"
    /\ UNCHANGED <<clock, platform, gate, sent, lease, proving, seen, stdin, watchdog, reason,
                   treevars>>

ExitUnconfirmed ==
    \/ seen.unconfirmed
    \/ seen.exit.error = "termination_unconfirmed"
    \/ seen.exit.why = "watchdog_expired" /\ ~seen.exit.confirmed

(* finishFromControlExit: an exit event is the authority, except that a     *)
(* failed launch gate is reported as such.                                  *)
FinishFromControlExit ==
    /\ run \in {"gate", "launched", "stopping"} /\ seen.exit # NoEvent
    /\ Settle(IF (IF gate.failed THEN sent ELSE ExitUnconfirmed)
              THEN "unconfirmed" ELSE "contained")
    /\ UNCHANGED <<clock, platform, gate, sent, lease, proving, seen, stdin, supvars, treevars>>

(* Mutant: a supervisor that is gone ends the run only before the launch.   *)
FinishBeforeLaunch ==
    /\ run \in {"gate", "launched", "stopping"} /\ ~sent
    /\ sup = "gone" /\ events = <<>> /\ seen.exit = NoEvent
    /\ Settle("contained")
    /\ UNCHANGED <<clock, platform, gate, sent, lease, proving, seen, stdin, supvars, treevars>>

(* finishInfrastructureFailure: the supervisor is gone and its control      *)
(* output is drained, without an exit event.                                *)
FinishWithoutResult ==
    /\ run \in {"gate", "launched", "stopping"}
    /\ sup = "gone" /\ events = <<>> /\ seen.exit = NoEvent
    /\ Settle(IF sent THEN "unconfirmed" ELSE "contained")
    /\ UNCHANGED <<clock, platform, gate, sent, lease, proving, seen, stdin, supvars, treevars>>

(* The bridge process dies: its end of every pipe closes.                   *)
BridgeDies ==
    /\ run \in {"gate", "launched", "stopping"}
    /\ run' = "lost"
    /\ stdinClosed' = TRUE
    /\ proving' = FALSE /\ events' = <<>>
    /\ UNCHANGED <<clock, platform, gate, sent, lease, seen, verdict, stdin, supvars, treevars>>

-----------------------------------------------------------------------------
(* Timers of a live supervisor are prompt: the clock does not pass a        *)
(* deadline it still has to act on.                                         *)
RunTick ==
    /\ clock < RunEnd
    /\ run \notin {"settled", "lost"} \/ sup \notin {"done", "gone"}
    /\ ~WatchdogDue
    /\ clock' = clock + 1
    /\ UNCHANGED <<platform, bridgevars, stdin, stdinClosed, events, supvars, treevars>>

ReadsStdin == SupervisorStarts \/ LaunchPayload \/ HandleMessage \/ StdinEnds
WatchesChild == PayloadCloses \/ ExitCloseCheck
Terminates == TerminatePosix \/ TerminateWindows
SupervisorStep ==
    ReadsStdin \/ WatchesChild \/ Terminates \/ SupervisorTimer \/ SupervisorSignalled
BridgeFinish == HandleControlEvent \/ TerminationFallback \/ FinishFromControlExit
                \/ FinishWithoutResult
BridgeStep ==
    \/ PersistIdentity \/ LaunchRefused \/ ControlProtocolBroken \/ HeartbeatStarts \/ HeartbeatProven \/ AskToStop
    \/ BridgeFinish
TreeStep == AgentSpawns \/ AgentExits \/ DescendantExits

RunNext == SupervisorStep \/ BridgeStep \/ TreeStep \/ SupervisorDies \/ BridgeDies \/ RunTick

(* Event loops keep turning and the clock keeps moving; nothing is assumed  *)
(* of the agent.                                                            *)
RunFairness ==
    /\ WF_runvars(ReadsStdin)
    /\ WF_runvars(WatchesChild)
    /\ WF_runvars(Terminates)
    /\ WF_runvars(SupervisorTimer)
    /\ WF_runvars(BridgeFinish)
    /\ WF_runvars(PersistIdentity)
    /\ WF_runvars(RunTick)

RunSpec == RunInit /\ [][RunNext]_runvars /\ RunFairness

-----------------------------------------------------------------------------
(* The run as its caller may see it (AgentLife).  A result without          *)
(* processTreeUnconfirmed frees the provider slot and the path locks, so    *)
(* nothing the supervisor watches may be alive then or come alive later:    *)
(* not by a launch message still in the pipe, not by a descendant, not      *)
(* after the fallback timer.                                                *)
Life == INSTANCE AgentLife
    WITH tree <- IF child = "none" THEN "none" ELSE IF Contained THEN "gone" ELSE "alive",
         result <- verdict
KeepsItsWord == Life!LifeSpec

(* Under a live supervisor the agent never outlives the durable lease the   *)
(* bridge proved: not when renewals fail, not when a heartbeat or the       *)
(* launch waits in the pipe, not when the bridge is gone.                   *)
WithinLease == sup = "running" => clock <= lease

(* The durable lease covers the agent of a live supervisor                  *)
(* (bin/process-supervisor.js, the heartbeats of lib/run-command.js).       *)
AgentCovered == RunTypeOK /\ WithinLease

(* A lost bridge does not leave a supervisor that waits forever.            *)
OrphanStopped == run = "lost" ~> sup \in {"done", "gone"}

(* Every run of a live bridge settles: whoever dies, whatever the agent     *)
(* does, whether or not the supervisor answers.                             *)
RunSettles == run = "gate" ~> run \in {"settled", "lost"}

(* Nobody waits for good, on either side of the pipe (runSupervisedCommand, *)
(* the stdin and the watchdog of the supervisor).                           *)
NobodyWaits == OrphanStopped /\ RunSettles
=============================================================================
