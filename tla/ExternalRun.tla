----------------------------- MODULE ExternalRun -----------------------------
(***************************************************************************)
(* One run of an external agent program (lib/external-runners.js):         *)
(* codex, agy or pi instead of OpenCode.  agy and pi have no sandbox, so a *)
(* guard compares the target checkout, and for agy the operator's profile  *)
(* files, before and after the run.  Other writers use the same checkout   *)
(* meanwhile: integrations of any bridge process, which announce their     *)
(* paths in the journal, and other clients, which announce nothing.        *)
(* The report of pi is a stream of events (lib/pi-runner.js) that may stop *)
(* at any point.                                                           *)
(***************************************************************************)
EXTENDS Integers

CONSTANTS
    Declared,     \* files of the checkout an integration names as affected
    Others        \* its other files

ASSUME ExternalAssumption == Declared \cap Others = {}

VARIABLES
    ext,        \* [runner, reading, apart]: the job, and whether it has a worktree of its own
    step,       \* where the run is
    sidecar,    \* the run's folder exists
    target,     \* who wrote each file of the target checkout last
    profile,    \* a watched profile file was changed since the run began
    before,     \* captureTargetState before the run: [ok, files, profile]
    after,      \* and after it
    journal,    \* an integration in the target checkout: [open, recent]
    started,    \* the agent was started
    errorType,  \* of the result
    paused,     \* "none", "guard" or "limit": the pause the run recorded
    journalRead,\* the journal could be read by the guard
    pi,         \* what pi really does: "idle", "thinking", "tool", "waiting", "stopped", "done"
    heard       \* inspectPiEvents so far: [ended, settled, stop, tools, errors]

externalvars == <<ext, step, sidecar, target, profile, before, after, journal, started, errorType,
                  paused, journalRead, pi, heard>>
world == <<target, profile, journal>>
stream == <<pi, heard>>

Paths == Declared \cup Others
NotTaken == [ok |-> FALSE, files |-> [f \in Paths |-> "clean"], profile |-> FALSE]
Quiet == [ended |-> FALSE, settled |-> FALSE, stop |-> FALSE, tools |-> FALSE, errors |-> FALSE]

(* Types, and the life of the folder: it survives a failed run only.        *)
ExternalTypeOK ==
    /\ sidecar = (step \notin {"asked", "over"} \/ errorType \notin {"none", "refused"})
    /\ step \in {"asked", "folder", "slot", "marked", "captured", "running", "classified",
                 "compared", "over"}
    /\ target \in [Paths -> {"clean", "runner", "bridge", "client"}]
    /\ errorType \in {"none", "refused", "agent", "limited", "doubtful", "unverifiable", "outside"}
    /\ paused \in {"none", "guard", "limit"}
    /\ pi \in {"idle", "thinking", "tool", "waiting", "stopped", "done"}

ExternalInit ==
    /\ ext \in [runner : {"codex", "agy", "pi"}, reading : BOOLEAN, apart : BOOLEAN]
    /\ step = "asked" /\ sidecar = FALSE
    /\ target = [f \in Paths |-> "clean"] /\ profile = FALSE
    /\ before = NotTaken /\ after = NotTaken
    /\ journal \in [open : BOOLEAN, recent : {FALSE}]
    /\ started = FALSE /\ errorType = "none" /\ paused = "none" /\ journalRead = TRUE
    /\ pi = "idle" /\ heard = Quiet

-----------------------------------------------------------------------------
(* guardTarget: only a writer of agy or pi is watched.                      *)
Guarded == ext.runner \in {"agy", "pi"} /\ ~ext.reading /\ ext.apart

RefuseRun ==
    /\ errorType' = "refused" /\ step' = "over" /\ sidecar' = FALSE
    /\ UNCHANGED <<ext, world, before, after, started, paused, journalRead, stream>>

(* What an unsandboxed runner may not do, and an executable that cannot be  *)
(* found, has another hash or is too old.                                   *)
RunnerUnfit == ext.runner \in {"agy", "pi"} /\ (ext.reading \/ ~ext.apart)

CheckRunner ==
    /\ step = "asked"
    /\ \/ RefuseRun
       \/ /\ ~RunnerUnfit
          /\ step' = "folder" /\ sidecar' = TRUE
          /\ UNCHANGED <<ext, world, before, after, started, errorType, paused, journalRead,
                         stream>>

(* pi's environment, the flags, the length of the prompt, then the slot:    *)
(* every refusal from here on removes the folder.                           *)
TakeExternalSlot ==
    /\ step = "folder"
    /\ \/ RefuseRun
       \/ /\ step' = "slot"
          /\ UNCHANGED <<ext, sidecar, world, before, after, started, errorType, paused,
                         journalRead, stream>>

(* guardStartedIso: integrations whose row changes from here on count.      *)
MarkGuard ==
    /\ step = "slot"
    /\ step' = "marked"
    /\ journal' = [journal EXCEPT !.recent = FALSE]
    /\ UNCHANGED <<ext, sidecar, target, profile, before, after, started, errorType, paused,
                   journalRead, stream>>

(* captureTargetState: git status, refs, HEAD and the bytes of the files;   *)
(* git may fail.  For agy the profile fingerprints too.                     *)
Captured == {[ok |-> b, files |-> target, profile |-> profile /\ ext.runner = "agy"] : b \in BOOLEAN}

CaptureBefore ==
    /\ step = "marked"
    /\ before' \in (IF Guarded THEN Captured ELSE {NotTaken})
    /\ step' = "captured"
    /\ UNCHANGED <<ext, sidecar, world, after, started, errorType, paused, journalRead, stream>>

(* Without a verified capture pi is not started at all; agy is.             *)
StartRunner ==
    /\ step = "captured"
    /\ IF ext.runner = "pi" /\ ~before.ok
       THEN step' = "classified" /\ errorType' = "agent" /\ UNCHANGED started
       ELSE step' = "running" /\ started' = TRUE /\ UNCHANGED errorType
    /\ UNCHANGED <<ext, sidecar, world, before, after, paused, journalRead, stream>>

-----------------------------------------------------------------------------
(* While the runner runs: the agent, integrations and other clients.        *)

RunnerStrays(f) ==
    /\ step = "running" /\ Guarded
    /\ target' = [target EXCEPT ![f] = "runner"]
    /\ UNCHANGED <<ext, step, sidecar, profile, before, after, journal, started, errorType,
                   paused, journalRead, stream>>

(* Nobody looks at the checkout of an unguarded run.                        *)
Meanwhile == Guarded /\ step \in {"slot", "marked", "captured", "running", "classified", "compared"}
Writable == Meanwhile /\ step # "compared"

ProfileChanges ==
    /\ Writable /\ ext.runner = "agy" /\ ~profile
    /\ profile' = TRUE
    /\ UNCHANGED <<ext, step, sidecar, target, before, after, journal, started, errorType,
                   paused, journalRead, stream>>

(* Every change of an integration's row stamps it.                          *)
IntegrationRow ==
    /\ Meanwhile
    /\ journal' = [open |-> ~journal.open, recent |-> TRUE]
    /\ UNCHANGED <<ext, step, sidecar, target, profile, before, after, started, errorType,
                   paused, journalRead, stream>>

(* It writes the paths it declared; its validation may write others.        *)
IntegrationWrites(f) ==
    /\ Writable /\ journal.open /\ target[f] # "bridge"
    /\ target' = [target EXCEPT ![f] = "bridge"]
    /\ UNCHANGED <<ext, step, sidecar, profile, before, after, journal, started, errorType,
                   paused, journalRead, stream>>

ClientEdits(f) ==
    /\ Writable /\ target[f] = "clean"
    /\ target' = [target EXCEPT ![f] = "client"]
    /\ UNCHANGED <<ext, step, sidecar, profile, before, after, journal, started, errorType,
                   paused, journalRead, stream>>

-----------------------------------------------------------------------------
(* The stream of pi and what the bridge makes of it.                        *)

Hear(event) ==
    LET heeded == [heard EXCEPT !.settled = event = "agent_settled" /\ heard.ended] IN
    heard' = CASE event = "agent_start" -> [heeded EXCEPT !.ended = FALSE, !.stop = FALSE]
               [] event = "message_stop" -> [heeded EXCEPT !.ended = FALSE, !.stop = TRUE]
               [] event = "message_tool" -> [heeded EXCEPT !.ended = FALSE, !.stop = FALSE]
               [] event = "tool_start" -> [heeded EXCEPT !.tools = TRUE]
               [] event = "tool_end" -> [heeded EXCEPT !.tools = FALSE]
               [] event = "agent_end" -> [heeded EXCEPT !.ended = TRUE]
               [] event = "agent_end_retry" -> [heeded EXCEPT !.ended = FALSE]
               [] event = "agent_settled" -> heeded
               [] event = "error" -> [heeded EXCEPT !.errors = TRUE]

PiStep(from, event, to) ==
    /\ step = "running" /\ ext.runner = "pi" /\ pi = from
    /\ pi' = to
    /\ Hear(event)
    /\ UNCHANGED <<ext, step, sidecar, world, before, after, started, errorType, paused,
                   journalRead>>

PiRuns ==
    \/ PiStep("idle", "agent_start", "thinking")
    \/ PiStep("thinking", "message_tool", "tool")
    \/ PiStep("tool", "tool_start", "tool")
    \/ PiStep("tool", "tool_end", "thinking")
    \/ PiStep("thinking", "message_stop", "stopped")
    \/ PiStep("stopped", "agent_end", "done")
    \/ PiStep("stopped", "agent_end_retry", "waiting")
    \/ PiStep("thinking", "error", "waiting")
    \/ PiStep("waiting", "agent_settled", "idle")
    \/ PiStep("waiting", "agent_start", "thinking")
    \/ PiStep("done", "agent_settled", "done")

(* inspectPiEvents: finalResponseDetected.                                  *)
PiFinal == heard.ended /\ heard.settled /\ heard.stop /\ ~heard.tools /\ ~heard.errors

(* The process ends, by itself or stopped, and the slot is given back or    *)
(* quarantined.  The output is inspected and classifyResultError asks in    *)
(* its order: an end that could not be confirmed, a cancellation or time    *)
(* out, a limit, then the exit and the report.                              *)
RunnerExits ==
    /\ step = "running"
    /\ \E final \in (IF ext.runner = "pi" THEN {PiFinal} ELSE BOOLEAN),
          failed, limited, killed, doubtful \in BOOLEAN :
         errorType' = IF doubtful THEN "doubtful"
                      ELSE IF killed THEN "agent"
                      ELSE IF limited THEN "limited"
                      ELSE IF failed \/ ~final THEN "agent" ELSE "none"
    /\ step' = "classified" /\ pi' = "idle" /\ heard' = Quiet
    /\ UNCHANGED <<ext, sidecar, world, before, after, started, paused, journalRead>>

CaptureAfter ==
    /\ step = "classified"
    /\ after' \in (IF Guarded THEN Captured ELSE {NotTaken})
    /\ step' = "compared"
    /\ UNCHANGED <<ext, sidecar, world, before, started, errorType, paused, journalRead, stream>>

-----------------------------------------------------------------------------
(* The verdict of the guard.                                                *)

Checked == before.ok /\ after.ok
TargetChanges == IF Checked THEN {f \in Paths : before.files[f] # after.files[f]} ELSE {}

(* Mutant: an integration still under way is overlooked.                    *)
RecentOnly == journal.recent

(* bridgeIntegrationPathsSince: rows stamped since the mark or unfinished.  *)
Integrated == journal.recent \/ journal.open

(* Changes outside the declared paths of integrations are blamed on the     *)
(* runner; it is paused only if nothing else the bridge did explains them.  *)
(* An unreadable journal explains nothing.                                  *)
JudgeGuard ==
    /\ step = "compared"
    /\ \E readable \in BOOLEAN :
       LET known == readable /\ Integrated
           outside == IF known THEN TargetChanges \ Declared ELSE TargetChanges
           profiles == ext.runner = "agy" /\ Guarded /\ after.profile # before.profile
           blamed == Guarded /\ (outside # {} \/ profiles) /\ errorType # "doubtful"
           first == IF Guarded /\ ~Checked /\ errorType # "doubtful" THEN "unverifiable" ELSE errorType
           final == IF blamed THEN "outside" ELSE first
       IN
       /\ journalRead' = readable
       /\ errorType' = final
       /\ paused' = IF blamed /\ (profiles \/ ~known) THEN "guard"
                    ELSE IF final = "limited" THEN "limit" ELSE "none"
       /\ sidecar' = (final # "none")
    /\ step' = "over"
    /\ UNCHANGED <<ext, world, before, after, started, stream>>

ExternalNext ==
    \/ CheckRunner \/ TakeExternalSlot \/ MarkGuard \/ CaptureBefore \/ StartRunner
    \/ PiRuns \/ RunnerExits \/ CaptureAfter \/ JudgeGuard
    \/ ProfileChanges \/ IntegrationRow
    \/ \E f \in Paths : RunnerStrays(f) \/ IntegrationWrites(f) \/ ClientEdits(f)

ExternalSpec == ExternalInit /\ [][ExternalNext]_externalvars

-----------------------------------------------------------------------------
(* A run is reported clean only if its guard saw both states, and what the  *)
(* runner left in the checkout is then on a path an integration declared.   *)
CleanIsChecked ==
    step = "over" /\ errorType = "none" /\ Guarded =>
      /\ Checked /\ started
      /\ \A f \in Paths : after.files[f] = "runner" => f \in Declared /\ journalRead

(* The guard pauses a runner for its own deeds or for another client's, not *)
(* for what the bridge itself wrote between the two captures, as long as    *)
(* the journal can be read.                                                 *)
PauseNotForBridge ==
    paused = "guard" /\ journalRead =>
      \/ after.profile # before.profile
      \/ \E f \in Paths : before.files[f] # after.files[f] /\ after.files[f] # "bridge"

(* Wherever the stream of pi is cut off, a report is taken for final only   *)
(* when pi is done.                                                         *)
FinalIsDone == PiFinal => pi = "done"

(* The verdicts on an external runner are about what it did                 *)
(* (finishExternalGuard, the stream of pi-runner.js).                       *)
GuardHonest == ExternalTypeOK /\ CleanIsChecked /\ PauseNotForBridge /\ FinalIsDone
=============================================================================
