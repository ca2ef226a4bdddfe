---------------------------- MODULE ReleaseProofs ----------------------------
(***************************************************************************)
(* Proofs about what surrounds an agent run, for every set of files, runs  *)
(* and modes: the guard around an external runner (ExternalRun) and the    *)
(* activation of releases (ReleaseActivation).                             *)
(***************************************************************************)
EXTENDS ExternalRun, ReleaseActivation, TLAPS

-----------------------------------------------------------------------------
(* The guard of an external runner.                                         *)
Writers == {"clean", "runner", "bridge", "client"}
Captures == [ok : BOOLEAN, files : [Paths -> Writers], profile : BOOLEAN]
ExternalTyped ==
    /\ ext \in [runner : {"codex", "agy", "pi"}, reading : BOOLEAN, apart : BOOLEAN]
    /\ step \in {"asked", "folder", "slot", "marked", "captured", "running", "classified",
                 "compared", "over"}
    /\ target \in [Paths -> Writers] /\ profile \in BOOLEAN
    /\ before \in Captures /\ after \in Captures
    /\ journal \in [open : BOOLEAN, recent : BOOLEAN]
    /\ started \in BOOLEAN /\ journalRead \in BOOLEAN
    /\ errorType \in {"none", "refused", "agent", "limited", "doubtful", "unverifiable", "outside"}
    /\ paused \in {"none", "guard", "limit"}
    /\ pi \in {"idle", "thinking", "tool", "waiting", "stopped", "done"}
    /\ heard \in [ended : BOOLEAN, settled : BOOLEAN, stop : BOOLEAN, tools : BOOLEAN,
                  errors : BOOLEAN]

(* The folder of the run survives a failed run only.                        *)
FolderKept ==
    /\ sidecar \in BOOLEAN
    /\ sidecar <=> (step \notin {"asked", "over"} \/ errorType \notin {"none", "refused"})

(* What is known where the run stands: the first capture was taken before   *)
(* the runner could write, and what the bridge wrote after it has a row.    *)
AfterCapture == step \in {"captured", "running", "classified", "compared"}
GuardSound ==
    /\ step # "over" => paused = "none" /\ errorType # "refused"
    /\ step \in {"asked", "folder", "slot", "marked", "captured"} =>
         errorType = "none" /\ \A f \in Paths : target[f] # "runner"
    /\ \A f \in Paths : before.files[f] # "runner"
    /\ step \in {"classified", "compared"} /\ errorType = "none" => started
    /\ step = "running" => started
    /\ Guarded /\ AfterCapture /\ ~Integrated =>
         \A f \in Paths : target[f] = "bridge" => before.files[f] = "bridge"
    /\ Guarded /\ step = "compared" /\ ~Integrated =>
         \A f \in Paths : after.files[f] = "bridge" => before.files[f] = "bridge"
    /\ heard.ended => pi = "done"

ExternalInv == ExternalTyped /\ FolderKept /\ GuardSound /\ CleanIsChecked /\ PauseNotForBridge

LEMMA ExternalInitInv == ExternalInit => ExternalInv
  <1> SUFFICES ASSUME ExternalInit PROVE ExternalInv
    OBVIOUS
  <1> USE DEF ExternalInit, NotTaken, Quiet
  <1>1. ExternalTyped
    BY DEF ExternalTyped, Captures, Writers
  <1>4. FolderKept
    BY DEF FolderKept
  <1>2. GuardSound
    BY DEF GuardSound, AfterCapture
  <1>3. CleanIsChecked /\ PauseNotForBridge
    BY DEF CleanIsChecked, PauseNotForBridge
  <1> QED BY <1>1, <1>2, <1>3, <1>4 DEF ExternalInv

LEMMA TypesKept ==
    ASSUME ExternalTyped, MarkGuard \/ StartRunner \/ CaptureBefore \/ CaptureAfter
    PROVE  ExternalTyped'
  <1> USE DEF ExternalTyped, world, stream
  <1>1. CASE MarkGuard
    <2>1. UNCHANGED <<ext, target, profile, before, after, started, errorType, paused, journalRead, stream>>
      BY <1>1 DEF MarkGuard
    <2>2. journal' \in [open : BOOLEAN, recent : BOOLEAN]
      BY <1>1 DEF MarkGuard
    <2>3. step' = "marked"
      BY <1>1 DEF MarkGuard
    <2> QED BY <2>1, <2>2, <2>3
  <1>2. CASE StartRunner
    <2>1. UNCHANGED <<ext, target, profile, before, after, paused, journalRead, journal, stream>>
      BY <1>2 DEF StartRunner
    <2>2. step' \in {"classified", "running"} /\ started' \in BOOLEAN /\ errorType' \in {errorType, "agent"}
      BY <1>2 DEF StartRunner
    <2> QED BY <2>1, <2>2
  <1>3. Captured \subseteq Captures /\ NotTaken \in Captures
    <2>1. NotTaken \in Captures
      BY DEF Captures, NotTaken, Writers
    <2>2. ASSUME NEW b \in BOOLEAN
          PROVE  [ok |-> b, files |-> target, profile |-> profile /\ ext.runner = "agy"] \in Captures
      BY DEF Captures
    <2> QED BY <2>1, <2>2 DEF Captured
  <1>4. CASE CaptureBefore
    BY <1>3, <1>4 DEF CaptureBefore
  <1>5. CASE CaptureAfter
    BY <1>3, <1>5 DEF CaptureAfter
  <1> QED BY <1>1, <1>2, <1>4, <1>5

(* Steps that leave the captures, the verdict and the journal alone.        *)
LEMMA StartingSteps ==
    ASSUME ExternalInv, CheckRunner \/ TakeExternalSlot \/ MarkGuard \/ StartRunner
    PROVE  ExternalInv'
  <1> USE DEF ExternalInv, ExternalTyped, FolderKept, GuardSound, AfterCapture, CleanIsChecked,
              PauseNotForBridge, Guarded, Integrated, Checked, RefuseRun, world, stream
  <1>1. CASE CheckRunner
    BY <1>1 DEF CheckRunner
  <1>2. CASE TakeExternalSlot
    BY <1>2 DEF TakeExternalSlot
  <1>3. CASE MarkGuard
    <2>1. ExternalTyped'
      BY <1>3, TypesKept
    <2>2. GuardSound'
      BY <1>3 DEF MarkGuard
    <2>3. FolderKept' /\ CleanIsChecked' /\ PauseNotForBridge'
      BY <1>3 DEF MarkGuard
    <2> QED BY <2>1, <2>2, <2>3
  <1>4. CASE StartRunner
    <2>1. ExternalTyped'
      BY <1>4, TypesKept
    <2>2. GuardSound'
      BY <1>4 DEF StartRunner
    <2>3. FolderKept' /\ CleanIsChecked' /\ PauseNotForBridge'
      BY <1>4 DEF StartRunner
    <2> QED BY <2>1, <2>2, <2>3
  <1> QED BY <1>1, <1>2, <1>3, <1>4

LEMMA WorldSteps ==
    ASSUME ExternalInv,
           \/ ProfileChanges \/ IntegrationRow
           \/ \E f \in Paths : RunnerStrays(f) \/ IntegrationWrites(f) \/ ClientEdits(f)
    PROVE  ExternalInv'
  <1> USE DEF ExternalInv, ExternalTyped, FolderKept, GuardSound, AfterCapture, CleanIsChecked, Writers,
              PauseNotForBridge, Guarded, Integrated, Checked, Meanwhile, Writable, stream
  <1>1. CASE ProfileChanges
    BY <1>1 DEF ProfileChanges
  <1>2. CASE IntegrationRow
    BY <1>2 DEF IntegrationRow
  <1>3. ASSUME NEW f \in Paths, RunnerStrays(f) PROVE ExternalInv'
    BY <1>3 DEF RunnerStrays
  <1>4. ASSUME NEW f \in Paths, IntegrationWrites(f) PROVE ExternalInv'
    BY <1>4 DEF IntegrationWrites
  <1>5. ASSUME NEW f \in Paths, ClientEdits(f) PROVE ExternalInv'
    BY <1>5 DEF ClientEdits
  <1> QED BY <1>1, <1>2, <1>3, <1>4, <1>5

(* A final report needs the end of the agent, and only pi's last event says *)
(* so.                                                                      *)
LEMMA StreamSteps ==
    ASSUME ExternalInv, PiRuns
    PROVE  ExternalInv'
  <1> USE DEF ExternalInv, ExternalTyped, FolderKept, GuardSound, AfterCapture, CleanIsChecked,
              PauseNotForBridge, Guarded, Integrated, Checked, world
  <1>1. /\ UNCHANGED <<ext, step, sidecar, world, before, after, started, errorType, paused,
                       journalRead>>
        /\ heard' \in [ended : BOOLEAN, settled : BOOLEAN, stop : BOOLEAN, tools : BOOLEAN,
                       errors : BOOLEAN]
        /\ pi' \in {"idle", "thinking", "tool", "waiting", "stopped", "done"}
        /\ heard'.ended => pi' = "done"
    <2>1. ASSUME NEW from, NEW event, NEW to \in {"idle", "thinking", "tool", "waiting", "stopped", "done"},
                 PiStep(from, event, to),
                 event \in {"agent_start", "message_stop", "message_tool", "tool_start", "tool_end",
                            "agent_end", "agent_end_retry", "agent_settled", "error"},
                 event = "agent_end" => to = "done",
                 event \in {"tool_start", "tool_end", "agent_settled", "error"} =>
                     to = "done" \/ from # "done"
          PROVE  /\ UNCHANGED <<ext, step, sidecar, world, before, after, started, errorType, paused,
                               journalRead>>
                 /\ heard' \in [ended : BOOLEAN, settled : BOOLEAN, stop : BOOLEAN, tools : BOOLEAN,
                                errors : BOOLEAN]
                 /\ pi' = to
                 /\ heard'.ended => to = "done"
      <3>1. pi = from
        BY <2>1 DEF PiStep
      <3> QED BY <2>1, <3>1 DEF PiStep, Hear
    <2> QED BY <2>1 DEF PiRuns
  <1> QED BY <1>1

LEMMA CapturingSteps ==
    ASSUME ExternalInv, CaptureBefore \/ CaptureAfter
    PROVE  ExternalInv'
  <1> USE DEF ExternalInv, ExternalTyped, FolderKept, GuardSound, AfterCapture, CleanIsChecked, Captures,
              PauseNotForBridge, Guarded, Integrated, Checked, Captured, NotTaken, Writers, world,
              stream
  <1>1. CASE CaptureBefore
    <2>1. ExternalTyped'
      BY <1>1, TypesKept
    <2>2. GuardSound'
      BY <1>1 DEF CaptureBefore
    <2>3. FolderKept' /\ CleanIsChecked' /\ PauseNotForBridge'
      BY <1>1 DEF CaptureBefore
    <2> QED BY <2>1, <2>2, <2>3
  <1>2. CASE CaptureAfter
    <2>1. ExternalTyped'
      BY <1>2, TypesKept
    <2>2. GuardSound'
      BY <1>2 DEF CaptureAfter
    <2>3. FolderKept' /\ CleanIsChecked' /\ PauseNotForBridge'
      BY <1>2 DEF CaptureAfter
    <2> QED BY <2>1, <2>2, <2>3
  <1> QED BY <1>1, <1>2

LEMMA ExitStep ==
    ASSUME ExternalInv, RunnerExits
    PROVE  ExternalInv'
  BY DEF ExternalInv, ExternalTyped, FolderKept, GuardSound, AfterCapture, CleanIsChecked,
         PauseNotForBridge, Guarded, Integrated, Checked, Quiet, RunnerExits, world

(* The verdict: a clean result and a pause are what the two captures say.   *)
LEMMA JudgeStep ==
    ASSUME ExternalInv, JudgeGuard
    PROVE  ExternalInv'
  <1> USE DEF ExternalInv, world, stream
  <1>1. PICK readable \in BOOLEAN :
       LET known == readable /\ Integrated
           strays == IF known THEN TargetChanges \ Declared ELSE TargetChanges
           profiles == ext.runner = "agy" /\ Guarded /\ after.profile # before.profile
           blamed == Guarded /\ (strays # {} \/ profiles) /\ errorType # "doubtful"
           first == IF Guarded /\ ~Checked /\ errorType # "doubtful" THEN "unverifiable" ELSE errorType
           final == IF blamed THEN "outside" ELSE first
       IN
       /\ journalRead' = readable
       /\ errorType' = final
       /\ paused' = IF blamed /\ (profiles \/ ~known) THEN "guard"
                    ELSE IF final = "limited" THEN "limit" ELSE "none"
       /\ sidecar' = (final # "none")
    BY DEF JudgeGuard
  <1> DEFINE known == readable /\ Integrated
             strays == IF known THEN TargetChanges \ Declared ELSE TargetChanges
             profiles == ext.runner = "agy" /\ Guarded /\ after.profile # before.profile
             blamed == Guarded /\ (strays # {} \/ profiles) /\ errorType # "doubtful"
  <1>2. step = "compared" /\ step' = "over" /\ errorType # "refused"
            /\ UNCHANGED <<ext, target, profile, journal, before, after, started, pi, heard>>
    BY DEF JudgeGuard, GuardSound
  <1>3. ExternalTyped'
    BY <1>1, <1>2 DEF ExternalTyped
  <1>4. GuardSound'
    BY <1>2 DEF GuardSound, AfterCapture
  <1>5. CleanIsChecked'
    <2> SUFFICES ASSUME errorType' = "none", Guarded
                 PROVE  /\ Checked /\ started
                        /\ \A f \in Paths : after.files[f] = "runner" => f \in Declared /\ journalRead'
      BY <1>2 DEF CleanIsChecked, Checked, Guarded
    <2>1. errorType = "none" /\ Checked /\ ~blamed
      BY <1>1
    <2>2. started /\ \A f \in Paths : before.files[f] # "runner"
      BY <1>2, <2>1 DEF GuardSound
    <2>3. strays = {}
      BY <2>1
    <2>4. ASSUME NEW f \in Paths, after.files[f] = "runner"
          PROVE  f \in Declared /\ journalRead'
      <3>1. f \in TargetChanges
        BY <2>1, <2>2, <2>4 DEF TargetChanges
      <3> QED BY <1>1, <2>3, <3>1
    <2> QED BY <2>1, <2>2, <2>4
  <1>6. PauseNotForBridge'
    <2> SUFFICES ASSUME paused' = "guard", journalRead', after.profile = before.profile
                 PROVE  \E f \in Paths : before.files[f] # after.files[f] /\ after.files[f] # "bridge"
      BY <1>2 DEF PauseNotForBridge
    <2>1. Guarded /\ ~Integrated /\ TargetChanges # {}
      BY <1>1
    <2>2. \A f \in Paths : after.files[f] = "bridge" => before.files[f] = "bridge"
      BY <1>2, <2>1 DEF GuardSound
    <2> QED BY <2>1, <2>2 DEF TargetChanges
  <1>7. FolderKept'
    BY <1>1, <1>2 DEF FolderKept
  <1> QED BY <1>3, <1>4, <1>5, <1>6, <1>7

LEMMA ExternalStepInv == ExternalInv /\ [ExternalNext]_externalvars => ExternalInv'
  <1> SUFFICES ASSUME ExternalInv, [ExternalNext]_externalvars PROVE ExternalInv'
    OBVIOUS
  <1>1. CASE UNCHANGED externalvars
    BY <1>1 DEF externalvars, ExternalInv, ExternalTyped, FolderKept, GuardSound, AfterCapture,
                CleanIsChecked,             PauseNotForBridge, Guarded, Integrated, Checked, world, stream
  <1> QED BY <1>1, StartingSteps, WorldSteps, StreamSteps, CapturingSteps, ExitStep, JudgeStep
          DEF ExternalNext

(* A verdict on an external runner is about what it did: a run reported     *)
(* clean was compared, a pause is not for the bridge's own writes, a final  *)
(* report is one of a pi that is done (finishExternalGuard, inspectPiEvents).*)
THEOREM VerdictsHonest == ExternalSpec => []GuardHonest
  <1>1. ExternalInv => GuardHonest
    BY DEF ExternalInv, ExternalTyped, FolderKept, Writers, GuardSound, GuardHonest, ExternalTypeOK, FinalIsDone,
           PiFinal
  <1> QED BY <1>1, ExternalInitInv, ExternalStepInv, PTL DEF ExternalSpec

-----------------------------------------------------------------------------
(* The activation of releases.                                              *)
Texts == [entry : Folders \cup {"tree"}, pin : Trees, note : Nat]
Runs ==
    [at : RunPlaces, from : Folders \cup {"none", "tree"}, gate : Trees \cup {"none"},
     copy : Trees \cup {"none"}, blink : BOOLEAN, orig : Texts \cup {Nowhere},
     wrote : Texts \cup {Nowhere}, good : BOOLEAN, cur : Folders \cup {"none", "tree"}]
RelTyped ==
    /\ tree \in [now : Trees, head : Trees]
    /\ disk \in [Folders -> Trees \cup {"none", "meddled"}]
    /\ manifest \in [Folders -> Trees \cup {"none"}]
    /\ config \in Texts
    /\ {claude, saved} \subseteq Folders \cup {"none", "tree"} /\ inUse \subseteq Folders
    /\ rel \in [Activators -> Runs]
    /\ late \in BOOLEAN /\ lost \in BOOLEAN /\ overlap \in BOOLEAN

(* The places of a run: before it has a text to write, with one, past it.   *)
Building == {"start", "gate", "stage", "publish", "digest", "health"}
Writing == {"assert", "rename", "smoke", "reassert", "restore"}
Written == {"smoke", "reassert", "restore"}
AtClaude == {"claude", "save", "remove", "add", "readd", "prune"}
Core(r) == rel[r].at \in Written \cup AtClaude
Past(r) == rel[r].at \notin Building \cup {"assert", "rename"}

(* What a run published is the tree it tested, or the tree moved meanwhile. *)
Tested(r) == manifest[r] = rel[r].gate \/ rel[r].blink
RunSound(r) ==
    /\ rel[r].at \in Building => rel[r].wrote = Nowhere
    /\ rel[r].at \in Building \ {"start"} => mode[r] # "sync"
    /\ rel[r].at \in Building \cup Writing \cup {"cleanup"} => ~rel[r].good
    /\ rel[r].at = "publish" => rel[r].copy \in Trees /\ (rel[r].copy = tree.now \/ rel[r].blink)
    /\ rel[r].at = "digest" => manifest[r] = tree.now \/ rel[r].blink
    /\ rel[r].at = "health" => Tested(r)
    /\ mode[r] # "sync" /\ (rel[r].at \in Writing \/ rel[r].good) => Tested(r)
    /\ rel[r].at = "prune" => mode[r] = "prune"
    /\ rel[r].at \in {"digest", "health"} => manifest[r] \in Trees
    /\ rel[r].good => rel[r].wrote # Nowhere

(* A text that names a release names a run that is past its write, and pins *)
(* what was published.                                                      *)
Names(t) ==
    /\ t \in Texts
    /\ t.entry \in Folders => t.pin = manifest[t.entry]
    /\ t.entry \in Activators =>
         Past(t.entry) /\ mode[t.entry] # "sync" /\ rel[t.entry].wrote # Nowhere
TextSound(r) ==
    /\ rel[r].at \in {"health"} \cup Writing => Names(rel[r].orig)
    /\ rel[r].at \in Writing =>
         /\ rel[r].wrote \in Texts /\ rel[r].wrote.note = rel[r].orig.note
         /\ IF mode[r] = "sync" THEN Names(rel[r].wrote) /\ rel[r].wrote.entry = rel[r].orig.entry
            ELSE rel[r].wrote.entry = r /\ rel[r].wrote.pin = manifest[r]
    /\ rel[r].at \in {"rename", "restore"} /\ ~late => config.note = rel[r].orig.note

(* Two runs are not past their write at once, unless the history says so.   *)
Alone ==
    \/ overlap
    \/ /\ \A r, o \in Activators : Core(r) /\ Core(o) => r = o
       /\ \A r \in Activators : Core(r) /\ mode[r] # "sync" => config.entry = r
       /\ \A r, o \in Activators :
            rel[o].at \in Written /\ rel[o].orig.entry = r => r # o /\ ~InTail(r)

(* A text that can go live names a release that is there, or a candidate    *)
(* that another run pruned before its check.                                *)
Excused(t) ==
    \E r, o \in Activators : /\ r # o /\ mode[o] = "prune" /\ ~rel[r].good
                             /\ rel[r].wrote.entry = t.entry /\ rel[r].wrote.pin = t.pin
Stands(t) == t.entry \in Folders => disk[t.entry] # "none" \/ Excused(t)
DiskSound ==
    /\ overlap \/ Stands(config)
    /\ \A r \in Activators :
         /\ rel[r].at \in Written => overlap \/ Stands(rel[r].orig)
         /\ rel[r].at \in {"digest", "health", "assert", "rename"} /\ mode[r] # "sync" =>
              disk[r] # "none" \/ \E o \in Activators \ {r} : mode[o] = "prune"

UseSound ==
    \A f \in inUse : /\ disk[f] # "none" \/ overlap \/ (f \in Activators /\ ~rel[f].good)
                     /\ f \in Activators => mode[f] # "sync"

(* Claude Code's entry is on the disk or in the recovery file.              *)
EntrySound ==
    /\ EntryRecoverable
    /\ \A r \in Activators :
         /\ rel[r].at \in {"save", "remove", "add"} => rel[r].cur # "none"
         /\ rel[r].at = "remove" => saved # "none" \/ overlap

RelInv ==
    /\ RelTyped /\ EditsKept /\ Names(config)
    /\ \A r \in Activators : RunSound(r) /\ TextSound(r)
    /\ Alone /\ DiskSound /\ UseSound /\ EntrySound

-----------------------------------------------------------------------------
(* The names of the folders are no other words of a configuration.          *)
LEMMA FoldersAreNames ==
    /\ "tree" \notin Folders /\ "none" \notin Folders /\ Activators \subseteq Folders
    /\ Nowhere \notin Texts
    /\ \A t \in Texts : t.entry # Nowhere.entry
  BY ReleaseAssumption DEF Folders, Texts, Nowhere, Trees

LEMMA ReleaseInitInv == ReleaseInit => RelInv
  <1> SUFFICES ASSUME ReleaseInit PROVE RelInv
    OBVIOUS
  <1> USE FoldersAreNames DEF ReleaseInit
  <1>1. NewRun \in Runs /\ NewRun.at = "start" /\ NewRun.wrote = Nowhere /\ ~NewRun.good
            /\ NewRun.cur = "none"
    BY DEF NewRun, Runs, RunPlaces
  <1>2. config \in Texts /\ config.entry \in {"old", "tree"} /\ config.pin = "t1"
    BY DEF Texts, Folders, Trees
  <1>3. \A f \in Folders : disk[f] = (IF f \in Activators THEN "none" ELSE "t1")
                           /\ manifest[f] = disk[f]
    OBVIOUS
  <1>4. \A r \in Activators : rel[r] = NewRun
    OBVIOUS
  <1>5. "old" \in Folders /\ "older" \in Folders /\ "old" \notin Activators /\ "older" \notin Activators
    BY ReleaseAssumption DEF Folders
  <1>6. RelTyped
    <2>1. disk \in [Folders -> Trees \cup {"none", "meddled"}] /\ manifest \in [Folders -> Trees \cup {"none"}]
      BY DEF Trees
    <2>2. tree \in [now : Trees, head : Trees]
      BY DEF Trees
    <2>3. rel \in [Activators -> Runs]
      BY <1>1
    <2> HIDE DEF ReleaseInit
    <2>4. {claude, saved} \subseteq Folders \cup {"none", "tree"} /\ inUse \subseteq Folders
              /\ late \in BOOLEAN /\ lost \in BOOLEAN /\ overlap \in BOOLEAN
      BY <1>2, <1>5 DEF ReleaseInit
    <2> QED BY <1>2, <2>1, <2>2, <2>3, <2>4 DEF RelTyped
  <1>7. Names(config)
    BY <1>2, <1>3, <1>5 DEF Names
  <1>8. \A r \in Activators : RunSound(r) /\ TextSound(r)
    BY <1>1, <1>4 DEF RunSound, TextSound, Writing, Building
  <1>9. Alone
    BY <1>1, <1>4 DEF Alone, Core, Written, AtClaude
  <1>10. DiskSound /\ UseSound
    BY <1>1, <1>2, <1>3, <1>4, <1>5 DEF DiskSound, UseSound, Stands, Written
  <1>11. EditsKept
    BY DEF EditsKept
  <1>12. EntrySound
    BY <1>1, <1>2, <1>4 DEF EntrySound, EntryRecoverable
  <1> QED BY <1>6, <1>7, <1>8, <1>9, <1>10, <1>11, <1>12 DEF RelInv

(* A step of one run leaves the others where they are.                      *)
Moved(r) == rel' \in [Activators -> Runs] /\ \A o \in Activators \ {r} : rel'[o] = rel[o]
Same(r) ==
    /\ rel'[r].from = rel[r].from /\ rel'[r].gate = rel[r].gate /\ rel'[r].copy = rel[r].copy
    /\ rel'[r].blink = rel[r].blink /\ rel'[r].orig = rel[r].orig
    /\ rel'[r].wrote = rel[r].wrote /\ rel'[r].good = rel[r].good /\ rel'[r].cur = rel[r].cur

LEMMA StepsMoves ==
    ASSUME RelTyped, NEW r \in Activators, NEW p \in RunPlaces, Steps(r, p)
    PROVE  Moved(r) /\ Same(r) /\ rel'[r].at = p
  <1>1. rel \in [Activators -> Runs] /\ rel[r] \in Runs
    BY DEF RelTyped
  <1>2. rel' = [rel EXCEPT ![r] = [rel[r] EXCEPT !.at = p]]
    BY DEF Steps
  <1>3. [rel[r] EXCEPT !.at = p] \in Runs
    BY <1>1 DEF Runs
  <1>4. rel'[r] = [rel[r] EXCEPT !.at = p]
    BY <1>1, <1>2
  <1>5. Moved(r)
    BY <1>1, <1>2, <1>3 DEF Moved
  <1>6. Same(r) /\ rel'[r].at = p
    BY <1>1, <1>4 DEF Same, Runs
  <1> QED BY <1>5, <1>6

(* How a run moves that neither writes the config nor publishes.            *)
Published(r) ==
    /\ disk' \in [Folders -> Trees \cup {"none", "meddled"}]
    /\ manifest' \in [Folders -> Trees \cup {"none"}]
    /\ \A f \in Folders : disk[f] # "none" => disk'[f] # "none"
    /\ ~Past(r) /\ \A f \in Folders \ {r} : manifest'[f] = manifest[f]
Frame(r) ==
    /\ UNCHANGED <<mode, tree, config, late, lost>>
    /\ manifest' = manifest \/ Published(r)
    /\ overlap => overlap'
Transit(r) ==
    /\ Past(r) => Past(r)'
    /\ Core(r)' => \/ Core(r) \/ overlap'
                   \/ mode[r] = "sync" /\ \A o \in Activators \ {r} : ~InTail(o)
    /\ InTail(r)' => InTail(r) \/ ~Past(r)
    /\ rel'[r].at \in Written => rel[r].at \in Written /\ rel'[r].orig = rel[r].orig
    /\ rel'[r].wrote = rel[r].wrote \/ rel[r].wrote = Nowhere

LEMMA NamesStay ==
    ASSUME RelInv, NEW r \in Activators, Moved(r), mode' = mode,
           manifest' = manifest \/ Published(r), Past(r) => Past(r)', rel'[r].wrote = rel[r].wrote \/ rel[r].wrote = Nowhere,
           NEW t, Names(t)
    PROVE  /\ t \in Texts
           /\ t.entry \in Folders => t.pin = manifest'[t.entry]
           /\ t.entry \in Activators =>
                Past(t.entry)' /\ mode'[t.entry] # "sync" /\ rel'[t.entry].wrote # Nowhere
  BY FoldersAreNames DEF Names, Moved, Past, Published

LEMMA OthersStay ==
    ASSUME RelInv, NEW r \in Activators, Frame(r), Moved(r), Transit(r)
    PROVE  /\ Names(config)' /\ EditsKept' /\ Alone'
           /\ \A o \in Activators \ {r} : RunSound(o)' /\ TextSound(o)'
  <1>1. Names(config)'
    BY NamesStay DEF RelInv, Names, Frame, Transit
  <1>2. EditsKept'
    BY DEF RelInv, EditsKept, Frame
  <1>3. Alone'
    <2> SUFFICES ASSUME ~overlap, ~overlap' PROVE Alone'
      BY DEF Alone, Frame
    <2>1. /\ \A a, o \in Activators : Core(a) /\ Core(o) => a = o
          /\ \A a \in Activators : Core(a) /\ mode[a] # "sync" => config.entry = a
          /\ \A a, o \in Activators :
               rel[o].at \in Written /\ rel[o].orig.entry = a => a # o /\ ~InTail(a)
      BY DEF RelInv, Alone
    <2>2. /\ \A o \in Activators \ {r} : Core(o)' => Core(o) /\ InTail(o)
          /\ Core(r)' => Core(r) \/ (mode[r] = "sync" /\ \A o \in Activators \ {r} : ~InTail(o))
      BY DEF Moved, Transit, Core, InTail, Written, AtClaude
    <2>3. \A o \in Activators : rel'[o].at \in Written =>
              rel[o].at \in Written /\ rel'[o].orig = rel[o].orig
      BY DEF Moved, Transit
    <2>4. \A o \in Activators : InTail(o)' => InTail(o) \/ (o = r /\ ~Past(r))
      <3>1. ASSUME NEW o \in Activators \ {r} PROVE InTail(o)' => InTail(o)
        <4>1. rel'[o] = rel[o]
          BY DEF Moved
        <4> QED BY <4>1 DEF InTail, Is
      <3>2. InTail(r)' => InTail(r) \/ ~Past(r)
        BY DEF Transit
      <3> QED BY <3>1, <3>2
    <2>5. \A o \in Activators : rel[o].at \in Written => Names(rel[o].orig)
      BY DEF RelInv, TextSound, Written, Writing
    <2>6. \A o \in Activators : rel[o].at \in Written /\ rel[o].orig.entry = r => Past(r)
      BY <2>5 DEF Names
    <2> QED BY <2>1, <2>2, <2>3, <2>4, <2>6 DEF Alone, Frame
  <1>4. ASSUME NEW o \in Activators \ {r} PROVE RunSound(o)' /\ TextSound(o)'
    <2>1. rel'[o] = rel[o] /\ RunSound(o) /\ TextSound(o)
      BY DEF Moved, RelInv
    <2>6. manifest'[o] = manifest[o]
      BY FoldersAreNames DEF Frame, Published
    <2>2. RunSound(o)'
      BY <2>1, <2>6 DEF RunSound, Tested, Frame
    <2>4. Names(rel[o].orig) => Names(rel[o].orig)'
      BY <2>1, NamesStay DEF Names, Frame, Transit
    <2>5. Names(rel[o].wrote) => Names(rel[o].wrote)'
      BY <2>1, NamesStay DEF Names, Frame, Transit
    <2> QED BY <2>1, <2>2, <2>4, <2>5, <2>6 DEF TextSound, Frame
  <1> QED BY <1>1, <1>2, <1>3, <1>4

(* While the disk and what is in use stay, so does what stands on it.       *)
LEMMA DiskStays ==
    ASSUME RelInv, NEW r \in Activators, Moved(r), UNCHANGED <<mode, inUse, config>>,
           disk' = disk \/ Published(r),
           overlap => overlap', rel'[r].good = rel[r].good,
           rel'[r].wrote = rel[r].wrote \/ rel[r].wrote = Nowhere,
           rel'[r].at \in Written => rel[r].at \in Written /\ rel'[r].orig = rel[r].orig,
           rel'[r].at \in {"digest", "health", "assert", "rename"} /\ mode[r] # "sync" =>
               rel[r].at \in {"digest", "health", "assert", "rename"} \/ disk'[r] # "none"
    PROVE  DiskSound' /\ UseSound'
  <1>0. \A f \in Folders : disk[f] # "none" => disk'[f] # "none"
    BY DEF Published
  <1>1. \A t \in Texts : Excused(t) => Excused(t)'
    BY FoldersAreNames DEF Excused, Moved
  <1>2. \A t \in Texts : Stands(t) => Stands(t)'
    BY <1>0, <1>1 DEF Stands
  <1>3. config \in Texts /\ \A o \in Activators : rel[o].at \in Written => rel[o].orig \in Texts
    BY DEF RelInv, Names, TextSound, Written, Writing
  <1>4. Stands(config) => Stands(config)'
    BY <1>2, <1>3 DEF Stands, Excused
  <1>5. ASSUME NEW o \in Activators, rel'[o].at \in Written, ~overlap'
        PROVE  Stands(rel[o].orig)' 
    <2>1. rel[o].at \in Written /\ rel'[o].orig = rel[o].orig /\ Stands(rel[o].orig)
      BY <1>5 DEF Moved, RelInv, DiskSound
    <2> QED BY <1>2, <1>3, <2>1 DEF Stands, Excused
  <1>6. \A o \in Activators : 
           rel'[o].at \in {"digest", "health", "assert", "rename"} /\ mode[o] # "sync" =>
              disk'[o] # "none" \/ \E q \in Activators \ {o} : mode[q] = "prune"
    BY <1>0, FoldersAreNames DEF Moved, RelInv, DiskSound
  <1>7. DiskSound'
    BY <1>4, <1>5, <1>6 DEF DiskSound, RelInv
  <1>8. UseSound'
    BY <1>0 DEF UseSound, RelInv, RelTyped, Moved
  <1> QED BY <1>7, <1>8

(* A quiet step: Claude Code's entry apart, only the run itself moves.      *)
Quietly(r) ==
    /\ UNCHANGED <<mode, tree, config, inUse, late, lost>>
    /\ UNCHANGED <<disk, manifest>> \/ Published(r)
    /\ (overlap => overlap') /\ overlap' \in BOOLEAN
    /\ {claude', saved'} \subseteq Folders \cup {"none", "tree"}
    /\ Moved(r) /\ Transit(r)
    /\ rel'[r].good = rel[r].good
    /\ rel'[r].at \in {"digest", "health", "assert", "rename"} /\ mode[r] # "sync" =>
           rel[r].at \in {"digest", "health", "assert", "rename"} \/ disk'[r] # "none"
    /\ RunSound(r)' /\ TextSound(r)'

LEMMA QuietStep ==
    ASSUME RelInv, NEW r \in Activators, Quietly(r), EntrySound'
    PROVE  RelInv'
  <1>1. Frame(r) /\ Moved(r) /\ Transit(r)
    BY DEF Quietly, Frame
  <1>2. RelTyped'
    BY DEF RelInv, RelTyped, Quietly, Moved, Published
  <1>3. DiskSound' /\ UseSound'
    BY DiskStays DEF Quietly, Transit
  <1>4. \A o \in Activators : RunSound(o)' /\ TextSound(o)'
    BY <1>1, OthersStay DEF Quietly
  <1> QED BY <1>1, <1>2, <1>3, <1>4, OthersStay DEF RelInv

(* Claude Code's entry stays recoverable while nobody touches it.           *)
LEMMA EntryStays ==
    ASSUME RelInv, NEW r \in Activators, Moved(r), UNCHANGED <<claude, saved>>,
           overlap => overlap', rel'[r].cur = rel[r].cur,
           rel'[r].at \in {"save", "remove", "add"} => rel'[r].at = rel[r].at
    PROVE  EntrySound'
  BY DEF RelInv, EntrySound, EntryRecoverable, Moved

(* The runs up to the candidate's check, and what only moves a run on.      *)
LEMMA PassingSteps ==
    ASSUME RelInv, NEW r \in Activators, NEW p \in RunPlaces, Steps(r, p),
           UNCHANGED <<mode, tree, disk, manifest, config, claude, saved, inUse, late, lost>>,
           overlap => overlap', overlap' \in BOOLEAN,
           \/ rel[r].at = "gate" /\ p \in {"stage", "done"}
           \/ rel[r].at = "health" /\ p \in {"cleanup", "done"}
           \/ rel[r].at = "publish" /\ p = "done"
           \/ rel[r].at = "smoke" /\ p = "reassert"
           \/ rel[r].at = "assert" /\ p \in {"rename", "cleanup", "done"} /\ (p = "rename" => config = rel[r].orig)
           \/ rel[r].at = "reassert" /\ p \in {"restore", "cleanup", "done"} /\ (p = "restore" => config = rel[r].wrote)
           \/ rel[r].at \in {"rename", "restore", "cleanup"} /\ p \in {"cleanup", "done"}
           \/ rel[r].at # "start" /\ p = "crashed"
           \/ rel[r].at = "start" /\ p = "done"
    PROVE  RelInv'
  <1>1. Moved(r) /\ Same(r) /\ rel'[r].at = p
    BY StepsMoves DEF RelInv
  <1>2. rel[r] \in Runs
    BY DEF RelInv, RelTyped
  <1>3. EntrySound'
    BY <1>1, EntryStays DEF Same
  <1>4. Transit(r)
    <2>1. Past(r) => Past(r)'
      BY <1>1 DEF Past, Building
    <2>2. Core(r)' => Core(r)
      BY <1>1 DEF Core, Written, AtClaude
    <2>3. InTail(r)' => InTail(r) \/ ~Past(r)
      BY <1>1 DEF InTail, Is, Past, Building, Same
    <2>4. rel'[r].at \in Written => rel[r].at \in Written /\ rel'[r].orig = rel[r].orig
      BY <1>1 DEF Written, Same
    <2> QED BY <1>1, <2>1, <2>2, <2>3, <2>4 DEF Transit, Same
  <1>5. RunSound(r)'
    BY <1>1 DEF RelInv, RunSound, Tested, Same, Building, Writing
  <1>6. TextSound(r)'
    <2>2. Names(rel[r].orig) => Names(rel[r].orig)'
      BY <1>1, <1>4, NamesStay DEF Names, Transit, Same
    <2>3. Names(rel[r].wrote) => Names(rel[r].wrote)'
      BY <1>1, <1>4, NamesStay DEF Names, Transit, Same
    <2>4. TextSound(r)
      BY DEF RelInv
    <2> QED BY <1>1, <2>2, <2>3, <2>4 DEF TextSound, Same, Writing
  <1>7. Quietly(r)
    BY <1>1, <1>4, <1>5, <1>6 DEF Quietly, Same, RelInv, RelTyped
  <1> QED BY <1>3, <1>7, QuietStep

(* The steps that take a reading of the world for the run's own use.        *)
LEMMA StartStep ==
    ASSUME RelInv, NEW r \in Activators, StartRun(r)
    PROVE  RelInv'
  <1>1. rel[r] \in Runs /\ config \in Texts /\ rel \in [Activators -> Runs] /\ tree.now \in Trees
    BY DEF RelInv, RelTyped
  <1>2. PICK p \in {"gate", "done"} :
          rel' = [rel EXCEPT ![r].from = config.entry, ![r].at = p, ![r].gate = tree.now]
    BY DEF StartRun
  <1>3. /\ rel'[r] = [rel[r] EXCEPT !.from = config.entry, !.at = p, !.gate = tree.now]
        /\ rel'[r] \in Runs
    <2>1. config.entry \in Folders \cup {"none", "tree"} /\ p \in RunPlaces
      BY <1>1 DEF Texts, RunPlaces
    <2>2. rel'[r] = [rel[r] EXCEPT !.from = config.entry, !.at = p, !.gate = tree.now]
      BY <1>1, <1>2
    <2> QED BY <1>1, <2>1, <2>2 DEF Runs
  <1>4. Moved(r)
    BY <1>1, <1>2, <1>3 DEF Moved
  <1>5. /\ rel[r].at = "start" /\ rel'[r].at = p /\ rel'[r].wrote = rel[r].wrote
        /\ rel'[r].good = rel[r].good /\ rel'[r].cur = rel[r].cur
    BY <1>1, <1>3 DEF StartRun, Is, Runs
  <1>6. UNCHANGED <<tree, disk, manifest, config, claude, saved, inUse, mode, late, lost, overlap>>
    BY DEF StartRun, outside
  <1>7. RunSound(r)' /\ TextSound(r)'
    BY <1>5, <1>6 DEF RelInv, RunSound, TextSound, Building, Writing, StartRun
  <1>8. Transit(r)
    BY <1>5 DEF Transit, Past, Core, InTail, Is, Building, Written, AtClaude
  <1>9. Quietly(r)
    BY <1>4, <1>5, <1>6, <1>7, <1>8 DEF Quietly, RelInv, RelTyped
  <1>10. EntrySound'
    BY <1>4, <1>5, <1>6, EntryStays
  <1> QED BY <1>9, <1>10, QuietStep

LEMMA StageStep ==
    ASSUME RelInv, NEW r \in Activators, StageRelease(r)
    PROVE  RelInv'
  <1>1. rel[r] \in Runs /\ rel \in [Activators -> Runs] /\ tree.now \in Trees
    BY DEF RelInv, RelTyped
  <1>2. rel' = [rel EXCEPT ![r].copy = tree.now, ![r].at = "publish"]
    BY DEF StageRelease
  <1>3. /\ rel'[r] = [rel[r] EXCEPT !.copy = tree.now, !.at = "publish"]
        /\ rel'[r] \in Runs
    BY <1>1, <1>2 DEF Runs, RunPlaces
  <1>4. Moved(r)
    BY <1>1, <1>2, <1>3 DEF Moved
  <1>5. /\ rel[r].at = "stage" /\ rel'[r].at = "publish" /\ rel'[r].wrote = rel[r].wrote
        /\ rel'[r].good = rel[r].good /\ rel'[r].cur = rel[r].cur /\ rel'[r].copy = tree.now
    BY <1>1, <1>3 DEF StageRelease, Is, Runs
  <1>6. UNCHANGED <<tree, disk, manifest, config, claude, saved, inUse, mode, late, lost, overlap>>
    BY DEF StageRelease, outside
  <1>7. RunSound(r)' /\ TextSound(r)'
    BY <1>1, <1>5, <1>6 DEF RelInv, RunSound, TextSound, Building, Writing
  <1>8. Transit(r)
    BY <1>5 DEF Transit, Past, Core, InTail, Is, Building, Written, AtClaude
  <1>9. Quietly(r)
    BY <1>4, <1>5, <1>6, <1>7, <1>8 DEF Quietly, RelInv, RelTyped
  <1>10. EntrySound'
    BY <1>4, <1>5, <1>6, EntryStays
  <1> QED BY <1>9, <1>10, QuietStep

(* The tree is the gated one still, or it moved while it was copied.        *)
LEMMA RedigestStep ==
    ASSUME RelInv, NEW r \in Activators, Redigest(r)
    PROVE  RelInv'
  <1>1. rel[r] \in Runs /\ rel \in [Activators -> Runs] /\ config \in Texts
    BY DEF RelInv, RelTyped
  <1>2. UNCHANGED <<tree, disk, manifest, config, claude, saved, inUse, mode, late, lost, overlap>>
            /\ rel[r].at = "digest"
    BY DEF Redigest, Is, outside
  <1>3. CASE tree.now = rel[r].gate
    <2>1. rel' = [rel EXCEPT ![r].at = "health", ![r].orig = config]
      BY <1>3 DEF Redigest
    <2>2. rel'[r] = [rel[r] EXCEPT !.at = "health", !.orig = config] /\ rel'[r] \in Runs
      BY <1>1, <2>1 DEF Runs, RunPlaces
    <2>3. Moved(r)
      BY <1>1, <2>1, <2>2 DEF Moved
    <2>4. /\ rel'[r].at = "health" /\ rel'[r].wrote = rel[r].wrote /\ rel'[r].gate = rel[r].gate
          /\ rel'[r].good = rel[r].good /\ rel'[r].cur = rel[r].cur /\ rel'[r].orig = config
          /\ rel'[r].blink = rel[r].blink
      BY <1>1, <2>2 DEF Runs
    <2>5. Transit(r)
      BY <1>2, <2>4 DEF Transit, Past, Core, InTail, Is, Building, Written, AtClaude
    <2>6. RunSound(r)'
      BY <1>2, <1>3, <2>4 DEF RelInv, RunSound, Tested, Building, Writing
    <2>7. Names(config)'
      BY <1>2, <2>3, <2>5, OthersStay DEF Frame
    <2>8. TextSound(r)'
      BY <1>2, <2>4, <2>7 DEF TextSound, Writing
    <2>9. Quietly(r)
      BY <1>2, <2>3, <2>4, <2>5, <2>6, <2>8 DEF Quietly, RelInv, RelTyped
    <2>10. EntrySound'
      BY <1>2, <2>3, <2>4, EntryStays
    <2> QED BY <2>9, <2>10, QuietStep
  <1>4. CASE tree.now # rel[r].gate
    <2>1. rel' = [rel EXCEPT ![r].at = "cleanup"]
      BY <1>4 DEF Redigest
    <2>2. Moved(r) /\ Same(r) /\ rel'[r].at = "cleanup"
      BY <2>1, StepsMoves DEF RelInv, Steps, RunPlaces
    <2>3. rel[r].wrote = Nowhere
      BY <1>2 DEF RelInv, RunSound, Building
    <2>4. Transit(r)
      BY <1>2, <2>2, <2>3 DEF Transit, Past, Core, InTail, Is, Building, Written, AtClaude, Same
    <2>5. RunSound(r)' /\ TextSound(r)'
      BY <1>2, <2>2 DEF RelInv, RunSound, TextSound, Building, Writing, Same
    <2>6. Quietly(r)
      BY <1>2, <2>2, <2>4, <2>5 DEF Quietly, RelInv, RelTyped, Same
    <2>7. EntrySound'
      BY <1>2, <2>2, EntryStays DEF Same
    <2> QED BY <2>6, <2>7, QuietStep
  <1> QED BY <1>3, <1>4

(* The candidate passed its check: what will be written is decided.         *)
LEMMA CheckStep ==
    ASSUME RelInv, NEW r \in Activators, CheckCandidate(r)
    PROVE  RelInv'
  <1>1. rel[r] \in Runs /\ rel \in [Activators -> Runs] /\ config \in Texts
    BY DEF RelInv, RelTyped
  <1>2. UNCHANGED <<tree, disk, manifest, config, claude, saved, inUse, mode, late, lost, overlap>>
            /\ rel[r].at = "health"
    BY DEF CheckCandidate, Is, outside
  <1>3. CASE Steps(r, "cleanup") \/ Steps(r, "done")
    BY <1>2, <1>3, PassingSteps DEF RunPlaces, RelInv, RelTyped
  <1>4. ASSUME rel' = [rel EXCEPT ![r].at = "assert",
                                  ![r].wrote = Rewritten(rel[r].orig, r, manifest[r])]
        PROVE  RelInv'
    <2> DEFINE text == Rewritten(rel[r].orig, r, manifest[r])
    <2>1. RunSound(r) /\ TextSound(r)
      BY DEF RelInv
    <2>2. rel[r].orig \in Texts /\ manifest[r] \in Trees /\ Names(rel[r].orig)
      BY <1>2, <2>1 DEF RunSound, TextSound, Names
    <2>3. text \in Texts /\ text.entry = r /\ text.pin = manifest[r] /\ text.note = rel[r].orig.note
      BY <2>2, FoldersAreNames DEF Rewritten, Texts
    <2> HIDE DEF text
    <2>4. rel'[r] = [rel[r] EXCEPT !.at = "assert", !.wrote = text] /\ rel'[r] \in Runs
      BY <1>1, <1>4, <2>3 DEF Runs, RunPlaces, text
    <2>5. Moved(r)
      BY <1>1, <1>4, <2>4 DEF Moved
    <2>6. /\ rel'[r].at = "assert" /\ rel'[r].wrote = text /\ rel'[r].orig = rel[r].orig
          /\ rel'[r].good = rel[r].good /\ rel'[r].cur = rel[r].cur /\ rel'[r].gate = rel[r].gate
          /\ rel'[r].blink = rel[r].blink
      BY <1>1, <2>4 DEF Runs
    <2>7. rel[r].wrote = Nowhere
      BY <1>2, <2>1 DEF RunSound, Building
    <2>8. Transit(r)
      BY <1>2, <2>6, <2>7 DEF Transit, Past, Core, InTail, Is, Building, Written, AtClaude
    <2>9. RunSound(r)'
      BY <1>2, <2>1, <2>6 DEF RunSound, Tested, Building, Writing
    <2>10. Names(rel[r].orig)'
      BY <1>2, <2>2, <2>5, <2>6, <2>8, NamesStay DEF Names, Transit
    <2>11. mode[r] # "sync"
      BY <1>2, <2>1 DEF RunSound, Building
    <2>12. TextSound(r)'
      BY <1>2, <2>3, <2>6, <2>10, <2>11 DEF TextSound, Writing
    <2>13. Quietly(r)
      BY <1>2, <2>5, <2>6, <2>8, <2>9, <2>12 DEF Quietly, RelInv, RelTyped
    <2>14. EntrySound'
      BY <1>2, <2>5, <2>6, EntryStays
    <2> QED BY <2>13, <2>14, QuietStep
  <1> QED BY <1>3, <1>4 DEF CheckCandidate

LEMMA WaitingSteps ==
    ASSUME RelInv, NEW r \in Activators,
           PassGate(r) \/ AssertLive(r) \/ CrashRun(r)
    PROVE  RelInv'
  <1> USE DEF Is, outside, RunPlaces
  <1>0. overlap \in BOOLEAN
    BY DEF RelInv, RelTyped
  <1>1. CASE PassGate(r)
    BY <1>0, <1>1, PassingSteps DEF PassGate
  <1>2. CASE AssertLive(r)
    <2>1. PICK p \in {"rename", "restore", "cleanup", "done"} :
            /\ Steps(r, p)
            /\ \/ rel[r].at = "assert" /\ p # "restore" /\ (p = "rename" => config = rel[r].orig)
               \/ rel[r].at = "reassert" /\ p # "rename" /\ (p = "restore" => config = rel[r].wrote)
      BY <1>2 DEF AssertLive, GivesUp
    <2> QED BY <1>0, <1>2, <2>1, PassingSteps DEF AssertLive
  <1>3. CASE CrashRun(r)
    BY <1>0, <1>3, PassingSteps DEF CrashRun
  <1> QED BY <1>1, <1>2, <1>3

(* A run past its write goes on at Claude Code's entry.                     *)
LEMMA AtClaudeMoves ==
    ASSUME RelInv, NEW r \in Activators, NEW p \in AtClaude \cup {"done"},
           rel[r].at \in AtClaude, Moved(r),
           rel'[r].at = p, rel'[r].good = rel[r].good, rel'[r].wrote = rel[r].wrote,
           rel'[r].gate = rel[r].gate, rel'[r].blink = rel[r].blink,
           p = "prune" => mode[r] = "prune",
           UNCHANGED <<mode, tree, disk, manifest, config, inUse, late, lost, overlap>>,
           {claude', saved'} \subseteq Folders \cup {"none", "tree"}
    PROVE  Quietly(r)
  <1>1. RunSound(r)' /\ TextSound(r)'
    BY DEF RelInv, RunSound, TextSound, Tested, Building, Writing, AtClaude
  <1>2. Transit(r)
    BY DEF Transit, Past, Core, InTail, Is, Building, Written, AtClaude
  <1> QED BY <1>1, <1>2 DEF Quietly, RelInv, RelTyped, AtClaude

LEMMA ReadStep ==
    ASSUME RelInv, NEW r \in Activators, ReadClaude(r)
    PROVE  RelInv'
  <1>1. rel[r] \in Runs /\ rel \in [Activators -> Runs]
            /\ {claude, saved} \subseteq Folders \cup {"none", "tree"}
    BY DEF RelInv, RelTyped
  <1>2. UNCHANGED <<tree, disk, manifest, config, claude, inUse, mode, late, lost, overlap>>
            /\ rel[r].at = "claude"
    BY DEF ReadClaude, Is, outside
  <1>3. After(r) \in {"prune", "done"} /\ (After(r) = "prune" => mode[r] = "prune")
    BY DEF After
  <1>4. ASSUME NEW p \in {"prune", "done", "save"}, claude # "none", saved' = "none",
               rel' = [rel EXCEPT ![r].cur = claude, ![r].at = p], p = "prune" => mode[r] = "prune"
        PROVE  RelInv'
    <2>1. rel'[r] = [rel[r] EXCEPT !.cur = claude, !.at = p]
      BY <1>1, <1>4
    <2>2. rel'[r] \in Runs
      BY <1>1, <2>1 DEF Runs, RunPlaces
    <2>3. Moved(r)
      BY <1>1, <1>4, <2>2 DEF Moved
    <2>4. /\ rel'[r].at = p /\ rel'[r].good = rel[r].good /\ rel'[r].wrote = rel[r].wrote
          /\ rel'[r].gate = rel[r].gate /\ rel'[r].blink = rel[r].blink /\ rel'[r].cur = claude
      BY <1>1, <2>1 DEF Runs
    <2>5. Quietly(r)
      BY <1>1, <1>2, <1>4, <2>3, <2>4, AtClaudeMoves DEF AtClaude
    <2>6. EntrySound'
      <3>1. claude' # "none"
        BY <1>2, <1>4
      <3>2. ASSUME NEW o \in Activators \ {r}
            PROVE  /\ rel'[o].at \in {"save", "remove", "add"} => rel'[o].cur # "none"
                   /\ rel'[o].at = "remove" => overlap'
        BY <1>2, <2>3 DEF Moved, RelInv, EntrySound, Alone, Core, AtClaude
      <3> QED BY <1>4, <2>4, <3>1, <3>2 DEF EntrySound, EntryRecoverable
    <2> QED BY <2>5, <2>6, QuietStep
  <1>5. ASSUME NEW p \in {"prune", "done", "readd"}, Steps(r, p), saved' = saved,
               p = "prune" => mode[r] = "prune"
        PROVE  RelInv'
    <2>1. Moved(r) /\ Same(r) /\ rel'[r].at = p
      BY <1>5, StepsMoves DEF RelInv, RunPlaces
    <2>2. Quietly(r)
      BY <1>1, <1>2, <1>5, <2>1, AtClaudeMoves DEF AtClaude, Same
    <2>3. EntrySound'
      BY <1>2, <1>5, <2>1, EntryStays DEF Same
    <2> QED BY <2>2, <2>3, QuietStep
  <1> QED BY <1>3, <1>4, <1>5 DEF ReadClaude

(* The entry is in the file before it is removed.                           *)
LEMMA ClaudeSteps ==
    ASSUME RelInv, NEW r \in Activators,
           RestoreSaved(r) \/ SaveEntry(r) \/ RemoveEntry(r) \/ AddEntry(r)
    PROVE  RelInv'
  <1> DEFINE Claude == {"claude", "remove", "add", "prune", "done"}
  <1>1. rel[r] \in Runs /\ config \in Texts
            /\ {claude, saved, rel[r].cur} \subseteq Folders \cup {"none", "tree"}
            /\ config.entry \in Folders \cup {"tree"} /\ config.entry # "none"
    BY FoldersAreNames DEF RelInv, RelTyped, Texts, Runs
  <1>2. UNCHANGED <<tree, disk, manifest, config, inUse, mode, late, lost, overlap>>
    BY DEF RestoreSaved, SaveEntry, RemoveEntry, AddEntry, outside
  <1>3. After(r) \in {"prune", "done"} /\ (After(r) = "prune" => mode[r] = "prune")
    BY DEF After
  <1>4. /\ EntryRecoverable
        /\ rel[r].at \in {"save", "remove", "add"} => rel[r].cur # "none"
        /\ rel[r].at = "remove" => saved # "none" \/ overlap
    BY DEF RelInv, EntrySound
  <1>5. ASSUME NEW p \in Claude, Steps(r, p), rel[r].at \in {"readd", "save", "remove", "add"},
               p = "prune" => mode[r] = "prune",
               {claude', saved'} \subseteq Folders \cup {"none", "tree"}, EntryRecoverable',
               p \in {"remove", "add"} => rel[r].cur # "none",
               p = "remove" => saved' # "none"
        PROVE  RelInv'
    <2>1. Moved(r) /\ Same(r) /\ rel'[r].at = p
      BY <1>5, StepsMoves DEF RelInv, RunPlaces
    <2>2. Quietly(r)
      BY <1>2, <1>5, <2>1, AtClaudeMoves DEF AtClaude, Same
    <2>3. ASSUME NEW o \in Activators \ {r}
          PROVE  /\ rel'[o].at \in {"save", "remove", "add"} => rel'[o].cur # "none"
                 /\ rel'[o].at = "remove" => overlap'
      BY <1>2, <1>5, <2>1 DEF Moved, RelInv, EntrySound, Alone, Core, AtClaude
    <2>4. EntrySound'
      BY <1>5, <2>1, <2>3 DEF EntrySound, Same
    <2> QED BY <2>2, <2>4, QuietStep
  <1>6. CASE RestoreSaved(r)
    <2>1. PICK p \in {"claude", "prune", "done"} : Steps(r, p) /\ (p = "prune" => mode[r] = "prune")
      BY <1>3, <1>6 DEF RestoreSaved
    <2>2. saved' = saved /\ claude' \in {claude, saved} /\ (claude' = claude \/ claude' # "none")
              /\ rel[r].at = "readd"
      BY <1>6 DEF RestoreSaved, Adds, Is
    <2>3. EntryRecoverable' /\ {claude', saved'} \subseteq Folders \cup {"none", "tree"}
      BY <1>1, <1>2, <1>4, <2>2 DEF EntryRecoverable
    <2> QED BY <1>5, <2>1, <2>2, <2>3
  <1>7. CASE SaveEntry(r)
    <2>1. saved' = rel[r].cur /\ claude' = claude /\ Steps(r, "remove") /\ rel[r].at = "save"
      BY <1>7 DEF SaveEntry, Is
    <2>2. EntryRecoverable' /\ {claude', saved'} \subseteq Folders \cup {"none", "tree"}
      BY <1>1, <1>4, <2>1 DEF EntryRecoverable
    <2> QED BY <1>4, <1>5, <2>1, <2>2
  <1>8. CASE RemoveEntry(r)
    <2>1. PICK p \in {"add", "prune", "done"} : Steps(r, p) /\ (p = "prune" => mode[r] = "prune")
      BY <1>3, <1>8 DEF RemoveEntry
    <2>2. /\ rel[r].at = "remove"
          /\ \/ claude' = "none" /\ saved' = saved
             \/ claude' = claude /\ claude # "none" /\ saved' = "none"
      BY <1>8 DEF RemoveEntry, Is
    <2>3. EntryRecoverable' /\ {claude', saved'} \subseteq Folders \cup {"none", "tree"}
      BY <1>1, <1>2, <1>4, <2>2 DEF EntryRecoverable
    <2> QED BY <1>4, <1>5, <2>1, <2>2, <2>3
  <1>9. CASE AddEntry(r)
    <2>1. Steps(r, After(r)) /\ rel[r].at = "add"
      BY <1>9 DEF AddEntry, Is
    <2>2. \/ claude' \in {config.entry, rel[r].cur} /\ saved' = "none"
          \/ claude' = claude /\ saved' = saved
      BY <1>9 DEF AddEntry, Adds
    <2>3. EntryRecoverable' /\ {claude', saved'} \subseteq Folders \cup {"none", "tree"}
      BY <1>1, <1>2, <1>4, <2>1, <2>2 DEF EntryRecoverable
    <2> QED BY <1>3, <1>5, <2>1, <2>3
  <1> QED BY <1>6, <1>7, <1>8, <1>9

(* Copying is followed by a look at the tree.                               *)
LEMMA PublishStep ==
    ASSUME RelInv, NEW r \in Activators, Publish(r)
    PROVE  RelInv'
  <1>1. rel[r] \in Runs /\ rel[r].at = "publish" /\ overlap \in BOOLEAN /\ RunSound(r) /\ r \in Folders
    BY FoldersAreNames DEF RelInv, RelTyped, Publish, Is
  <1>2. UNCHANGED <<tree, config, claude, saved, inUse, mode, late, lost, overlap>>
    BY DEF Publish, outside
  <1>3. CASE Steps(r, "done") /\ UNCHANGED <<disk, manifest>>
    BY <1>1, <1>2, <1>3, PassingSteps DEF RunPlaces
  <1>4. CASE Steps(r, "digest")
    <2>1. disk' = [disk EXCEPT ![r] = rel[r].copy] /\ manifest' = [manifest EXCEPT ![r] = rel[r].copy]
      BY <1>1, <1>4 DEF Publish, Steps, RelInv, RelTyped, Runs
    <2>2. rel[r].copy \in Trees /\ rel[r].copy # "none"
      BY <1>1 DEF RunSound, Trees
    <2>3. Published(r) /\ manifest'[r] = rel[r].copy /\ disk'[r] # "none"
      BY <1>1, <2>1, <2>2 DEF Published, RelInv, RelTyped, Past, Building
    <2>4. Moved(r) /\ Same(r) /\ rel'[r].at = "digest"
      BY <1>4, StepsMoves DEF RelInv, RunPlaces
    <2>5. RunSound(r)' /\ TextSound(r)'
      BY <1>1, <1>2, <2>2, <2>3, <2>4 DEF RunSound, TextSound, Building, Writing, Same
    <2>6. Transit(r)
      BY <1>1, <2>4 DEF Transit, Past, Core, InTail, Is, Building, Written, AtClaude, Same
    <2>7. Quietly(r)
      BY <1>1, <1>2, <2>3, <2>4, <2>5, <2>6 DEF Quietly, Same, RelInv, RelTyped
    <2>8. EntrySound'
      BY <1>2, <2>4, EntryStays DEF Same
    <2> QED BY <2>7, <2>8, QuietStep
  <1> QED BY <1>3, <1>4 DEF Publish

(* A sync takes the pins of what is live.                                   *)
LEMMA RepinStep ==
    ASSUME RelInv, NEW r \in Activators, Repin(r)
    PROVE  RelInv'
  <1> DEFINE e == config.entry
             actual == IF e = "tree" THEN tree.now ELSE disk[e]
             text == Rewritten(config, e, actual)
             onward == [rel EXCEPT ![r].at = "claude", ![r].from = e]
             toWrite == [rel EXCEPT ![r].at = "assert", ![r].from = e, ![r].orig = config,
                                    ![r].wrote = text]
  <1>1. /\ rel[r] \in Runs /\ rel \in [Activators -> Runs] /\ config \in Texts /\ overlap \in BOOLEAN
        /\ tree.now \in Trees /\ e \in Folders \cup {"tree"} /\ RunSound(r) /\ Names(config)
    BY DEF RelInv, RelTyped, Texts
  <1>2. /\ UNCHANGED <<tree, disk, manifest, config, claude, saved, inUse, mode, late, lost>>
        /\ rel[r].at = "start" /\ mode[r] = "sync" /\ (overlap => overlap') /\ overlap' \in BOOLEAN
        /\ overlap' \/ \A o \in Activators \ {r} : ~InTail(o)
    BY <1>1 DEF Repin, Is, Meets
  <1>3. \/ rel' = [rel EXCEPT ![r].at = "done"]
        \/ rel' = onward
        \/ (e = "tree" \/ disk[e] = manifest[e]) /\ rel' = toWrite
    BY DEF Repin
  <1>4. CASE rel' = [rel EXCEPT ![r].at = "done"]
    BY <1>1, <1>2, <1>4, PassingSteps DEF Steps, RunPlaces
  <1>5. CASE rel' = onward
    <2>1. rel'[r] = [rel[r] EXCEPT !.at = "claude", !.from = e]
      BY <1>1, <1>5
    <2>2. rel'[r] \in Runs
      BY <1>1, <2>1 DEF Runs, RunPlaces
    <2>3. Moved(r)
      BY <1>1, <1>5, <2>2 DEF Moved
    <2>4. /\ rel'[r].at = "claude" /\ rel'[r].wrote = rel[r].wrote
          /\ rel'[r].good = rel[r].good /\ rel'[r].cur = rel[r].cur
      BY <1>1, <2>1 DEF Runs
    <2>5. RunSound(r)' /\ TextSound(r)'
      BY <1>1, <1>2, <2>4 DEF RunSound, TextSound, Building, Writing
    <2>6. Transit(r)
      BY <1>2, <2>4 DEF Transit, Past, Core, InTail, Is, Building, Written, AtClaude
    <2>7. Quietly(r)
      BY <1>2, <2>3, <2>4, <2>5, <2>6 DEF Quietly, RelInv, RelTyped
    <2>8. EntrySound'
      BY <1>2, <2>3, <2>4, EntryStays
    <2> QED BY <2>7, <2>8, QuietStep
  <1>6. CASE (e = "tree" \/ disk[e] = manifest[e]) /\ rel' = toWrite
    <2>1. actual \in Trees /\ (e \in Folders => actual = manifest[e])
      BY <1>1, <1>6, FoldersAreNames DEF Names, Texts
    <2>2. text \in Texts /\ text.entry = e /\ text.note = config.note /\ text.pin = actual
      BY <1>1, <2>1 DEF Rewritten, Texts
    <2> HIDE DEF text
    <2>3. rel'[r] = [rel[r] EXCEPT !.at = "assert", !.from = e, !.orig = config, !.wrote = text]
      BY <1>1, <1>6
    <2>4. rel'[r] \in Runs
      BY <1>1, <2>2, <2>3 DEF Runs, RunPlaces
    <2>5. Moved(r)
      BY <1>1, <1>6, <2>4 DEF Moved
    <2>6. /\ rel'[r].at = "assert" /\ rel'[r].wrote = text /\ rel'[r].orig = config
          /\ rel'[r].good = rel[r].good /\ rel'[r].cur = rel[r].cur
      BY <1>1, <2>3 DEF Runs
    <2>7. rel[r].wrote = Nowhere
      BY <1>1, <1>2 DEF RunSound, Building
    <2>8. Transit(r)
      BY <1>2, <2>6, <2>7 DEF Transit, Past, Core, InTail, Is, Building, Written, AtClaude
    <2>9. RunSound(r)'
      BY <1>1, <1>2, <2>6 DEF RunSound, Building, Writing
    <2>10. Names(text)
      BY <1>1, <2>1, <2>2 DEF Names
    <2>11. Names(config)' /\ Names(rel[r].wrote)'
      <3>1. Names(config)'
        BY <1>2, <2>5, <2>8, OthersStay DEF Frame
      <3>2. PICK t \in Texts : t = text
        BY <2>2
      <3>3. /\ t.entry \in Folders => t.pin = manifest'[t.entry]
            /\ t.entry \in Activators =>
                Past(t.entry)' /\ mode'[t.entry] # "sync" /\ rel'[t.entry].wrote # Nowhere
        BY <1>2, <2>5, <2>8, <2>10, <3>2, NamesStay DEF Transit
      <3>4. rel'[r].wrote = t
        BY <2>6, <3>2
      <3> QED BY <3>1, <3>3, <3>4 DEF Names
    <2>12. TextSound(r)'
      <3>1. rel'[r].wrote \in Texts /\ rel'[r].wrote.note = rel'[r].orig.note
                /\ rel'[r].wrote.entry = rel'[r].orig.entry
        BY <2>2, <2>6
      <3>2. Names(rel[r].orig)'
        BY <1>2, <2>6, <2>11 DEF Names
      <3> QED BY <1>2, <2>6, <2>11, <3>1, <3>2 DEF TextSound, Writing
    <2>13. Quietly(r)
      BY <1>2, <2>5, <2>6, <2>8, <2>9, <2>12 DEF Quietly, RelInv, RelTyped
    <2>14. EntrySound'
      BY <1>2, <2>5, <2>6, EntryStays
    <2> QED BY <2>13, <2>14, QuietStep
  <1> QED BY <1>3, <1>4, <1>5, <1>6

(* A healthy candidate is live, pinned as it is on the disk.                *)
LEMMA SmokeStep ==
    ASSUME RelInv, NEW r \in Activators, Smoke(r)
    PROVE  RelInv'
  <1>1. /\ rel[r] \in Runs /\ rel \in [Activators -> Runs] /\ overlap \in BOOLEAN
        /\ rel[r].at = "smoke" /\ RunSound(r) /\ TextSound(r)
    BY DEF RelInv, RelTyped, Smoke, Is
  <1>2. UNCHANGED <<tree, disk, manifest, config, claude, saved, inUse, mode, late, lost, overlap>>
    BY DEF Smoke, outside
  <1>3. CASE Steps(r, "reassert")
    BY <1>1, <1>2, <1>3, PassingSteps DEF RunPlaces
  <1>4. CASE /\ config.pin = IF config.entry = "tree" THEN tree.now ELSE disk[config.entry]
             /\ rel' = [rel EXCEPT ![r].at = "claude", ![r].good = TRUE]
    <2>1. rel'[r] = [rel[r] EXCEPT !.at = "claude", !.good = TRUE]
      BY <1>1, <1>4
    <2>2. rel'[r] \in Runs
      BY <1>1, <2>1 DEF Runs, RunPlaces
    <2>3. Moved(r)
      BY <1>1, <1>4, <2>2 DEF Moved
    <2>4. /\ rel'[r].at = "claude" /\ rel'[r].wrote = rel[r].wrote /\ rel'[r].good
          /\ rel'[r].cur = rel[r].cur /\ rel'[r].gate = rel[r].gate /\ rel'[r].blink = rel[r].blink
      BY <1>1, <2>1 DEF Runs
    <2>5. rel[r].wrote # Nowhere
      BY <1>1, FoldersAreNames DEF TextSound, Writing
    <2>6. RunSound(r)' /\ TextSound(r)'
      BY <1>1, <1>2, <2>4, <2>5 DEF RunSound, TextSound, Tested, Building, Writing
    <2>7. Transit(r)
      BY <1>1, <2>4 DEF Transit, Past, Core, InTail, Is, Building, Written, AtClaude
    <2>8. EntrySound'
      BY <1>2, <2>3, <2>4, EntryStays
    <2>9. RelTyped'
      BY <1>2, <2>3 DEF RelInv, RelTyped, Moved
    <2>10. config.entry \in Folders => disk[config.entry] # "none"
      BY <1>4, FoldersAreNames DEF RelInv, Names, Texts, Trees
    <2>11. \A o \in Activators : rel'[o].at \in Written => overlap
      BY <1>1, <2>3, <2>4 DEF Moved, RelInv, Alone, Core, Written
    <2>12. DiskSound'
      <3>1. Stands(config)'
        BY <1>2, <2>10 DEF Stands
      <3>2. \A o \in Activators : 
              rel'[o].at \in {"digest", "health", "assert", "rename"} /\ mode[o] # "sync" =>
                disk[o] # "none" \/ \E q \in Activators \ {o} : mode[q] = "prune"
        BY <2>3, <2>4 DEF Moved, RelInv, DiskSound
      <3> QED BY <1>2, <2>11, <3>1, <3>2 DEF DiskSound
    <2>13. UseSound'
      <3>1. r \in inUse => overlap \/ disk[r] # "none"
        BY <1>1, <2>10, FoldersAreNames DEF RelInv, UseSound, Alone, Core, Written
      <3> QED BY <1>2, <2>3, <3>1 DEF Moved, RelInv, UseSound
    <2>14. Frame(r)
      BY <1>2 DEF Frame
    <2> QED BY <2>3, <2>6, <2>7, <2>8, <2>9, <2>12, <2>13, <2>14, OthersStay DEF RelInv
  <1> QED BY <1>3, <1>4 DEF Smoke

(* Deletions spare what is live, what may go live again and what is used.   *)
LEMMA DeletingSteps ==
    ASSUME RelInv, NEW r \in Activators, Cleanup(r) \/ Prune(r)
    PROVE  RelInv'
  <1>1. /\ rel[r] \in Runs /\ rel \in [Activators -> Runs] /\ overlap \in BOOLEAN
        /\ rel[r].at \in {"cleanup", "prune"} /\ RunSound(r) /\ TextSound(r)
        /\ disk \in [Folders -> Trees \cup {"none", "meddled"}] /\ r \in Folders
    BY FoldersAreNames DEF RelInv, RelTyped, Cleanup, Prune, Is
  <1>2. /\ UNCHANGED <<tree, manifest, config, claude, saved, inUse, mode, late, lost, overlap>>
        /\ Steps(r, "done")
    BY DEF Cleanup, Prune, outside
  <1>3. Moved(r) /\ Same(r) /\ rel'[r].at = "done"
    BY <1>2, StepsMoves DEF RelInv, RunPlaces
  <1>4. Transit(r)
    BY <1>1, <1>3 DEF Transit, Past, Core, InTail, Is, Building, Written, AtClaude, Same
  <1>5. RunSound(r)' /\ TextSound(r)'
    BY <1>1, <1>2, <1>3 DEF RunSound, TextSound, Tested, Building, Writing, Same
  <1>6. EntrySound'
    BY <1>2, <1>3, EntryStays DEF Same
  <1>7. ASSUME disk' \in [Folders -> Trees \cup {"none", "meddled"}], DiskSound', UseSound'
        PROVE  RelInv'
    <2>1. RelTyped'
      BY <1>2, <1>3, <1>7 DEF RelInv, RelTyped, Moved
    <2>2. Frame(r)
      BY <1>2 DEF Frame
    <2> QED BY <1>3, <1>4, <1>5, <1>6, <1>7, <2>1, <2>2, OthersStay DEF RelInv
  <1>8. \A t \in Texts : Excused(t) => Excused(t)'
    BY <1>2, <1>3 DEF Excused, Moved, Same
  <1>9. config \in Texts /\ \A o \in Activators : rel[o].at \in Written => Names(rel[o].orig)
    BY DEF RelInv, Names, TextSound, Written, Writing
  <1>10. \A o \in Activators : rel'[o].at \in Written =>
            o # r /\ rel[o].at \in Written /\ rel'[o].orig = rel[o].orig
    BY <1>3 DEF Moved, Written
  <1>11. CASE disk' = disk
    <2>1. DiskSound' /\ UseSound'
      BY <1>2, <1>3, <1>4, <1>11, DiskStays DEF Same, Transit
    <2> QED BY <1>1, <1>7, <1>11, <2>1
  <1>12. CASE Cleanup(r) /\ config.entry # r /\ disk' = [disk EXCEPT ![r] = "none"]
    <2>1. rel[r].at = "cleanup" /\ \A f \in Folders \ {r} : disk'[f] = disk[f]
      BY <1>1, <1>12 DEF Cleanup, Is
    <2>2. \A o \in Activators : rel'[o].at \in Written => overlap \/ rel[o].orig.entry # r
      <3> SUFFICES ASSUME NEW o \in Activators, rel'[o].at \in Written, ~overlap,
                          rel[o].orig.entry = r
                   PROVE  FALSE
        OBVIOUS
      <3>1. rel[r].wrote # Nowhere
        BY <1>9, <1>10 DEF Names
      <3>2. InTail(r)
        BY <2>1, <3>1 DEF InTail, Is
      <3> QED BY <1>10, <3>2 DEF RelInv, Alone
    <2>3. Stands(config) => Stands(config)'
      BY <1>2, <1>8, <1>9, <1>12, <2>1 DEF Stands, Excused
    <2>4. ASSUME NEW o \in Activators, rel'[o].at \in Written, ~overlap
          PROVE  Stands(rel[o].orig)'
      <3>1. rel[o].orig \in Texts /\ Stands(rel[o].orig) /\ rel[o].orig.entry # r
        BY <1>9, <1>10, <2>2, <2>4 DEF Names, RelInv, DiskSound
      <3>2. rel'[o].orig = rel[o].orig
        BY <1>10, <2>4
      <3> QED BY <1>8, <2>1, <3>1, <3>2 DEF Stands, Excused
    <2>5. \A o \in Activators : 
             rel'[o].at \in {"digest", "health", "assert", "rename"} /\ mode[o] # "sync" =>
               disk'[o] # "none" \/ \E q \in Activators \ {o} : mode[q] = "prune"
      BY <1>3, <2>1, FoldersAreNames DEF Moved, RelInv, DiskSound
    <2>6. DiskSound'
      BY <1>2, <2>3, <2>4, <2>5 DEF DiskSound, RelInv
    <2>7. UseSound'
      <3>1. ~rel'[r].good
        BY <1>1, <1>3, <2>1 DEF RunSound, Same
      <3> QED BY <1>2, <1>3, <2>1, <3>1 DEF Moved, RelInv, RelTyped, UseSound
    <2>8. disk' \in [Folders -> Trees \cup {"none", "meddled"}]
      BY <1>1, <1>12
    <2> QED BY <1>7, <2>6, <2>7, <2>8
  <1>13. CASE /\ Prune(r)
              /\ disk' = [f \in Folders |-> IF f \in {r, rel[r].from} \cup inUse THEN disk[f] ELSE "none"]
    <2>1. rel[r].at = "prune" /\ mode[r] = "prune" /\ disk'[r] = disk[r]
              /\ \A f \in inUse : disk'[f] = disk[f]
      BY <1>1, <1>13 DEF Prune, Is, RunSound, RelInv, RelTyped
    <2>2. overlap \/ config.entry = r
      BY <2>1 DEF RelInv, Alone, Core, AtClaude
    <2>3. \A o \in Activators : rel'[o].at \in Written => overlap
      BY <1>10, <2>1 DEF RelInv, Alone, Core, AtClaude
    <2>4. overlap \/ Stands(config)'
      BY <1>2, <1>8, <1>9, <2>1, <2>2 DEF Stands, Excused, RelInv, DiskSound
    <2>5. \A o \in Activators : 
             rel'[o].at \in {"digest", "health", "assert", "rename"} /\ mode[o] # "sync" =>
               disk'[o] # "none" \/ \E q \in Activators \ {o} : mode[q] = "prune"
      BY <1>3, <2>1
    <2>6. DiskSound'
      BY <1>2, <2>3, <2>4, <2>5 DEF DiskSound, RelInv
    <2>7. UseSound'
      BY <1>2, <1>3, <2>1 DEF Moved, Same, RelInv, UseSound
    <2>8. disk' \in [Folders -> Trees \cup {"none", "meddled"}]
      BY <1>1, <1>13
    <2> QED BY <1>7, <2>6, <2>7, <2>8
  <1> QED BY <1>11, <1>12, <1>13 DEF Cleanup, Prune

(* The rename that puts the candidate into the live config.                 *)
LEMMA RenameStep ==
    ASSUME RelInv, NEW r \in Activators, Replace(r), rel[r].at = "rename", config' = rel[r].wrote
    PROVE  RelInv'
  <1>1. /\ rel[r] \in Runs /\ RunSound(r) /\ TextSound(r) /\ overlap \in BOOLEAN /\ lost \in BOOLEAN
        /\ config \in Texts /\ Names(config) /\ Names(rel[r].orig) /\ rel[r].orig \in Texts
        /\ rel[r].wrote \in Texts /\ ~rel[r].good
    BY DEF RelInv, RelTyped, TextSound, RunSound, Writing, Names
  <1>2. /\ UNCHANGED <<mode, tree, disk, manifest, claude, saved, inUse, late>>
        /\ Steps(r, "smoke") \/ Steps(r, GivesUp(r))
        /\ overlap' = (overlap \/ Rewritten(config, rel[r].orig.entry, rel[r].orig.pin) # config
                              \/ \E o \in Activators \ {r} : InTail(o))
    BY DEF Replace, Is
  <1>3. /\ lost' = lost \/ (lost' = (lost \/ config.note # rel[r].orig.note))
        /\ lost' \in BOOLEAN
    BY <1>1 DEF Replace, Is
  <1>4. CASE Steps(r, GivesUp(r)) /\ lost' = lost /\ config' = config
    BY <1>1, <1>2, <1>4, PassingSteps DEF GivesUp, RunPlaces
  <1>5. CASE Steps(r, "smoke")
    <2>1. Moved(r) /\ Same(r) /\ rel'[r].at = "smoke"
      BY <1>5, StepsMoves DEF RelInv, RunPlaces
    <2>2. Past(r)' /\ ~Past(r)
      BY <2>1 DEF Past, Building
    <2>3. rel[r].wrote.note = rel[r].orig.note /\ (~late => config.note = rel[r].orig.note)
              /\ (mode[r] = "sync" => Names(rel[r].wrote) /\ rel[r].wrote.entry = rel[r].orig.entry)
              /\ (mode[r] # "sync" => rel[r].wrote.entry = r /\ rel[r].wrote.pin = manifest[r])
      BY <1>1 DEF TextSound, Writing
    <2>4. EditsKept'
      BY <1>1, <1>2, <1>3, <2>3 DEF EditsKept, RelInv
    <2>5. \A t : Names(t) => /\ t \in Texts
                             /\ t.entry \in Folders => t.pin = manifest'[t.entry]
                             /\ t.entry \in Activators =>
                                  Past(t.entry)' /\ mode'[t.entry] # "sync"
                                    /\ rel'[t.entry].wrote # Nowhere
      BY <1>2, <2>1, <2>2, NamesStay DEF Same
    <2>6. Names(config)'
      <3>1. CASE mode[r] = "sync"
        BY <2>3, <2>5, <3>1 DEF Names
      <3>2. CASE mode[r] # "sync"
        BY <1>1, <1>2, <2>1, <2>2, <2>3, <3>2, FoldersAreNames DEF Names, Same
      <3> QED BY <3>1, <3>2
    <2>7. RunSound(r)'
      BY <1>1, <1>2, <2>1 DEF RunSound, Tested, Building, Writing, Same
    <2>8. TextSound(r)'
      <3>1. Names(rel[r].orig)'
        BY <1>1, <2>1, <2>5 DEF Names, Same
      <3>2. mode[r] = "sync" => Names(rel[r].wrote)'
        BY <2>1, <2>3, <2>5 DEF Names, Same
      <3> QED BY <1>1, <1>2, <2>1, <2>3, <3>1, <3>2 DEF TextSound, Writing, Same
    <2>9. ASSUME NEW o \in Activators \ {r} PROVE RunSound(o)' /\ TextSound(o)'
      <3>1. rel'[o] = rel[o] /\ RunSound(o) /\ TextSound(o)
        BY <2>1 DEF Moved, RelInv
      <3>2. RunSound(o)'
        BY <1>2, <3>1 DEF RunSound, Tested
      <3>3. Names(rel[o].orig) => Names(rel[o].orig)'
        BY <2>5, <3>1 DEF Names
      <3>4. Names(rel[o].wrote) => Names(rel[o].wrote)'
        BY <2>5, <3>1 DEF Names
      <3>5. ~late => config'.note = config.note
        BY <2>3
      <3> QED BY <1>2, <3>1, <3>2, <3>3, <3>4, <3>5 DEF TextSound
    <2>10. ASSUME ~overlap'
           PROVE  /\ config.entry = rel[r].orig.entry /\ config.pin = rel[r].orig.pin
                  /\ \A o \in Activators \ {r} : ~InTail(o) /\ ~Core(o)' /\ ~InTail(o)'
      <3>1. Rewritten(config, rel[r].orig.entry, rel[r].orig.pin) = config
        BY <1>2, <2>10
      <3>2. config.entry = rel[r].orig.entry /\ config.pin = rel[r].orig.pin
        BY <1>1, <3>1 DEF Rewritten, Texts
      <3>3. ASSUME NEW o \in Activators \ {r} PROVE ~InTail(o) /\ ~Core(o)' /\ ~InTail(o)'
        <4>1. ~InTail(o) /\ rel'[o] = rel[o]
          BY <1>2, <2>1, <2>10 DEF Moved
        <4> QED BY <4>1 DEF InTail, Core, Written, AtClaude, Is
      <3> QED BY <3>2, <3>3
    <2>11. Alone'
      <3> SUFFICES ASSUME ~overlap' PROVE Alone'
        BY DEF Alone
      <3>1. rel[r].orig.entry # r
        BY <1>1, <2>2 DEF Names
      <3>2. mode[r] # "sync" => config'.entry = r
        BY <2>3
      <3>3. \A o \in Activators \ {r} : rel'[o].at \notin Written
        BY <2>10 DEF Core
      <3> QED BY <1>2, <2>1, <2>10, <3>1, <3>2, <3>3 DEF Alone, Same
    <2>12. \A t \in Texts : Excused(t) => Excused(t)'
      BY <1>2, <2>1 DEF Excused, Moved, Same
    <2>13. ASSUME ~overlap' PROVE Stands(rel[r].orig)'
      <3>1. Stands(config)
        BY <1>2, <2>13 DEF RelInv, DiskSound
      <3>2. Stands(rel[r].orig)
        BY <2>10, <2>13, <3>1 DEF Stands, Excused
      <3>3. rel'[r].orig = rel[r].orig
        BY <2>1 DEF Same
      <3> QED BY <1>1, <1>2, <2>12, <3>2, <3>3 DEF Stands, Excused
    <2>14. ASSUME ~overlap' PROVE Stands(config)'
      <3>1. CASE mode[r] = "sync"
        <4>1. Stands(rel[r].orig)' /\ rel'[r].orig = rel[r].orig
          BY <2>1, <2>13, <2>14 DEF Same
        <4>2. config'.entry = rel[r].orig.entry
                /\ (config'.entry \in Folders => config'.pin = rel[r].orig.pin)
          BY <1>1, <2>3, <3>1 DEF Names
        <4> QED BY <4>1, <4>2 DEF Stands, Excused
      <3>2. CASE mode[r] # "sync"
        <4>1. disk[r] # "none" \/ \E o \in Activators \ {r} : mode[o] = "prune"
          BY <3>2 DEF RelInv, DiskSound
        <4>2. config'.entry = r /\ config' = rel'[r].wrote /\ ~rel'[r].good
          BY <1>1, <2>1, <2>3, <3>2 DEF Same
        <4> QED BY <1>2, <4>1, <4>2 DEF Stands, Excused
      <3> QED BY <3>1, <3>2
    <2>15. DiskSound'
      <3>1. \A o \in Activators \ {r} : rel'[o].at \in Written => overlap'
        BY <2>10 DEF Core
      <3>2. \A o \in Activators : 
               rel'[o].at \in {"digest", "health", "assert", "rename"} /\ mode[o] # "sync" =>
                 disk[o] # "none" \/ \E q \in Activators \ {o} : mode[q] = "prune"
        BY <2>1 DEF Moved, RelInv, DiskSound
      <3> QED BY <1>2, <2>13, <2>14, <3>1, <3>2 DEF DiskSound
    <2>16. UseSound'
      BY <1>2, <2>1 DEF Moved, Same, RelInv, UseSound
    <2>17. EntrySound'
      BY <1>2, <2>1, EntryStays DEF Same
    <2>18. RelTyped'
      BY <1>1, <1>2, <1>3, <2>1 DEF RelInv, RelTyped, Moved
    <2> QED BY <2>4, <2>6, <2>7, <2>8, <2>9, <2>11, <2>15, <2>16, <2>17, <2>18 DEF RelInv
  <1>6. Steps(r, "smoke") \/ (Steps(r, GivesUp(r)) /\ lost' = lost /\ config' = config)
    BY DEF Replace, Is
  <1> QED BY <1>4, <1>5, <1>6

(* The rename that puts the text back that stood before.                    *)
LEMMA RestoreStep ==
    ASSUME RelInv, NEW r \in Activators, Replace(r), rel[r].at = "restore"
    PROVE  RelInv'
  <1>1. /\ rel[r] \in Runs /\ RunSound(r) /\ TextSound(r) /\ overlap \in BOOLEAN /\ lost \in BOOLEAN
        /\ config \in Texts /\ Names(rel[r].orig) /\ rel[r].orig \in Texts
        /\ rel[r].wrote.note = rel[r].orig.note /\ (~late => config.note = rel[r].orig.note)
    BY DEF RelInv, RelTyped, TextSound, Writing, Names
  <1>2. /\ UNCHANGED <<mode, tree, disk, manifest, claude, saved, inUse, late>>
        /\ Steps(r, GivesUp(r)) /\ GivesUp(r) \in {"cleanup", "done"}
        /\ overlap' = (overlap \/ Rewritten(config, rel[r].wrote.entry, rel[r].wrote.pin) # config
                              \/ \E o \in Activators \ {r} : InTail(o))
    BY DEF Replace, Is, GivesUp
  <1>3. CASE config' = config /\ lost' = lost
    BY <1>1, <1>2, <1>3, PassingSteps DEF RunPlaces
  <1>4. CASE config' = rel[r].orig /\ lost' = (lost \/ config.note # rel[r].wrote.note)
    <2>1. Moved(r) /\ Same(r) /\ rel'[r].at \in {"cleanup", "done"}
      BY <1>2, StepsMoves DEF RelInv, RunPlaces
    <2>2. Past(r)'
      BY <2>1 DEF Past, Building
    <2>3. EditsKept'
      BY <1>1, <1>2, <1>4 DEF EditsKept, RelInv
    <2>4. \A t : Names(t) => /\ t \in Texts
                             /\ t.entry \in Folders => t.pin = manifest'[t.entry]
                             /\ t.entry \in Activators =>
                                  Past(t.entry)' /\ mode'[t.entry] # "sync"
                                    /\ rel'[t.entry].wrote # Nowhere
      BY <1>2, <2>1, <2>2, NamesStay DEF Same
    <2>5. Names(config)'
      BY <1>1, <1>4, <2>4 DEF Names
    <2>6. RunSound(r)' /\ TextSound(r)'
      BY <1>1, <1>2, <2>1 DEF RunSound, TextSound, Tested, Building, Writing, Same
    <2>7. ASSUME NEW o \in Activators \ {r} PROVE RunSound(o)' /\ TextSound(o)'
      <3>1. rel'[o] = rel[o] /\ RunSound(o) /\ TextSound(o)
        BY <2>1 DEF Moved, RelInv
      <3>2. RunSound(o)'
        BY <1>2, <3>1 DEF RunSound, Tested
      <3>3. Names(rel[o].orig) => Names(rel[o].orig)'
        BY <2>4, <3>1 DEF Names
      <3>4. Names(rel[o].wrote) => Names(rel[o].wrote)'
        BY <2>4, <3>1 DEF Names
      <3>5. ~late => config'.note = config.note
        BY <1>1, <1>4
      <3> QED BY <1>2, <3>1, <3>2, <3>3, <3>4, <3>5 DEF TextSound
    <2>8. ASSUME ~overlap' PROVE \A o \in Activators : ~Core(o)'
      <3>1. ASSUME NEW o \in Activators \ {r} PROVE ~Core(o)'
        <4>1. ~InTail(o) /\ rel'[o] = rel[o]
          BY <1>2, <2>1, <2>8 DEF Moved
        <4> QED BY <4>1 DEF InTail, Core, Written, AtClaude, Is
      <3>2. ~Core(r)'
        BY <2>1 DEF Core, Written, AtClaude
      <3> QED BY <3>1, <3>2
    <2>9. Alone'
      BY <2>8 DEF Alone, Core
    <2>10. \A t \in Texts : Excused(t) => Excused(t)'
      BY <1>2, <2>1 DEF Excused, Moved, Same
    <2>11. ASSUME ~overlap' PROVE Stands(config)'
      <3>1. Stands(rel[r].orig)
        BY <1>2, <2>11 DEF RelInv, DiskSound, Replace, Written
      <3> QED BY <1>1, <1>2, <1>4, <2>10, <3>1 DEF Stands, Excused
    <2>12. DiskSound'
      <3>1. \A o \in Activators : rel'[o].at \in Written => overlap'
        BY <2>8 DEF Core
      <3>2. \A o \in Activators : 
               rel'[o].at \in {"digest", "health", "assert", "rename"} /\ mode[o] # "sync" =>
                 disk[o] # "none" \/ \E q \in Activators \ {o} : mode[q] = "prune"
        BY <2>1 DEF Moved, RelInv, DiskSound
      <3> QED BY <1>2, <2>11, <3>1, <3>2 DEF DiskSound
    <2>13. UseSound'
      BY <1>2, <2>1 DEF Moved, Same, RelInv, UseSound
    <2>14. EntrySound'
      BY <1>2, <2>1, EntryStays DEF Same
    <2>15. RelTyped'
      BY <1>1, <1>2, <1>4, <2>1 DEF RelInv, RelTyped, Moved
    <2> QED BY <2>3, <2>5, <2>6, <2>7, <2>9, <2>12, <2>13, <2>14, <2>15 DEF RelInv
  <1>5. \/ config' = config /\ lost' = lost
        \/ config' = rel[r].orig /\ lost' = (lost \/ config.note # rel[r].wrote.note)
    BY DEF Replace, Is
  <1> QED BY <1>3, <1>4, <1>5

LEMMA ReplaceStep ==
    ASSUME RelInv, NEW r \in Activators, Replace(r)
    PROVE  RelInv'
  <1>1. CASE rel[r].at = "restore"
    BY <1>1, RestoreStep
  <1>2. CASE rel[r].at = "rename" /\ config' = rel[r].wrote
    BY <1>2, RenameStep
  <1>3. CASE rel[r].at = "rename" /\ config' = config /\ lost' = lost /\ Steps(r, GivesUp(r))
    <2>1. UNCHANGED <<mode, tree, disk, manifest, claude, saved, inUse, late>>
      BY DEF Replace
    <2>2. (overlap => overlap') /\ overlap' \in BOOLEAN
      BY DEF Replace, RelInv, RelTyped
    <2> QED BY <1>3, <2>1, <2>2, PassingSteps DEF GivesUp, RunPlaces
  <1>4. \/ rel[r].at = "restore"
        \/ rel[r].at = "rename" /\ config' = rel[r].wrote
        \/ rel[r].at = "rename" /\ config' = config /\ lost' = lost /\ Steps(r, GivesUp(r))
    BY DEF Replace, Is
  <1> QED BY <1>1, <1>2, <1>3, <1>4

-----------------------------------------------------------------------------
(* What others do outside the program.                                      *)
LEMMA TreeStep ==
    ASSUME RelInv, ChangeTree
    PROVE  RelInv'
  <1>1. /\ UNCHANGED <<mode, disk, manifest, config, claude, saved, inUse, late, lost, overlap>>
        /\ rel \in [Activators -> Runs] /\ tree \in [now : Trees, head : Trees]
    BY DEF ChangeTree, RelInv, RelTyped
  <1>2. tree' \in [now : Trees, head : Trees]
    BY <1>1 DEF ChangeTree, Trees
  <1>3. /\ rel' \in [Activators -> Runs]
        /\ \A r \in Activators :
             /\ rel'[r].at = rel[r].at /\ rel'[r].gate = rel[r].gate /\ rel'[r].copy = rel[r].copy
             /\ rel'[r].orig = rel[r].orig /\ rel'[r].wrote = rel[r].wrote
             /\ rel'[r].good = rel[r].good /\ rel'[r].cur = rel[r].cur
             /\ rel[r].blink => rel'[r].blink
             /\ rel[r].at \in {"publish", "digest"} => rel'[r].blink \/ tree'.now = tree.now
    <2>1. CASE rel' = rel /\ tree'.now = tree.now
      BY <1>1, <2>1
    <2>2. CASE rel' = [r \in Activators |->
                         [rel[r] EXCEPT !.blink = @ \/ rel[r].at \in {"publish", "digest"}]]
      <3>1. ASSUME NEW r \in Activators
            PROVE  /\ rel[r] \in Runs
                   /\ rel'[r] = [rel[r] EXCEPT !.blink = rel[r].blink \/ rel[r].at \in {"publish", "digest"}]
        BY <1>1, <2>2
      <3>2. ASSUME NEW r \in Activators PROVE rel'[r] \in Runs
        <4>1. PICK b \in BOOLEAN : rel'[r] = [rel[r] EXCEPT !.blink = b]
          BY <3>1 DEF Runs
        <4> QED BY <3>1, <4>1 DEF Runs
      <3>3. rel' \in [Activators -> Runs]
        BY <2>2, <3>2
      <3> QED BY <3>1, <3>3 DEF Runs
    <2>3. rel' = rel => tree'.now = tree.now \/ rel' = [r \in Activators |->
                         [rel[r] EXCEPT !.blink = @ \/ rel[r].at \in {"publish", "digest"}]]
      BY <1>1 DEF ChangeTree
    <2> QED BY <1>1, <2>1, <2>2, <2>3 DEF ChangeTree
  <1>4. RelTyped'
    BY <1>1, <1>2, <1>3 DEF RelInv, RelTyped
  <1>5. \A r \in Activators : RunSound(r)'
    BY <1>1, <1>3 DEF RelInv, RunSound, Tested, Building
  <1>6. \A t : Names(t) => /\ t \in Texts
                           /\ t.entry \in Folders => t.pin = manifest'[t.entry]
                           /\ t.entry \in Activators =>
                                Past(t.entry)' /\ mode'[t.entry] # "sync"
                                  /\ rel'[t.entry].wrote # Nowhere
    BY <1>1, <1>3 DEF Names, Past
  <1>7. Names(config)' /\ \A r \in Activators : TextSound(r)'
    <2>1. Names(config)'
      BY <1>1, <1>6 DEF RelInv, Names
    <2>2. ASSUME NEW r \in Activators PROVE TextSound(r)'
      <3>1. /\ Names(rel[r].orig) => Names(rel[r].orig)'
            /\ Names(rel[r].wrote) => Names(rel[r].wrote)'
        BY <1>3, <1>6 DEF Names
      <3> QED BY <1>1, <1>3, <3>1 DEF RelInv, TextSound
    <2> QED BY <2>1, <2>2
  <1>8. Alone'
    BY <1>1, <1>3 DEF RelInv, Alone, Core, InTail, Is
  <1>9. DiskSound' /\ UseSound' /\ EntrySound' /\ EditsKept'
    BY <1>1, <1>3 DEF RelInv, DiskSound, Stands, Excused, UseSound, EntrySound, EntryRecoverable,
                      EditsKept
  <1> QED BY <1>4, <1>5, <1>7, <1>8, <1>9 DEF RelInv

LEMMA EditStep ==
    ASSUME RelInv, EditConfig
    PROVE  RelInv'
  <1>1. /\ UNCHANGED <<mode, tree, disk, manifest, claude, saved, inUse, rel, lost, overlap>>
        /\ config' = [config EXCEPT !.note = @ + 1] /\ config \in Texts /\ late \in BOOLEAN
        /\ late' = (late \/ \E r \in Activators : rel[r].at \in {"rename", "restore"})
    BY DEF EditConfig, RelInv, RelTyped
  <1>2. config' \in Texts /\ config'.entry = config.entry /\ config'.pin = config.pin
    BY <1>1 DEF Texts
  <1>3. RelTyped'
    BY <1>1, <1>2 DEF RelInv, RelTyped
  <1>4. \A t : Names(t) => Names(t)'
    BY <1>1 DEF Names, Past
  <1>5. Names(config)'
    BY <1>1, <1>2 DEF RelInv, Names, Past
  <1>6. \A r \in Activators : RunSound(r)' /\ TextSound(r)'
    BY <1>1 DEF RelInv, RunSound, TextSound, Tested, Names, Past
  <1>7. Alone' /\ DiskSound'
    BY <1>1, <1>2 DEF RelInv, Alone, Core, InTail, Is, DiskSound, Stands, Excused
  <1>8. UseSound' /\ EntrySound' /\ EditsKept'
    BY <1>1 DEF RelInv, UseSound, EntrySound, EntryRecoverable, EditsKept
  <1> QED BY <1>3, <1>5, <1>6, <1>7, <1>8 DEF RelInv

LEMMA OutsideSteps ==
    ASSUME RelInv, StartBridge \/ \E f \in Folders : MeddleWith(f)
    PROVE  RelInv'
  <1>1. UNCHANGED <<mode, tree, manifest, config, claude, saved, rel, late, lost, overlap>>
    BY DEF StartBridge, MeddleWith
  <1>2. Names(config)' /\ EditsKept' /\ Alone' /\ EntrySound'
    BY <1>1 DEF RelInv, Names, Past, EditsKept, Alone, Core, InTail, Is, EntrySound, EntryRecoverable
  <1>3. \A r \in Activators : RunSound(r)' /\ TextSound(r)'
    BY <1>1 DEF RelInv, RunSound, TextSound, Tested, Names, Past
  <1>4. CASE StartBridge
    <2>1. /\ disk' = disk /\ inUse' = inUse \cup {config.entry} /\ config.entry \in Folders
          /\ disk[config.entry] = config.pin
      BY <1>4 DEF StartBridge
    <2>2. RelTyped' /\ DiskSound'
      BY <1>1, <2>1 DEF RelInv, RelTyped, DiskSound, Stands, Excused
    <2>3. disk[config.entry] # "none" /\ (config.entry \in Activators => mode[config.entry] # "sync")
      BY <2>1 DEF RelInv, Names, Texts, Trees
    <2>4. UseSound'
      BY <1>1, <2>1, <2>3 DEF RelInv, UseSound
    <2> QED BY <1>2, <1>3, <2>2, <2>4 DEF RelInv
  <1>5. ASSUME NEW f \in Folders, MeddleWith(f) PROVE RelInv'
    <2>1. /\ inUse' = inUse /\ disk' \in [Folders -> Trees \cup {"none", "meddled"}]
          /\ \A g \in Folders : disk[g] # "none" => disk'[g] # "none"
      BY <1>5 DEF MeddleWith, RelInv, RelTyped
    <2>2. RelTyped'
      BY <1>1, <2>1 DEF RelInv, RelTyped
    <2>3. DiskSound' /\ UseSound'
      BY <1>1, <2>1, FoldersAreNames DEF RelInv, RelTyped, DiskSound, Stands, Excused, UseSound
    <2> QED BY <1>2, <1>3, <2>2, <2>3 DEF RelInv
  <1> QED BY <1>4, <1>5

LEMMA ReleaseStepInv == RelInv /\ [ReleaseNext]_releasevars => RelInv'
  <1> SUFFICES ASSUME RelInv, [ReleaseNext]_releasevars PROVE RelInv'
    OBVIOUS
  <1>1. CASE UNCHANGED releasevars
    BY <1>1 DEF releasevars, RelInv, RelTyped, EditsKept, Names, Past, RunSound, TextSound, Tested, Alone,
                Core, InTail, Is, DiskSound, Stands, Excused, UseSound, EntrySound, EntryRecoverable
  <1>2. ASSUME NEW r \in Activators, ReleaseStep(r) \/ CrashRun(r) PROVE RelInv'
    BY <1>2, StartStep, StageStep, RedigestStep, CheckStep, WaitingSteps, ReadStep, ClaudeSteps,
       PublishStep, RepinStep, SmokeStep, DeletingSteps, ReplaceStep
       DEF ReleaseStep
  <1> QED BY <1>1, <1>2, TreeStep, EditStep, OutsideSteps DEF ReleaseNext

(* The configurations of the clients survive every run of                   *)
(* bin/release-activate.js, however many run at once and whatever fails:    *)
(* others' edits (assertLiveConfigIs), pins that are what was published     *)
(* (refreshIntegrityPins) and Claude Code's entry (syncClaudeCodeEntry).    *)
THEOREM ConfigSurvives == ReleaseSpec => []ConfigSound
  <1>1. RelInv => ConfigSound
    <2> SUFFICES ASSUME RelInv PROVE ConfigSound
      OBVIOUS
    <2>1. RelTypeOK
      BY DEF RelInv, RelTyped, RelTypeOK, RunSound, Texts, Runs
    <2>2. PinsArePublished
      BY DEF RelInv, Names, PinsArePublished
    <2> QED BY <2>1, <2>2 DEF RelInv, EntrySound, ConfigSound
  <1> QED BY <1>1, ReleaseInitInv, ReleaseStepInv, PTL DEF ReleaseSpec

(* What a run activated passed its gate (buildRelease), the live release is *)
(* on the disk (cleanupUnactivatedRelease, housekeeping) and so is one that *)
(* a bridge runs from.                                                      *)
THEOREM ReleasesAreKept == ReleaseSpec => []ReleasesKept
  <1>1. RelInv => ReleasesKept
    <2> SUFFICES ASSUME RelInv PROVE ReleasesKept
      OBVIOUS
    <2>1. GatedOnly
      BY DEF RelInv, RunSound, Tested, GatedOnly
    <2>2. LiveExists
      BY DEF RelInv, DiskSound, Stands, Excused, LiveExists, Unverified
    <2>3. InUseKept
      BY DEF RelInv, UseSound, InUseKept
    <2> QED BY <2>1, <2>2, <2>3 DEF ReleasesKept
  <1> QED BY <1>1, ReleaseInitInv, ReleaseStepInv, PTL DEF ReleaseSpec
=============================================================================
