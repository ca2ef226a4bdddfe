------------------------- MODULE ReleaseActivation -------------------------
(***************************************************************************)
(* Activating a release (bin/release-activate.js): the source tree passes  *)
(* the gate, a release folder is built, the Codex config is pointed at it, *)
(* checked and rolled back if unhealthy, Claude Code's entry follows, and  *)
(* old releases are pruned.  Nothing is locked: two runs, an editor of the *)
(* config, changes of the tree, new bridges, a crash and failing commands  *)
(* meet at every read and write.                                           *)
(***************************************************************************)
EXTENDS Integers, FiniteSets

CONSTANTS
    Activators,   \* runs of the program; each builds a folder of its name
    RunModes,     \* functions from Activators to modes
    MaxTouches,   \* bound, for each of RunModes: changes made by others
    MaxFaults     \* bound, for each of RunModes: crashes and failing commands

ASSUME ReleaseAssumption == Activators \cap {"older", "old", "tree", "none"} = {}

VARIABLES
    mode,         \* of each run
    tree,         \* [now, head]: the source tree and its last commit
    disk,         \* what each release folder holds
    manifest,     \* what it held when it was published
    config,       \* the Codex config: [entry, pin, note]; note counts others' edits
    claude,       \* Claude Code's entry, or "none"
    saved,        \* the recovery file, or "none"
    inUse,        \* releases a running bridge loads
    rel,          \* the state of each run
    late, lost,   \* history: edits in the gap before a rename, and overwritten edits
    overlap,      \* history: two runs were past their write at once, or one overwrote the other's
    touches, faults

releasevars == <<mode, tree, disk, manifest, config, claude, saved, inUse, rel, late, lost, overlap, touches, faults>>
outside == <<mode, late, lost, overlap, touches, faults>>

Trees == {"t1", "t2"}
Folders == Activators \cup {"older", "old"}
Nowhere == [entry |-> "none", pin |-> "none", note |-> 0]
NewRun ==
    [at |-> "start", from |-> "none", gate |-> "none", copy |-> "none", blink |-> FALSE,
     orig |-> Nowhere, wrote |-> Nowhere, good |-> FALSE, cur |-> "none"]
RunPlaces ==
    {"start", "gate", "stage", "publish", "digest", "health", "assert", "rename", "smoke", "reassert",
     "restore", "cleanup", "claude", "save", "remove", "add", "readd", "prune", "done", "crashed"}

RelTypeOK ==
    /\ tree \in [now : Trees, head : Trees]
    /\ \A f \in Folders : disk[f] \in Trees \cup {"none", "meddled"} /\ manifest[f] \in Trees \cup {"none"}
    /\ config.entry \in Folders \cup {"tree"} /\ config.pin \in Trees /\ config.note \in Nat
    /\ {claude, saved} \subseteq Folders \cup {"none", "tree"} /\ inUse \subseteq Folders
    /\ \A r \in Activators : rel[r].at \in RunPlaces /\ (rel[r].good => rel[r].wrote # Nowhere)

ReleaseInit ==
    /\ mode \in RunModes
    /\ tree = [now |-> "t1", head |-> "t1"]
    /\ disk = [f \in Folders |-> IF f \in Activators THEN "none" ELSE "t1"] /\ manifest = disk
    /\ config \in {[entry |-> e, pin |-> "t1", note |-> 0] : e \in {"old", "tree"}}
    /\ claude = config.entry /\ saved = "none"
    /\ inUse \in {{}, {"older"}}
    /\ rel = [r \in Activators |-> NewRun]
    /\ late = FALSE /\ lost = FALSE /\ overlap = FALSE /\ touches = 0 /\ faults = 0

-----------------------------------------------------------------------------
(* Others: an editor of the tree or the config, somebody who changes a      *)
(* published release in place, a client that starts a bridge.               *)
Touch == touches < MaxTouches[mode] /\ touches' = touches + 1

ChangeTree ==
    /\ Touch
    /\ \/ /\ \/ tree' = [tree EXCEPT !.now = "t2"] /\ tree.now = "t1"
             \/ tree' = [tree EXCEPT !.now = tree.head] /\ tree.head # tree.now
          /\ rel' = [r \in Activators |-> [rel[r] EXCEPT !.blink = @ \/ rel[r].at \in {"publish", "digest"}]]
       \/ tree' = [tree EXCEPT !.head = tree.now] /\ tree.head # tree.now /\ rel' = rel
    /\ UNCHANGED <<mode, disk, manifest, config, claude, saved, inUse, late, lost, overlap, faults>>

EditConfig ==
    /\ Touch
    /\ config' = [config EXCEPT !.note = @ + 1]
    /\ late' = (late \/ \E r \in Activators : rel[r].at \in {"rename", "restore"})
    /\ UNCHANGED <<mode, tree, disk, manifest, claude, saved, inUse, rel, lost, overlap, faults>>

MeddleWith(f) ==
    /\ Touch
    /\ disk[f] # "none" /\ disk' = [disk EXCEPT ![f] = "meddled"]
    /\ UNCHANGED <<mode, tree, manifest, config, claude, saved, inUse, rel, late, lost, overlap, faults>>

StartBridge ==
    /\ Touch
    /\ config.entry \in Folders /\ disk[config.entry] = config.pin
    /\ inUse' = inUse \cup {config.entry}
    /\ UNCHANGED <<mode, tree, disk, manifest, config, claude, saved, rel, late, lost, overlap, faults>>

-----------------------------------------------------------------------------
Steps(r, at) == rel' = [rel EXCEPT ![r].at = at]
Is(r, at) == rel[r].at = at
Loose(r) == mode[r] \in {"check", "dirty"}
TreeIsClean == tree.now = tree.head

(* Past the write of the config, or at Claude Code's entry.                 *)
InTail(r) ==
    \/ rel[r].at \in {"smoke", "reassert", "restore", "claude", "save", "remove", "add", "readd", "prune"}
    \/ Is(r, "cleanup") /\ rel[r].wrote # Nowhere
Meets(r) == overlap' = (overlap \/ \E o \in Activators \ {r} : InTail(o))

(* rewriteConfig, assertRewritePreservesConfig: the entry and its pins, and *)
(* nothing of what others wrote.                                            *)
Rewritten(text, e, pin) == [text EXCEPT !.entry = e, !.pin = pin]

(* main: the active entry is read; a sync goes to the pins, anything else   *)
(* to a clean tree and the gate.                                            *)
StartRun(r) ==
    /\ Is(r, "start") /\ mode[r] \notin {"sync", "off"}
    /\ rel' = [rel EXCEPT ![r].from = config.entry,
                          ![r].at = IF TreeIsClean \/ Loose(r) THEN "gate" ELSE "done",
                          ![r].gate = tree.now]
    /\ UNCHANGED <<tree, disk, manifest, config, claude, saved, inUse>> /\ UNCHANGED outside

(* runReleaseGate, passReleaseGate: the tree at the end is the one tested.  *)
PassGate(r) ==
    /\ Is(r, "gate")
    /\ \/ tree.now = rel[r].gate /\ Steps(r, "stage")
       \/ Steps(r, "done")
    /\ UNCHANGED <<tree, disk, manifest, config, claude, saved, inUse>> /\ UNCHANGED outside

StageRelease(r) ==
    /\ Is(r, "stage")
    /\ rel' = [rel EXCEPT ![r].copy = tree.now, ![r].at = "publish"]
    /\ UNCHANGED <<tree, disk, manifest, config, claude, saved, inUse>> /\ UNCHANGED outside

(* buildRelease: the tree is looked at again once the files are copied.     *)
Publish(r) ==
    /\ Is(r, "publish")
    /\ IF TreeIsClean \/ Loose(r)
       THEN /\ disk' = [disk EXCEPT ![r] = rel[r].copy] /\ manifest' = [manifest EXCEPT ![r] = rel[r].copy]
            /\ Steps(r, "digest")
       ELSE Steps(r, "done") /\ UNCHANGED <<disk, manifest>>
    /\ UNCHANGED <<tree, config, claude, saved, inUse>> /\ UNCHANGED outside

(* The tree must still be the gated one; then the config to rewrite is read.*)
Redigest(r) ==
    /\ Is(r, "digest")
    /\ rel' = IF tree.now = rel[r].gate
              THEN [rel EXCEPT ![r].at = "health", ![r].orig = config] ELSE [rel EXCEPT ![r].at = "cleanup"]
    /\ UNCHANGED <<tree, disk, manifest, config, claude, saved, inUse>> /\ UNCHANGED outside

(* The candidate is checked in a fresh bridge; then the config is backed up *)
(* if it is still the one that was read.                                    *)
CheckCandidate(r) ==
    /\ Is(r, "health")
    /\ \/ /\ mode[r] # "check" /\ disk[r] = manifest[r] /\ config = rel[r].orig
          /\ rel' = [rel EXCEPT ![r].at = "assert",
                                ![r].wrote = Rewritten(rel[r].orig, r, manifest[r])]
       \/ mode[r] # "check" /\ Steps(r, "cleanup")
       \/ mode[r] = "check" /\ Steps(r, "done")
    /\ UNCHANGED <<tree, disk, manifest, config, claude, saved, inUse>> /\ UNCHANGED outside

(* refreshIntegrityPins up to the text it will write: a working tree is     *)
(* pinned as it is, a release only while it still is what was published.    *)
Repin(r) ==
    /\ Is(r, "start") /\ mode[r] = "sync" /\ Meets(r)
    /\ LET e == config.entry
           actual == IF e = "tree" THEN tree.now ELSE disk[e]
       IN rel' = IF e # "tree" /\ disk[e] # manifest[e]
                 THEN [rel EXCEPT ![r].at = "done"]
                 ELSE IF actual = config.pin THEN [rel EXCEPT ![r].at = "claude", ![r].from = e]
                 ELSE [rel EXCEPT ![r].at = "assert", ![r].from = e, ![r].orig = config,
                                  ![r].wrote = Rewritten(config, e, actual)]
    /\ UNCHANGED <<tree, disk, manifest, config, claude, saved, inUse, mode, late, lost, touches, faults>>

(* Mutant: the live config is not read again before the rename.             *)
ReassertNothing(r) ==
    /\ rel[r].at \in {"assert", "reassert"}
    /\ Steps(r, IF Is(r, "assert") THEN "rename" ELSE "restore")
    /\ UNCHANGED <<tree, disk, manifest, config, claude, saved, inUse>> /\ UNCHANGED outside

GivesUp(r) == IF mode[r] = "sync" THEN "done" ELSE "cleanup"

(* assertLiveConfigIs, before either rename.                                *)
AssertLive(r) ==
    /\ rel[r].at \in {"assert", "reassert"}
    /\ LET first == Is(r, "assert")
           expected == IF first THEN rel[r].orig ELSE rel[r].wrote
       IN Steps(r, IF config # expected THEN GivesUp(r) ELSE IF first THEN "rename" ELSE "restore")
    /\ UNCHANGED <<tree, disk, manifest, config, claude, saved, inUse>> /\ UNCHANGED outside

(* replaceConfigAtomically and restoreConfigFrom: a rename that others'     *)
(* open handles may refuse for good.                                        *)
Replace(r) ==
    /\ rel[r].at \in {"rename", "restore"}
    /\ LET first == Is(r, "rename")
           expected == IF first THEN rel[r].orig ELSE rel[r].wrote
           text == IF first THEN rel[r].wrote ELSE rel[r].orig
       IN /\ overlap' = (overlap \/ Rewritten(config, expected.entry, expected.pin) # config
                                 \/ \E o \in Activators \ {r} : InTail(o))
          /\ \/ /\ config' = text /\ lost' = (lost \/ config.note # expected.note)
                /\ Steps(r, IF first THEN "smoke" ELSE GivesUp(r))
                /\ UNCHANGED faults
             \/ /\ faults < MaxFaults[mode] /\ faults' = faults + 1
                /\ Steps(r, GivesUp(r)) /\ UNCHANGED <<config, lost>>
    /\ UNCHANGED <<mode, tree, disk, manifest, claude, saved, inUse, late, touches>>

(* runHealthSmoke: a bridge started from the live config; one whose pins do *)
(* not fit what it loads cannot be healthy.                                 *)
Smoke(r) ==
    /\ Is(r, "smoke")
    /\ \/ /\ config.pin = IF config.entry = "tree" THEN tree.now ELSE disk[config.entry]
          /\ rel' = [rel EXCEPT ![r].at = "claude", ![r].good = TRUE]
       \/ Steps(r, "reassert")
    /\ UNCHANGED <<tree, disk, manifest, config, claude, saved, inUse>> /\ UNCHANGED outside

(* Mutant: a failed candidate is removed without a look at the live config. *)
CleanupBlindly(r) ==
    /\ Is(r, "cleanup")
    /\ disk' = [disk EXCEPT ![r] = "none"] /\ Steps(r, "done")
    /\ UNCHANGED <<tree, manifest, config, claude, saved, inUse>> /\ UNCHANGED outside

(* cleanupUnactivatedRelease.                                               *)
Cleanup(r) ==
    /\ Is(r, "cleanup")
    /\ \/ config.entry # r /\ disk' = [disk EXCEPT ![r] = "none"]
       \/ UNCHANGED disk   \* it is referenced, or the config cannot be read
    /\ Steps(r, "done")
    /\ UNCHANGED <<tree, manifest, config, claude, saved, inUse>> /\ UNCHANGED outside

-----------------------------------------------------------------------------
(* syncClaudeCodeEntry.  A command of the Claude CLI may fail; add-json     *)
(* refuses a name that exists, remove one that does not.                    *)
After(r) == IF mode[r] = "prune" THEN "prune" ELSE "done"
Adds(e) == claude = "none" /\ claude' = e

ReadClaude(r) ==
    /\ Is(r, "claude")
    /\ \/ /\ claude # "none" /\ saved' = "none"
          /\ rel' = [rel EXCEPT ![r].cur = claude,
                                ![r].at = IF claude = config.entry THEN After(r) ELSE "save"]
       \/ claude = "none" /\ Steps(r, IF saved = "none" THEN After(r) ELSE "readd") /\ UNCHANGED saved
       \/ Steps(r, After(r)) /\ UNCHANGED saved   \* skipped, no CLI, or an unreadable config
    /\ UNCHANGED <<tree, disk, manifest, config, claude, inUse>> /\ UNCHANGED outside

(* The entry an interrupted run left out is restored from the file first.   *)
RestoreSaved(r) ==
    /\ Is(r, "readd")
    /\ \/ saved # "none" /\ Adds(saved) /\ Steps(r, "claude") /\ UNCHANGED faults
       \/ claude # "none" /\ Steps(r, After(r)) /\ UNCHANGED <<claude, faults>>
       \/ /\ faults < MaxFaults[mode] /\ faults' = faults + 1
          /\ Steps(r, After(r)) /\ UNCHANGED claude
       \/ saved = "none" /\ Steps(r, After(r)) /\ UNCHANGED <<claude, faults>>
    /\ UNCHANGED <<mode, tree, disk, manifest, config, saved, inUse, late, lost, overlap, touches>>

SaveEntry(r) ==
    /\ Is(r, "save")
    /\ saved' = rel[r].cur /\ Steps(r, "remove")
    /\ UNCHANGED <<tree, disk, manifest, config, claude, inUse>> /\ UNCHANGED outside

RemoveEntry(r) ==
    /\ Is(r, "remove")
    /\ \/ claude # "none" /\ claude' = "none" /\ Steps(r, "add") /\ UNCHANGED <<saved, faults>>
       \/ claude = "none" /\ Steps(r, After(r)) /\ UNCHANGED <<claude, saved, faults>>
       \/ /\ claude # "none" /\ faults < MaxFaults[mode] /\ faults' = faults + 1
          /\ saved' = "none" /\ Steps(r, After(r)) /\ UNCHANGED claude
    /\ UNCHANGED <<mode, tree, disk, manifest, config, inUse, late, lost, overlap, touches>>

(* The new entry, else the previous one back, else what the file holds.     *)
AddEntry(r) ==
    /\ Is(r, "add")
    /\ \/ Adds(config.entry) /\ saved' = "none" /\ UNCHANGED faults
       \/ /\ faults < MaxFaults[mode] /\ faults' = faults + 1
          /\ \/ Adds(rel[r].cur) /\ saved' = "none"
             \/ claude = "none" /\ UNCHANGED <<claude, saved>>
       \/ claude # "none" /\ UNCHANGED <<claude, saved, faults>>
    /\ Steps(r, After(r))
    /\ UNCHANGED <<mode, tree, disk, manifest, config, inUse, late, lost, overlap, touches>>

(* housekeeping.                                                            *)
Prune(r) ==
    /\ Is(r, "prune")
    /\ \/ disk' = [f \in Folders |-> IF f \in {r, rel[r].from} \cup inUse THEN disk[f] ELSE "none"]
       \/ UNCHANGED disk   \* the running processes could not be listed
    /\ Steps(r, "done")
    /\ UNCHANGED <<tree, manifest, config, claude, saved, inUse>> /\ UNCHANGED outside

CrashRun(r) ==
    /\ ~rel[r].at \in {"start", "done", "crashed"} /\ faults < MaxFaults[mode]
    /\ faults' = faults + 1 /\ Steps(r, "crashed")
    /\ UNCHANGED <<mode, tree, disk, manifest, config, claude, saved, inUse, late, lost, overlap, touches>>

ReleaseStep(r) ==
    \/ StartRun(r) \/ PassGate(r) \/ StageRelease(r) \/ Publish(r) \/ Redigest(r) \/ CheckCandidate(r)
    \/ Repin(r) \/ AssertLive(r) \/ Replace(r) \/ Smoke(r) \/ Cleanup(r)
    \/ ReadClaude(r) \/ RestoreSaved(r) \/ SaveEntry(r) \/ RemoveEntry(r) \/ AddEntry(r) \/ Prune(r)

ReleaseNext ==
    \/ \E r \in Activators : ReleaseStep(r) \/ CrashRun(r)
    \/ ChangeTree \/ EditConfig \/ StartBridge \/ \E f \in Folders : MeddleWith(f)

ReleaseSpec == ReleaseInit /\ [][ReleaseNext]_releasevars

-----------------------------------------------------------------------------
(* What a run activated is the tree that passed its gate, unless the tree   *)
(* was changed, and put back, while the files were copied.                  *)
GatedOnly ==
    \A r \in Activators : rel[r].good /\ mode[r] # "sync" => manifest[r] = rel[r].gate \/ rel[r].blink

(* An edit of the config by others is overwritten only if it was made       *)
(* between a run's last read and its rename.                                *)
EditsKept == lost => late

Unverified(r) ==
    ~rel[r].good /\ rel[r].wrote.entry = config.entry /\ rel[r].wrote.pin = config.pin

(* A live config that names a release pins what was published as that       *)
(* release, whatever is on the disk now and whichever run wrote it last.    *)
PinsArePublished == config.entry \in Folders => config.pin = manifest[config.entry]

(* The live config names a release that is there: failed activations,       *)
(* restores and prunes delete none it names, unless two runs are past their *)
(* write at once.  Another run may prune a candidate just before it goes    *)
(* live: that write does not pass its check.                                *)
LiveExists ==
    config.entry \in Folders =>
        \/ disk[config.entry] # "none" \/ overlap
        \/ \E r, o \in Activators : r # o /\ mode[o] = "prune" /\ Unverified(r)

(* A release some bridge runs from is not deleted under it, unless it is a  *)
(* candidate that failed its check (or two runs overlap as above).          *)
InUseKept ==
    \A f \in inUse : disk[f] # "none" \/ overlap \/ (f \in Activators /\ ~rel[f].good)

(* No crash and no failing command loses Claude Code's entry: while it is   *)
(* missing the recovery file holds it, unless two runs overlap as above.    *)
EntryRecoverable == claude # "none" \/ saved # "none" \/ overlap

(* The configurations of the clients survive every run of                   *)
(* bin/release-activate.js: edits, pins and Claude Code's entry.            *)
ConfigSound == RelTypeOK /\ EditsKept /\ PinsArePublished /\ EntryRecoverable

(* So do the releases: what goes live passed the gate, and what is live or  *)
(* in use stays on the disk.                                                *)
ReleasesKept == GatedOnly /\ LiveExists /\ InUseKept
=============================================================================
