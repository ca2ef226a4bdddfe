----------------------------- MODULE Pipelines -----------------------------
(***************************************************************************)
(* A durable multi-agent pipeline (lib/pipelines.js, lib/pipelines/,       *)
(* lib/tools/pipelines.js, lib/tools/integration.js): its row, the records *)
(* the bridges hold of it, and the calls that start, read, integrate,      *)
(* abandon and finalize it or resume its cleanup.  Every call works on a   *)
(* record object, which calls of one bridge may share, and every write of  *)
(* a record is one revision-checked transaction.                           *)
(***************************************************************************)
EXTENDS Integers, FiniteSets, Sequences, TLC

CONSTANTS
    PlBridges,   \* bridge processes
    PlItems,     \* the writers' retained worktrees, entries of integrationQueue
    PlScenarios, \* sequences of records [kind, at, item]: the calls of a behaviour
    PlMaxEvents  \* bound: edits, crashes, leases slept past

PlCalls == [kind : {"run", "get", "integrate", "abandon", "finalize", "recover"}, at : PlBridges, item : PlItems]
ASSUME PlAssumption ==
    /\ PlMaxEvents \in Nat /\ PlItems # {} /\ IsFiniteSet(PlItems)
    /\ PlScenarios \subseteq Seq(PlCalls) \ {<<>>}

VARIABLES
    plan,     \* the calls of this behaviour
    row,      \* the row of opencode_pipelines
    leased,   \* its owner lease is unexpired
    instance, \* bridges with an unexpired row in bridge_instances
    running,    \* bridges that run
    kids,     \* the children: "none", "active", "completed" or "failed"
    heap,     \* record objects: 0 of the creating call, c of the call c that read the row
    runs,     \* PIPELINE_RUNS of each bridge: an object or NoObject
    call,     \* [pc, obj, patch, value, locked, ver, saw, out] of each call
    journal,       \* the journal operation of each integrating call
    merged,   \* items whose patch is in the checkout
    edits,    \* changes of the checkout by others
    source,   \* each retained worktree: "kept", "edited" or "removed"
    promised, \* history: sources an abandonment said it retains
    permitted,\* history: items a durable authorization named
    torn,     \* history: a record in use was brought to the row's revision unread
    events

pipelinevars == <<plan, row, leased, instance, running, kids, heap, runs, call, journal, merged, edits,
                  source, promised, permitted, torn, events>>
durable == <<row, leased, instance, kids, permitted, promised>>
outside == <<plan, running, torn, events, edits, kids, instance>>

NoObject == -1
Closed == {"completed", "failed", "cancelled"}
FrozenStatuses == Closed \cup {"cleanup_pending", "cleanup_failed", "finalizing"}
Statuses == FrozenStatuses \cup {"planned", "running", "awaiting_integration", "awaiting_finalization"}
ItemStatuses == {"planned", "pending", "integrating", "integrated", "rejected", "quarantined"}
Outcomes == {"none", "authorized", "success", "retained", "failed"}
Ids == DOMAIN plan
At(c) == plan[c].at
Kind(c) == plan[c].kind
Mine(c) == heap[call[c].obj]
Version == [merged |-> merged, edits |-> edits]
NoVersion == [merged |-> {}, edits |-> -1]
IdleCall == [pc |-> "idle", obj |-> NoObject, patch |-> "", value |-> "", locked |-> FALSE,
             ver |-> NoVersion, saw |-> NoVersion, out |-> [i \in PlItems |-> "none"]]

PlTypeOK ==
    /\ row.status \in Statuses /\ row.rev \in Nat /\ row.gen \in Nat /\ row.owner \in PlBridges
    /\ row.item \in [PlItems -> ItemStatuses] /\ row.asked \subseteq PlItems
    /\ row.outcome \in [PlItems -> Outcomes]
    /\ leased \in BOOLEAN /\ instance \subseteq PlBridges /\ running \subseteq PlBridges
    /\ \A c \in Ids : call[c].pc # "idle" /\ call[c].pc # "done" => call[c].obj \in 0..Len(plan)
    /\ journal \in [Ids -> {"none", "prepared", "committed", "undone", "quarantined"}]
    /\ source \in [PlItems -> {"kept", "edited", "removed"}] /\ merged \subseteq PlItems

(* A pipeline is met as it was created, or with its writers completed and   *)
(* their work awaiting review.  Its creator holds the record in memory.     *)
PipelinesInit ==
    /\ plan \in PlScenarios
    /\ \E fresh \in BOOLEAN :
         /\ fresh <=> \E c \in Ids : Kind(c) = "run"
         /\ kids = IF fresh THEN "none" ELSE "completed"
         /\ row = [status |-> IF fresh THEN "planned" ELSE "awaiting_integration", rev |-> 0, gen |-> 0,
                   owner |-> plan[1].at,
                   item |-> [i \in PlItems |-> IF fresh THEN "planned" ELSE "pending"],
                   by |-> [i \in PlItems |-> 0], asked |-> {}, auth |-> {}, authAt |-> NoVersion,
                   outcome |-> [i \in PlItems |-> "none"]]
    /\ leased = TRUE /\ instance = PlBridges /\ running = PlBridges
    /\ heap = [o \in 0..Len(plan) |-> row]
    /\ runs = [b \in PlBridges |-> IF b = row.owner THEN 0 ELSE NoObject]
    /\ call = [c \in Ids |-> IdleCall] /\ journal = [c \in Ids |-> "none"]
    /\ merged = {} /\ edits = 0 /\ source = [i \in PlItems |-> "kept"]
    /\ promised = {} /\ permitted = {} /\ torn = FALSE /\ events = 0

PlGo(c, pc) == call' = [call EXCEPT ![c].pc = pc]
WriteNext(c, patch, value) ==
    call' = [call EXCEPT ![c].pc = "write", ![c].patch = patch, ![c].value = value]
EndCall(c) == call' = [call EXCEPT ![c] = [IdleCall EXCEPT !.pc = "done"]]

-----------------------------------------------------------------------------
(* A call reads the row (authoritativePipelineRecord): an object of the     *)
(* same generation and revision is reused, otherwise the call gets its own. *)
(* A recovery pass always reads its own; whether it resumes a cleanup or    *)
(* aggregates the children is settled when it lists its candidates.         *)
CleanupCandidate == row.status \in {"cleanup_pending", "cleanup_failed"}
AggregateCandidate == row.status = "running" /\ kids \in {"completed", "failed"}
Finalizing(b) == \E c \in Ids : /\ Kind(c) = "finalize" /\ At(c) = b
                                /\ call[c].pc \notin {"idle", "read", "claim", "opened", "done"}
RecoveryRuns(b) == \E c \in Ids : Kind(c) = "recover" /\ At(c) = b /\ call[c].pc \notin {"idle", "done"}

(* A pass that resumes the cleanup, not one that aggregates.               *)
Cleans(c) == Kind(c) = "recover" /\ call[c].value = "cleanup"

Known(b) ==
    /\ runs[b] # NoObject
    /\ heap[runs[b]].owner = row.owner /\ heap[runs[b]].gen = row.gen /\ heap[runs[b]].rev = row.rev

ReadRecord(c) ==
    /\ call[c].pc = "idle" /\ At(c) \in running
    /\ Kind(c) = "recover" => /\ CleanupCandidate \/ AggregateCandidate
                              /\ ~RecoveryRuns(At(c)) /\ ~Finalizing(At(c))
    /\ LET o == IF Known(At(c)) /\ Kind(c) # "recover" THEN runs[At(c)] ELSE c
           foreign == row.owner # At(c) \/ Kind(c) = "recover"
       IN /\ heap' = [heap EXCEPT ![o] = row]
          /\ call' = [call EXCEPT
               ![c].obj = o,
               ![c].value = IF Kind(c) = "recover" /\ CleanupCandidate THEN "cleanup" ELSE "",
               ![c].pc = IF (Kind(c) = "get" /\ foreign) \/ (Kind(c) = "abandon" /\ row.status \in Closed)
                           THEN "done" ELSE IF foreign THEN "claim" ELSE "opened"]
          /\ runs' = IF foreign \/ runs[At(c)] # NoObject \/ Kind(c) \in {"run", "abandon"}
                       THEN runs ELSE [runs EXCEPT ![At(c)] = o]
    /\ UNCHANGED <<plan, row, leased, instance, running, kids, journal, merged, edits, source, promised,
                   permitted, torn, events>>

FreeToTake(c) == ~leased /\ row.owner \notin instance

(* Another call under way works on the same record object.  History: a      *)
(* claim or a refused write brings the object to the row's revision without *)
(* reading the row's items; what is written next through an object that is  *)
(* still in use is accepted although it goes by what was read before (torn).*)
Shared(c) == \E d \in Ids \ {c} : call[d].obj = call[c].obj /\ call[d].pc \notin {"idle", "done"}

(* claimPersistedPipeline: the row's state joins what the call had read.    *)
ClaimRecord(c) ==
    /\ call[c].pc = "claim" /\ At(c) \in running
    /\ LET own == row.owner = At(c) /\ Mine(c).gen = row.gen
           taken == ~own /\ FreeToTake(c)
           adopted == [row EXCEPT !.item = Mine(c).item, !.by = Mine(c).by, !.asked = Mine(c).asked,
                                  !.auth = Mine(c).auth, !.authAt = Mine(c).authAt,
                                  !.outcome = Mine(c).outcome]
           skip == \/ (Kind(c) = "recover" /\ ~Cleans(c) /\ own)
                   \/ (Cleans(c) /\ (Finalizing(At(c)) \/ (own /\ row.status # "cleanup_failed")))
       IN IF row.status \in Closed \/ ~(own \/ taken)
            THEN /\ heap' = [heap EXCEPT ![call[c].obj] = adopted]
                 /\ EndCall(c)
                 /\ torn' = (torn \/ Shared(c))
                 /\ UNCHANGED <<row, leased, runs>>
            ELSE /\ row' = IF own THEN row ELSE [row EXCEPT !.rev = @ + 1, !.gen = @ + 1, !.owner = At(c)]
                 /\ leased' = TRUE
                 /\ heap' = [heap EXCEPT ![call[c].obj] =
                               [adopted EXCEPT !.rev = row'.rev, !.gen = row'.gen, !.owner = row'.owner]]
                 /\ runs' = [runs EXCEPT ![At(c)] = call[c].obj]
                 /\ torn' = (torn \/ Shared(c) \/ (~skip /\ heap'[call[c].obj] # row'))
                 /\ IF skip THEN EndCall(c) ELSE PlGo(c, "opened")
    /\ UNCHANGED <<plan, instance, running, kids, journal, merged, edits, source, promised, permitted, events>>

-----------------------------------------------------------------------------
(* What a write makes of the record it finds when it runs.                  *)
Settled(o, i) ==
    CASE journal[o.by[i]] = "committed" -> "integrated"
      [] journal[o.by[i]] = "undone" -> "pending"
      [] journal[o.by[i]] = "quarantined" -> "quarantined"
      [] OTHER -> o.item[i]

AllIntegrated(o) == \A i \in PlItems : o.item[i] = "integrated"

(* The journal decides about items that were integrating or quarantined.    *)
Reconciled(o) ==
    LET unsure == {i \in PlItems : o.item[i] \in {"integrating", "quarantined"} /\ o.by[i] # 0}
        n == [o EXCEPT !.item = [i \in PlItems |-> IF i \in unsure THEN Settled(o, i) ELSE o.item[i]]]
    IN IF n # o /\ AllIntegrated(n) /\ n.status = "awaiting_integration"
         THEN [n EXCEPT !.status = "awaiting_finalization"] ELSE n

(* refreshPipelineRecord: the children decide, unless the record is past    *)
(* it; its write of the journal's verdict and of the children's is one.     *)
Refreshed(o) ==
    LET n == Reconciled(o)
    IN IF o.status \in FrozenStatuses THEN o
       ELSE CASE kids = "failed" -> [n EXCEPT !.status = "failed"]
              [] kids = "active" -> [n EXCEPT !.status = "running"]
              [] kids = "completed" /\ AllIntegrated(n) -> [n EXCEPT !.status = "awaiting_finalization"]
              [] kids = "completed" /\ ~AllIntegrated(n) ->
                   [n EXCEPT !.status = "awaiting_integration",
                             !.item = [i \in PlItems |-> IF n.item[i] = "planned" THEN "pending" ELSE n.item[i]]]
              [] OTHER -> n

(* The item after an integration call (nextPipelineIntegrationItemStatus).  *)
ItemAfter(c, o) ==
    CASE call[c].value \in {"applied", "applied_and_asked"} -> "integrated"
      [] call[c].value = "refused" -> "rejected"
      [] /\ call[c].value = "blocked" /\ o.by[plan[c].item] # 0
         /\ journal[o.by[plan[c].item]] = "quarantined" -> "quarantined"
      [] OTHER -> "pending"

WithResult(c, o) ==
    LET i == plan[c].item
        n == [o EXCEPT !.item[i] = ItemAfter(c, o),
                       !.by[i] = IF journal[c] = "committed" THEN c ELSE @,
                       !.asked = IF call[c].value = "applied_and_asked" THEN @ \cup {i} ELSE @ \ {i}]
    IN IF n.item[i] = "integrated" /\ AllIntegrated(n) /\ n.status \notin Closed
         THEN [n EXCEPT !.status = "awaiting_finalization"] ELSE n

(* Mutant: abandonment does not look for an item that is being applied.     *)
RefusedHasty(c, o) ==
    \/ call[c].patch \in {"reserve", "finalizing"} /\ o.status \in Closed
    \/ call[c].patch = "abandon" /\ o.status \in {"finalizing", "cleanup_pending"}
Refused(c, o) ==
    \/ call[c].patch \in {"reserve", "finalizing"} /\ o.status \in Closed
    \/ /\ call[c].patch = "abandon"
       /\ (o.status \in {"finalizing", "cleanup_pending"}) \/ \E i \in PlItems : o.item[i] = "integrating"

Patched(c, o) ==
    CASE call[c].patch = "refresh" -> Refreshed(o)
      [] call[c].patch = "reconcile" -> Reconciled(o)
      [] call[c].patch = "reserve" ->
           [o EXCEPT !.item[plan[c].item] = "integrating", !.by[plan[c].item] = c]
      [] call[c].patch = "result" -> WithResult(c, o)
      [] call[c].patch = "abandon" -> [o EXCEPT !.status = "cancelled"]
      [] call[c].patch = "finalizing" -> [o EXCEPT !.status = "finalizing"]
      [] call[c].patch = "defer" ->
           IF o.status \in Closed THEN o ELSE [o EXCEPT !.status = "awaiting_finalization"]
      [] call[c].patch = "set" -> [o EXCEPT !.status = call[c].value]
      [] call[c].patch = "authorize" ->
           [o EXCEPT !.status = "cleanup_pending", !.auth = {i \in PlItems : call[c].out[i] = "authorized"},
                     !.authAt = call[c].ver, !.outcome = call[c].out]
      [] call[c].patch = "finish" ->
           [o EXCEPT !.outcome = call[c].out,
                     !.status = IF \E i \in PlItems : call[c].out[i] = "failed"
                                  THEN "cleanup_failed" ELSE "completed"]
      [] call[c].patch = "retain" -> [o EXCEPT !.status = "completed"]
      [] OTHER -> o

Quiet(c, o) == call[c].patch \in {"refresh", "reconcile"} /\ Patched(c, o) = o

(* Where a call goes on after a write that was done or had nothing to do,   *)
(* was refused by the record, or threw.                                     *)
AfterWrite(c) ==
    CASE call[c].patch = "refresh" -> IF Kind(c) \in {"get", "recover"} THEN "done"
                                      ELSE IF Kind(c) = "integrate" THEN "reconcile" ELSE "check"
      [] call[c].patch = "reconcile" -> IF Kind(c) = "integrate" THEN "check" ELSE "refresh"
      [] call[c].patch = "reserve" -> "apply"
      [] call[c].patch = "finalizing" -> "capture"
      [] call[c].patch = "authorize" -> "remove"
      [] OTHER -> "done"
AfterFailure(c) == IF call[c].patch = "reserve" THEN "unwind" ELSE "done"
PlAccepted(c) ==
    /\ row.rev = Mine(c).rev /\ row.owner = Mine(c).owner /\ row.gen = Mine(c).gen
    /\ row.owner \in instance

Moved(c, pc) ==
    IF pc = "done" THEN EndCall(c)
    ELSE IF pc \in {"refresh", "reconcile"} THEN WriteNext(c, pc, "") ELSE PlGo(c, pc)

(* A refused reservation undoes its prepared operation and writes nothing.  *)
EndRefused(c) ==
    /\ EndCall(c)
    /\ journal' = IF call[c].patch = "reserve" /\ call[c].locked /\ journal[c] = "prepared"
               THEN [journal EXCEPT ![c] = "undone"] ELSE journal

(* History: an abandonment promises to retain what is there.  Three cases   *)
(* in which the code takes that back are left out of the promise: removals  *)
(* under way, or a recovery already past its claim; a finalization under    *)
(* way that works with the row's version (a late integration result         *)
(* reopened it), unseen by the abandonment;                                 *)
(* and a refusal written by a finalization that had read the record before. *)
CleanupUnderWay ==
    \E c \in Ids : call[c].pc = "remove" \/ (Kind(c) = "recover" /\ call[c].pc \notin {"idle", "claim", "done"})
ReopenedUnderWay ==
    \E c \in {d \in Ids : Kind(d) = "finalize"} :
      /\ \/ call[c].pc \in {"capture", "validate", "gates", "recheck", "sources"}
         \/ call[c].pc = "write" /\ call[c].patch \in {"authorize", "finish"}
      /\ Mine(c).rev = row.rev
Promise(c, o) ==
    CASE call[c].patch = "abandon" /\ ~CleanupUnderWay /\ ~ReopenedUnderWay ->
             {i \in PlItems : source[i] # "removed"}
      [] call[c].patch = "set" /\ o.status = "cancelled" -> {}
      [] OTHER -> promised

(* updatePipelineRecord.  One write of a bridge runs at a time; computing   *)
(* it and its transaction are one step, for the revision has to agree.      *)
WriteRecord(c) ==
    /\ call[c].pc = "write" /\ At(c) \in running
    /\ LET o == Mine(c)
           n == [Patched(c, o) EXCEPT !.rev = o.rev + 1]
       IN \/ /\ o.owner = At(c) /\ Refused(c, o)
             /\ EndRefused(c) /\ UNCHANGED <<durable, heap, torn>>
          \/ /\ o.owner = At(c) /\ ~Refused(c, o) /\ Quiet(c, o)
             /\ Moved(c, AfterWrite(c)) /\ UNCHANGED <<durable, heap, journal, torn>>
          \/ /\ o.owner = At(c) /\ ~Refused(c, o) /\ ~Quiet(c, o) /\ PlAccepted(c)
             /\ row' = n /\ leased' = TRUE /\ heap' = [heap EXCEPT ![call[c].obj] = n]
             /\ permitted' = IF call[c].patch = "authorize" THEN permitted \cup n.auth ELSE permitted
             /\ promised' = Promise(c, o)
             /\ Moved(c, AfterWrite(c)) /\ UNCHANGED <<instance, kids, journal, torn>>
          \/ /\ o.owner # At(c) /\ UNCHANGED <<heap, torn>>
             /\ Moved(c, AfterFailure(c)) /\ UNCHANGED <<durable, journal>>
          \/ /\ o.owner = At(c) /\ ~(Refused(c, o) \/ Quiet(c, o) \/ PlAccepted(c))
             /\ LET stale == [o EXCEPT !.status = row.status, !.rev = row.rev, !.gen = row.gen, !.owner = row.owner]
                IN /\ heap' = [heap EXCEPT ![call[c].obj] = stale]
                   /\ torn' = (torn \/ Shared(c) \/ (AfterFailure(c) # "done" /\ stale # row))
             /\ Moved(c, AfterFailure(c)) /\ UNCHANGED <<durable, journal>>
    /\ UNCHANGED <<plan, running, runs, merged, edits, source, events>>

-----------------------------------------------------------------------------
(* run_multi_agent_pipeline: the children and the pipeline are one          *)
(* transaction (activatePipelineBatch).                                     *)
StartPipeline(c) ==
    /\ Kind(c) = "run" /\ call[c].pc = "opened"
    /\ IF Mine(c).status # "planned" THEN EndCall(c)
       ELSE \/ WriteNext(c, "set", "failed")
            \/ PlGo(c, "activate")
    /\ UNCHANGED <<durable, outside, heap, runs, journal, merged, source>>

ActivateChildren(c) ==
    /\ Kind(c) = "run" /\ call[c].pc = "activate"
    /\ IF PlAccepted(c) /\ row.status = "planned" /\ kids = "none" /\ leased
         THEN /\ row' = [Mine(c) EXCEPT !.status = "running", !.rev = @ + 1]
              /\ heap' = [heap EXCEPT ![call[c].obj] = row']
              /\ runs' = [runs EXCEPT ![At(c)] = call[c].obj]
              /\ kids' = "active" /\ leased' = TRUE
         ELSE UNCHANGED <<row, heap, runs, kids, leased>>
    /\ EndCall(c)
    /\ UNCHANGED <<plan, instance, running, journal, merged, edits, source, promised, permitted, torn, events>>

(* The last child ends; a failure fails the pipeline in its transaction.    *)
ChildrenEnd ==
    /\ kids = "active"
    /\ \E how \in {"completed", "failed"} :
         /\ kids' = how
         /\ row' = IF how = "failed" /\ row.status \in {"planned", "running"}
                     THEN [row EXCEPT !.status = "failed", !.rev = @ + 1] ELSE row
    /\ UNCHANGED <<plan, leased, instance, running, heap, runs, call, journal, merged, edits, source,
                   promised, permitted, torn, events>>

-----------------------------------------------------------------------------
(* integrate_opencode_worktree on an item of the pipeline.                  *)
BeginCall(c) ==
    /\ call[c].pc = "opened" /\ Kind(c) \in {"get", "integrate", "recover"}
    /\ IF Cleans(c) THEN PlGo(c, "resume") ELSE WriteNext(c, "refresh", "")
    /\ UNCHANGED <<durable, outside, heap, runs, journal, merged, source>>

Unlocked == \A d \in Ids : ~call[d].locked
OpenOps == {d \in Ids : journal[d] = "prepared"}
Blocked == \E d \in Ids : journal[d] = "quarantined"
(* Its source identity or the policy's trust may not be attested either.    *)
CheckItem(c) ==
    /\ Kind(c) = "integrate" /\ call[c].pc = "check"
    /\ \/ EndCall(c)
       \/ /\ Mine(c).status \notin Closed /\ Mine(c).item[plan[c].item] \in {"pending", "integrating"}
          /\ PlGo(c, "lock")
    /\ UNCHANGED <<durable, outside, heap, runs, journal, merged, source>>

(* The serial lock of the repository, and recovery of an open operation     *)
(* under it: it goes back to what it was, or is quarantined.                *)
RecoverOpen(kind) == journal' = [d \in Ids |-> IF journal[d] = "prepared" THEN kind ELSE journal[d]]

LockRepository(c) ==
    /\ Kind(c) = "integrate" /\ call[c].pc = "lock"
    /\ IF ~Unlocked \/ source[plan[c].item] = "removed"
         THEN WriteNext(c, "result", "retry") /\ UNCHANGED journal
         ELSE \E kind \in {"undone", "quarantined"} :
                /\ OpenOps = {} => kind = "undone"
                /\ RecoverOpen(kind)
                /\ IF Blocked \/ (OpenOps # {} /\ kind = "quarantined")
                     THEN \E value \in {"blocked", "retry"} : WriteNext(c, "result", value)
                   ELSE IF source[plan[c].item] = "edited" THEN WriteNext(c, "result", "refused")
                   ELSE call' = [call EXCEPT ![c].pc = "prepare", ![c].locked = TRUE]
    /\ UNCHANGED <<durable, outside, heap, runs, merged, source>>

PrepareOperation(c) ==
    /\ call[c].pc = "prepare"
    /\ \/ /\ call[c].locked
          /\ journal' = [journal EXCEPT ![c] = "prepared"]
          /\ WriteNext(c, "reserve", "")
       \/ /\ call' = [call EXCEPT ![c].pc = "write", ![c].patch = "result", ![c].locked = FALSE,
                                  ![c].value = IF call[c].locked THEN "refused" ELSE "retry"]
          /\ UNCHANGED journal
    /\ UNCHANGED <<durable, outside, heap, runs, merged, source>>

(* The patch is written, validated and committed in the journal, or the     *)
(* operation goes back; both only under an unexpired lock.                  *)
ApplyPatch(c) ==
    /\ call[c].pc = "apply"
    /\ \/ /\ call[c].locked /\ journal[c] = "prepared"
          /\ journal' = [journal EXCEPT ![c] = "committed"]
          /\ merged' = merged \cup {plan[c].item}
          /\ \E asked \in BOOLEAN : call' = [call EXCEPT ![c].pc = "write", ![c].patch = "result", ![c].locked = FALSE,
                                       ![c].value = IF asked THEN "applied_and_asked" ELSE "applied"]
       \/ PlGo(c, "unwind") /\ UNCHANGED <<journal, merged>>
    /\ UNCHANGED <<durable, outside, heap, runs, source>>

UnwindOperation(c) ==
    /\ call[c].pc = "unwind"
    /\ journal' = IF call[c].locked /\ journal[c] = "prepared" THEN [journal EXCEPT ![c] = "undone"] ELSE journal
    /\ call' = [call EXCEPT ![c].pc = "write", ![c].patch = "result", ![c].value = "retry", ![c].locked = FALSE]
    /\ UNCHANGED <<durable, outside, heap, runs, merged, source>>

(* A recovery pass of any bridge, when nobody holds the repository; it also *)
(* closes a quarantine whose files are back.                                *)
RecoverJournal ==
    /\ Unlocked /\ running # {}
    /\ \/ OpenOps # {} /\ \E kind \in {"undone", "quarantined"} : RecoverOpen(kind)
       \/ Blocked /\ journal' = [d \in Ids |-> IF journal[d] = "quarantined" THEN "undone" ELSE journal[d]]
    /\ UNCHANGED <<durable, outside, heap, runs, call, merged, source>>

-----------------------------------------------------------------------------
(* abandon_multi_agent_pipeline.                                            *)
CheckAbandon(c) ==
    /\ Kind(c) = "abandon" /\ call[c].pc = "opened"
    /\ IF kids = "active" \/ \E i \in PlItems : Mine(c).item[i] = "integrating"
         THEN EndCall(c) ELSE WriteNext(c, "abandon", "")
    /\ UNCHANGED <<durable, outside, heap, runs, journal, merged, source>>

-----------------------------------------------------------------------------
(* finalize_multi_agent_pipeline, one at a time in a bridge, under a read   *)
(* lease of the repository.                                                 *)
OpenFinalization(c) ==
    /\ Kind(c) = "finalize" /\ call[c].pc = "opened"
    /\ IF Finalizing(At(c)) \/ \E d \in Ids : call[d].locked /\ Kind(d) = "integrate" THEN EndCall(c)
       ELSE call' = [call EXCEPT ![c].pc = "write", ![c].patch = "reconcile", ![c].locked = TRUE]
    /\ UNCHANGED <<durable, outside, heap, runs, journal, merged, source>>

(* The status is looked at once; what a refusal writes is computed here.    *)
CheckFinalization(c) ==
    /\ Kind(c) = "finalize" /\ call[c].pc = "check"
    /\ LET o == Mine(c)
           pending == ~AllIntegrated(o)
       IN CASE o.status \in {"completed", "cleanup_pending", "cleanup_failed"} -> EndCall(c)
            [] o.status \in {"failed", "cancelled"} -> WriteNext(c, "note", "")
            [] OTHER ->
                 IF pending
                   THEN IF o.status \in {"awaiting_finalization", "finalizing"}
                          THEN WriteNext(c, "set", "awaiting_integration") ELSE WriteNext(c, "note", "")
                   ELSE IF o.status \in {"awaiting_finalization", "finalizing"}
                          THEN PlGo(c, "policy") ELSE WriteNext(c, "note", "")
    /\ UNCHANGED <<durable, outside, heap, runs, journal, merged, source>>

(* The project policy is read again and may no longer be trusted.           *)
CheckPolicy(c) ==
    /\ call[c].pc = "policy"
    /\ \/ WriteNext(c, "set", "awaiting_finalization")
       \/ WriteNext(c, "finalizing", "")
    /\ UNCHANGED <<durable, outside, heap, runs, journal, merged, source>>

CaptureTarget(c) ==
    /\ call[c].pc = "capture"
    /\ call' = [call EXCEPT ![c].pc = "validate", ![c].ver = Version]
    /\ UNCHANGED <<durable, outside, heap, runs, journal, merged, source>>

(* The final validation passes, judges the result, or could not be run; a   *)
(* checkout that moved meanwhile is not judged.                             *)
Validate(c) ==
    /\ call[c].pc = "validate"
    /\ \/ call[c].ver = Version /\ PlGo(c, "gates")
       \/ call[c].locked /\ WriteNext(c, "set", "failed")
       \/ WriteNext(c, "defer", "")
    /\ UNCHANGED <<durable, outside, heap, runs, journal, merged, source>>

(* The reviewer and the tester read the checkout as it is then.             *)
RunGates(c) ==
    /\ call[c].pc = "gates"
    /\ \/ call' = [call EXCEPT ![c].pc = "recheck", ![c].saw = Version]
       \/ WriteNext(c, "set", "failed")
       \/ WriteNext(c, "defer", "")
    /\ UNCHANGED <<durable, outside, heap, runs, journal, merged, source>>

RecheckTarget(c) ==
    /\ call[c].pc = "recheck"
    /\ IF call[c].ver = Version /\ call[c].locked THEN PlGo(c, "sources") ELSE WriteNext(c, "defer", "")
    /\ UNCHANGED <<durable, outside, heap, runs, journal, merged, source>>

(* finalizePipelineSourceCleanup: every requested source is authorized, or  *)
(* has its outcome already.                                                  *)
OutcomeOf(i) ==
    CASE source[i] = "removed" -> "success"
      [] source[i] = "edited" -> "retained"
      [] OTHER -> "authorized"

(* Mutant: sources are removed before the authorization is durable.         *)
ConsiderHasty(c) ==
    /\ call[c].pc = "sources"
    /\ call' = [call EXCEPT ![c].pc = "remove",
                           ![c].out = [i \in PlItems |-> IF i \in Mine(c).asked THEN OutcomeOf(i) ELSE "none"]]
    /\ UNCHANGED <<durable, outside, heap, runs, journal, merged, source>>
ConsiderSources(c) ==
    /\ call[c].pc = "sources"
    /\ LET out == [i \in PlItems |-> IF i \in Mine(c).asked THEN OutcomeOf(i) ELSE "none"]
       IN call' = [call EXCEPT
            ![c].pc = "write", ![c].out = out,
            ![c].patch = IF \E i \in PlItems : out[i] = "authorized" THEN "authorize" ELSE "finish"]
    /\ UNCHANGED <<durable, outside, heap, runs, journal, merged, source>>

(* Each authorized source is looked at again and removed, kept, or fails.   *)
ToRemove(c) == {i \in PlItems : call[c].out[i] = "authorized"}
RemoveSource(c) ==
    /\ call[c].pc = "remove"
    /\ IF ToRemove(c) = {} THEN WriteNext(c, "finish", "") /\ UNCHANGED source
       ELSE \E i \in ToRemove(c), how \in {"success", "retained", "failed"} :
              /\ how = "success" => source[i] = "kept"
              /\ source' = IF how = "success" THEN [source EXCEPT ![i] = "removed"] ELSE source
              /\ call' = [call EXCEPT ![c].out[i] = how]
    /\ UNCHANGED <<durable, outside, heap, runs, journal, merged>>

(* resumeAuthorizedPipelineCleanup.                                         *)
ResumeCleanup(c) ==
    /\ Kind(c) = "recover" /\ call[c].pc = "resume"
    /\ LET o == Mine(c)
           over(i) == o.outcome[i] \in {"success", "retained"}
           out == [i \in PlItems |->
                     IF i \notin o.asked THEN "none"
                     ELSE IF over(i) THEN o.outcome[i]
                     ELSE IF i \notin o.auth THEN "retained" ELSE OutcomeOf(i)]
       IN IF o.authAt # Version THEN WriteNext(c, "retain", "")
          ELSE call' = [call EXCEPT ![c].pc = "remove", ![c].out = out]
    /\ UNCHANGED <<durable, outside, heap, runs, journal, merged, source>>

-----------------------------------------------------------------------------
(* The world: edits, crashes, leases slept past, heartbeats.                *)
Event == events < PlMaxEvents /\ events' = events + 1

EditCheckout ==
    /\ Event /\ edits' = edits + 1
    /\ UNCHANGED <<plan, row, leased, instance, running, kids, heap, runs, call, journal, merged, source, promised, permitted, torn>>

EditSource(i) ==
    /\ Event /\ source[i] = "kept" /\ source' = [source EXCEPT ![i] = "edited"]
    /\ UNCHANGED <<plan, row, leased, instance, running, kids, heap, runs, call, journal, merged, edits, promised, permitted, torn>>

PlCrash(b) ==
    /\ Event /\ b \in running /\ running' = running \ {b}
    /\ runs' = [runs EXCEPT ![b] = NoObject]
    /\ call' = [c \in Ids |-> IF At(c) = b /\ call[c].pc # "done"
                                THEN [IdleCall EXCEPT !.pc = "done", !.locked = call[c].locked] ELSE call[c]]
    /\ UNCHANGED <<plan, row, leased, instance, kids, heap, journal, merged, edits, source, promised, permitted, torn>>

(* A process sleeps past its leases: its instance row and its pipeline      *)
(* lapse; the longer lock of a call may lapse too.  Timing assumption: no   *)
(* call spends a whole lease between reading a row and claiming it.         *)
LeasesLapse(b) ==
    /\ IF b \in running THEN Event ELSE UNCHANGED events
    /\ b \in instance /\ \A c \in Ids : call[c].pc # "claim"
    /\ instance' = instance \ {b}
    /\ leased' = IF row.owner = b THEN FALSE ELSE leased
    /\ UNCHANGED <<plan, row, running, kids, heap, runs, call, journal, merged, edits, source, promised, permitted, torn>>

LockLapses(c) ==
    /\ call[c].locked /\ At(c) \notin instance \cap running
    /\ call' = [call EXCEPT ![c].locked = FALSE]
    /\ UNCHANGED <<durable, outside, heap, runs, journal, merged, source>>

(* heartbeatKnownQueueState: the instance row comes back, a pipeline still  *)
(* under this generation is re-taken, one that another took is dropped.     *)
PlHeartbeat(b) ==
    /\ b \in running
    /\ instance' = instance \cup {b}
    /\ LET o == heap[runs[b]]
           held == runs[b] # NoObject /\ o.owner = b /\ o.status \notin Closed
           same == held /\ row.owner = b /\ row.gen = o.gen
       IN /\ leased' = IF same /\ row.status \notin Closed THEN TRUE ELSE leased
          /\ runs' = IF held /\ ~same THEN [runs EXCEPT ![b] = NoObject] ELSE runs
          /\ instance' # instance \/ leased' # leased \/ runs' # runs
    /\ UNCHANGED <<plan, row, running, kids, heap, call, journal, merged, edits, source, promised, permitted, torn, events>>

PipelineStep(c) ==
    \/ ReadRecord(c) \/ ClaimRecord(c) \/ WriteRecord(c) \/ StartPipeline(c) \/ ActivateChildren(c)
    \/ BeginCall(c) \/ CheckItem(c) \/ LockRepository(c) \/ PrepareOperation(c) \/ ApplyPatch(c) \/ UnwindOperation(c)
    \/ CheckAbandon(c) \/ OpenFinalization(c) \/ CheckFinalization(c) \/ CheckPolicy(c) \/ CaptureTarget(c)
    \/ Validate(c) \/ RunGates(c) \/ RecheckTarget(c) \/ ConsiderSources(c) \/ RemoveSource(c) \/ ResumeCleanup(c)
    \/ LockLapses(c)

PipelinesNext ==
    \/ \E c \in Ids : PipelineStep(c)
    \/ ChildrenEnd \/ RecoverJournal \/ EditCheckout
    \/ \E i \in PlItems : EditSource(i)
    \/ \E b \in PlBridges : PlCrash(b) \/ LeasesLapse(b) \/ PlHeartbeat(b)

PipelinesSpec == PipelinesInit /\ [][PipelinesNext]_pipelinevars

-----------------------------------------------------------------------------
(* A pipeline that is completed, failed or abandoned integrates no more     *)
(* (G-11, lib/pipelines/store.js): a reservation and a cancellation exclude *)
(* each other up to the moment the patch is committed.  Left out: an item   *)
(* that a second call on it has put back to pending with its own refusal,   *)
(* and a pipeline started twice: the start that cannot prepare its children *)
(* writes its failure over what the other began.                            *)
Doubled(c) ==
    /\ Kind(c) = "integrate"
    /\ \E d \in Ids \ {c} : Kind(d) = "integrate" /\ plan[d].item = plan[c].item /\ call[d].pc # "idle"
StartedTwice ==
    \E c, d \in {e \in Ids : Kind(e) = "run" /\ call[e].pc # "idle"} : c # d
NoLateApply ==
    \A c \in Ids : journal[c] = "prepared" /\ journal'[c] = "committed"
                      => row.status \notin Closed \/ Doubled(c) \/ StartedTwice

(* What the row records as integrated is never taken back by a write of a   *)
(* bridge that read the pipeline earlier; the same case is left out.        *)
IntegratedStays ==
    \A i \in PlItems : row.item[i] = "integrated" /\ row'.item[i] # "integrated"
      => \E c \in Ids : plan[c].item = i /\ Doubled(c)

(* A pipeline passes its gates only on the checkout that the validation,    *)
(* the reviewer and the tester all saw, with every patch of it applied      *)
(* (finalizePipelineRecordWhileLocked); the same case is left out, for its  *)
(* integration reopens a pipeline whose clean-up a recovery then completes. *)
JudgedAsApplied ==
    /\ row.status \notin Closed \cup {"cleanup_pending", "cleanup_failed"}
    /\ row'.status \in {"cleanup_pending", "completed"}
    => \/ \E c \in Ids : /\ Kind(c) = "finalize" /\ call[c].saw = call[c].ver
                         /\ call[c].ver.merged = PlItems
       \/ \E c \in Ids : Doubled(c)

(* A source worktree is removed only when its patch is in the checkout and  *)
(* a durable authorization had named it, whoever removes it after a crash.  *)
RemovedIsPermitted == \A i \in PlItems : source[i] = "removed" => i \in merged \cap permitted

(* An abandoned pipeline keeps the sources it promised to retain.           *)
AbandonedKept == \A i \in promised : source[i] # "removed"

(* Two finalizers, or two passes of the recovery, never remove sources at   *)
(* once as owners of one generation, in one bridge or in two.  Left out: a  *)
(* finalizer beside a pass of its bridge that had claimed a failed clean-up *)
(* before it; a late integration result can reopen the pipeline between.    *)
OneCleaner ==
    \A c, d \in {e \in Ids : call[e].pc = "remove" /\ Mine(e).owner = At(e)} :
        Kind(c) = Kind(d) /\ Mine(c).gen = Mine(d).gen => c = d

(* Cleanup and its recovery (continuePipelineCleanupWhileLocked) remove a   *)
(* source only when it may go, in one call at a time.                       *)
SourcesKept == PlTypeOK /\ RemovedIsPermitted /\ OneCleaner

(* A call goes by what the row says when it writes, not by what it read:    *)
(* nothing is applied after an abandonment and nothing it kept is removed,  *)
(* nothing integrated is lost, and the gates judge the checkout they saw    *)
(* (updatePipelineRecord, finalizePipelineRecordWhileLocked).  Left out: a  *)
(* record in use that was brought to the row's revision unread (torn).      *)
RowRespected == [][torn \/ (NoLateApply /\ AbandonedKept' /\ IntegratedStays /\ JudgedAsApplied)]_pipelinevars
=============================================================================
