------------------------------ MODULE MCBatch ------------------------------
(* Small instances of the queue with a batch of two jobs (QueueJobs), of the calls on the    *)
(* pipeline such a batch belongs to (Pipelines), of the landing of finished jobs             *)
(* (AutoIntegration), of the worktrees they run in (Worktrees) and of an unattended worker   *)
(* (QueueWorkers).  The parts share no state here: `moving` says which of them moves in a    *)
(* behaviour; the others keep the state of their AtRest.                                     *)
EXTENDS MCQueueJobs, Pipelines, AutoIntegration, MCWorktrees, QueueWorkers

CONSTANTS b1, b2

VARIABLE moving

TwoBridges == {b1, b2}
Requested(kind, at) == [kind |-> kind, at |-> at, item |-> "i1"]
MCScenarios ==
    {<<Requested("integrate", b1), Requested("abandon", b1), Requested("finalize", b1)>>,
     <<Requested("integrate", b1), Requested("abandon", b2)>>,
     <<Requested("integrate", b1), Requested("finalize", b1), Requested("recover", b2)>>,
     <<Requested("integrate", b1), Requested("finalize", b1), Requested("recover", b1),
       Requested("recover", b1), Requested("abandon", b1)>>,
     <<Requested("integrate", b1), Requested("integrate", b2)>>,
     <<Requested("run", b1), Requested("get", b1), Requested("abandon", b2)>>}

Nothing == [kind \in Happenings |-> 0]
Around(awake, first, second, creates, happen) ==
    [up |-> awake, at |-> [i1 |-> first, i2 |-> second], creates |-> creates, events |-> happen @@ Nothing]
BothJobs == {"i1", "i2"}
MCLandings ==
    {Around(TwoBridges, b1, b1, BothJobs, Nothing),
     Around(TwoBridges, b1, b1, {"i1"}, Nothing),
     Around(TwoBridges, b1, b2, BothJobs, Nothing),
     Around(TwoBridges, b1, NoBridge, {"i1"}, [lapse |-> 1, write |-> 1]),
     Around(TwoBridges, b1, NoBridge, {"i1"}, [crash |-> 1, lock |-> 1]),
     Around(TwoBridges, b1, NoBridge, {"i1"}, [age |-> 1, lock |-> 1, write |-> 1]),
     Around({b1}, b1, NoBridge, {"i1"}, [edit |-> 1, write |-> 1]),
     Around({b1}, b1, b1, BothJobs, [lock |-> 1, edit |-> 1]),
     Around({b1}, b1, b1, BothJobs, [write |-> 1])}

PipelinesAtRest ==
    /\ plan = <<>> /\ kids = "none" /\ leased = FALSE /\ instance = {} /\ running = {}
    /\ row = [status |-> "completed", rev |-> 0, gen |-> 0, owner |-> b1,
              item |-> [i \in PlItems |-> "integrated"], by |-> [i \in PlItems |-> 0],
              asked |-> {}, auth |-> {}, authAt |-> NoVersion, outcome |-> [i \in PlItems |-> "none"]]
    /\ heap = [o \in {0} |-> row] /\ runs = [p \in PlBridges |-> NoObject]
    /\ call = <<>> /\ journal = <<>> /\ merged = {} /\ edits = 0
    /\ source = [i \in PlItems |-> "kept"] /\ promised = {} /\ permitted = {} /\ torn = FALSE
    /\ events = PlMaxEvents

AutoAtRest == AutoStart(Around({}, NoBridge, NoBridge, {}, Nothing))

WorktreesAtRest == WtStart(Scene({}, None, {}, None))

(* The first worker is started with the file, the second one without.                        *)
MCFileOf == [w \in Workers |-> IF w = "first" THEN Lines ELSE {}]

BatchInit ==
    /\ Init /\ WorkersInit
    /\ \/ moving \in {"queue", "worker"} /\ PipelinesAtRest /\ AutoAtRest /\ WorktreesAtRest
       \/ moving = "pipeline" /\ PipelinesInit /\ AutoAtRest /\ WorktreesAtRest
       \/ moving = "landing" /\ PipelinesAtRest /\ AutoInit /\ WorktreesAtRest
       \/ moving = "worktree" /\ PipelinesAtRest /\ AutoAtRest /\ WtInit

BatchNext ==
    /\ UNCHANGED moving
    /\ \/ moving = "queue" /\ Next /\ UNCHANGED <<pipelinevars, aivars, worktreevars, workervars>>
       \/ moving = "pipeline" /\ PipelinesNext /\ UNCHANGED <<vars, aivars, worktreevars, workervars>>
       \/ moving = "landing" /\ AutoNext /\ UNCHANGED <<vars, pipelinevars, worktreevars, workervars>>
       \/ moving = "worktree" /\ WtNext /\ UNCHANGED <<vars, pipelinevars, aivars, workervars>>
       \/ moving = "worker" /\ WorkersNext /\ UNCHANGED <<vars, pipelinevars, aivars, worktreevars>>

BatchSpec ==
    BatchInit /\ [][BatchNext]_<<moving, vars, pipelinevars, aivars, worktreevars, workervars>>
=============================================================================
