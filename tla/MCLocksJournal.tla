--------------------------- MODULE MCLocksJournal ---------------------------
(* Two parts that share no state in one run: `moving` says which of them moves.  The path     *)
(* locks with timers that fire on time: worktree jobs, a writer of the checkout on two paths, *)
(* an integration and a recovery on a directory, a file of it and an unrelated file.  And the *)
(* journal with leases that lapse at any step, as the instance Operations.                    *)
EXTENDS HardLocks, TLC

CONSTANTS Proc, Oper, File, Patch, Base, NoProc, NoOper, MaxEvents, Kinds,
          r1, r2, p1, p2, o1, o2, f1

VARIABLES moving,
          disk, git, ost, own, why, pre, org, post, lock, pc, goal, cur, base, todo,
          aborted, blocked, events, safe, want, unconf, user

journalvars == <<disk, git, ost, own, why, pre, org, post, lock, pc, goal, cur, base, todo,
                 aborted, blocked, events, safe, want, unconf, user>>

Operations == INSTANCE IntegrationJournal WITH Timely <- FALSE

MCPath == {Repo, <<"lib">>, <<"lib", "a">>, <<"doc">>}

Req(kind, mode, paths, edits) ==
    [kind |-> kind, mode |-> mode, paths |-> paths, edits |-> edits]

MCIntegration ==
    {Req("queue", "write", {<<"lib">>}, FALSE),
     Req("job", "write", {<<"lib", "a">>, <<"doc">>}, TRUE),
     Req("integration", "serial_integration", {<<"lib", "a">>}, TRUE),
     Req("recovery", "serial_integration", {Repo}, TRUE)}

TwoRuns == {r1, r2}
TwoProcs == {p1, p2}
TwoOpers == {o1, o2}
OneFile == {f1}
LJSymmetry == Permutations(Run) \cup Permutations(Proc) \cup Permutations(Oper)

LJInit == moving \in {"locks", "journal"} /\ Init /\ Operations!Init

LJNext ==
    /\ UNCHANGED moving
    /\ \/ moving = "locks" /\ Next /\ UNCHANGED journalvars
       \/ moving = "journal" /\ Operations!Next /\ UNCHANGED vars

LJSpec == LJInit /\ [][LJNext]_<<moving, vars, journalvars>>

(* Even while leases lapse unnoticed at any step no two operations of a repository are        *)
(* unresolved and no user edit is overwritten, also when the process that lost its lease      *)
(* wakes up and goes on (prepareIntegrationOperation, recoverIntegrationOperationsWhileLocked).*)
LapsedLeasesHarmless == Operations!LapsedLeasesHarmless
=============================================================================
