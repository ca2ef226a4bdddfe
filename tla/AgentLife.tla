----------------------------- MODULE AgentLife -----------------------------
(***************************************************************************)
(* What a caller of runSpawnCommand (lib/run-command.js) is promised of    *)
(* the process tree of one agent, whoever supervises it: the tree comes to *)
(* life at most once, a result is given at most once, and a result that    *)
(* does not report processTreeUnconfirmed is given only for a tree that is *)
(* gone and stays gone.  The provider slot and the path locks of the job   *)
(* are released on the strength of that promise.                           *)
(***************************************************************************)
VARIABLES
    tree,     \* "none" before the launch, "alive", or "gone"
    result    \* "none", "contained" or "unconfirmed"

lifevars == <<tree, result>>

LifeInit == tree = "none" /\ result = "none"

(* A launch message already in the pipe may still be acted on after an      *)
(* unconfirmed result, never after a contained one.                         *)
Start ==
    /\ tree = "none" /\ result # "contained"
    /\ tree' = "alive"
    /\ UNCHANGED result

End ==
    /\ tree = "alive"
    /\ tree' = "gone"
    /\ UNCHANGED result

Report ==
    /\ result = "none"
    /\ \/ result' = "unconfirmed"
       \/ tree # "alive" /\ result' = "contained"
    /\ UNCHANGED tree

LifeNext == Start \/ End \/ Report
LifeSpec == LifeInit /\ [][LifeNext]_lifevars
=============================================================================
