---------------------------- MODULE MCWorktrees ----------------------------
(* Scenarios of Worktrees with three jobs: writers that start together, a job or two that     *)
(* continue the worktree of another, crashes, integrations, moves of HEAD and collections.    *)
EXTENDS Worktrees, TLC

NoEvents == [kind \in WtHappenings |-> 0]
None == [j \in {} |-> j]
Scene(fresh, follows, old, happen) ==
    [fresh |-> fresh, follows |-> follows, old |-> old, work |-> 1, up |-> TRUE,
     repo |-> "present", retained |-> FALSE, force |-> FALSE, events |-> happen @@ NoEvents]
Sweep(scene, repo, retained, force, work) ==
    [scene EXCEPT !.up = FALSE, !.repo = repo, !.retained = retained, !.force = force, !.work = work,
                  !.events = [@ EXCEPT !["gc"] = 1]]

TwoFreshOneFollows == Scene({"w1", "w2"}, "w3" :> "w1", {}, "hit" :> 1)
MCOneScene == {TwoFreshOneFollows}
MCScenes ==
    {TwoFreshOneFollows,
     Scene({"w1", "w2"}, None, {}, "fail" :> 1),
     Scene({"w1"}, None, {"w2", "w3"}, None),
     Scene({"w1"}, "w2" :> "w1" @@ "w3" :> "w1", {}, [stop |-> 1, start |-> 1, gc |-> 1]),
     Scene({"w1"}, "w2" :> "w1", {}, [land |-> 1, stop |-> 1, start |-> 1, gc |-> 1]),
     Scene({}, "w2" :> "w1" @@ "w3" :> "w1", {"w1"}, [land |-> 2, edit |-> 1]),
     Scene({"w1"}, None, {}, [hit |-> 3, commit |-> 1, dirty |-> 1]),
     Sweep(Scene({}, "w3" :> "w1", {"w1", "w2"}, [start |-> 1, stop |-> 1, edit |-> 1]), "present", TRUE, FALSE, 0),
     Sweep(Scene({}, None, {"w1"}, None), "missing", FALSE, FALSE, 1),
     Sweep(Scene({}, None, {"w1"}, None), "missing", FALSE, TRUE, 1)}
=============================================================================
