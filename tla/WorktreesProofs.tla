--------------------------- MODULE WorktreesProofs ---------------------------
(***************************************************************************)
(* Proofs about the worktrees of writer jobs (Worktrees), for any jobs,    *)
(* capacity, number of attempts and scenario: a worktree has one user      *)
(* whose claim stands in the registry, and no removal takes a worktree in  *)
(* use or work that is nowhere else.                                       *)
(***************************************************************************)
EXTENDS Worktrees, FiniteSetTheorems, TLAPS

(* The inductive invariant says for each job how its step stands to the     *)
(* directory and the row of its worktree, for each job that continues       *)
(* another's that the creator has ended, and for an integration, a stored   *)
(* removal and a collection that the job whose worktree they take has ended *)
(* too.                                                                     *)
Ended(j) == step[j] \in {"over", "dead"}
Still(j) == step[j] \in {"new", "over", "dead"}
BeforeAdd == {"base", "known", "list", "reconcile", "reserve", "add", "redone", "discarded", "emptied"}
Empty == {"check", "mark", "redo", "discard", "empty"}
Made == Empty \cup {"working", "measure"}

WtTyped == WtTypeOK /\ setting \in WtScenarios

(* What a job may be doing, and that a job at work is an active one.        *)
RoleOk(j) ==
    /\ j \in Fresh => step[j] \notin {"claim", "release"}
    /\ j \notin Fresh => \/ Still(j)
                         \/ j \in DOMAIN setting.follows /\ step[j] \in {"claim", "working", "release", "done"}
    /\ ~Still(j) => up /\ j \in active

(* A creator's row names it unless it was adopted meanwhile, its directory  *)
(* is there from git worktree add to its own removal, and it is clean until *)
(* the job works in it.                                                     *)
CreatorOk(p) ==
    /\ p \in tree \/ reg[p] # NoRow => step[p] # "new"
    /\ mem[p].added <= tip /\ \A q \in mem[p].found : step[q] # "new"
    /\ p \in Fresh /\ step[p] \in BeforeAdd => p \notin tree
    /\ p \in Fresh /\ step[p] \in Made => p \in tree
    /\ p \in Fresh /\ step[p] \in Made \cup {"add"} => reg[p] # NoRow
    /\ p \in Fresh /\ ~Still(p) /\ p \notin adopted => reg[p] = NoRow \/ reg[p].job = p
    /\ p \in Fresh /\ step[p] = "working" => reg[p].status \in Active
    /\ p \in Fresh /\ step[p] \in Empty /\ p \notin adopted => content[p] = 0
    /\ p \in Fresh /\ step[p] \in {"mark", "working"} => hits \cap (mem[p].base + 1 .. mem[p].added) = {}

(* A job that continues a worktree holds its row, alone.                    *)
Continues(k) == k \in WtJobs /\ k \notin Fresh /\ step[k] = "working" /\ Tree(k) \notin adopted
FollowerOk(k) ==
    Continues(k) => Ended(Tree(k)) /\ (Tree(k) \in tree => reg[Tree(k)] = Row("in_use", k))
OneFollows == \A k, l \in WtJobs : Continues(k) /\ Continues(l) /\ Tree(k) = Tree(l) => k = l

(* What a stored removal, an integration and a collection take belongs to   *)
(* ended jobs, holds what was integrated, and has no users.                 *)
RemovalOk(p) == removal[p] # Off => Ended(p) /\ removal[p] \in integrated[p]

LandingOk ==
    /\ ~LandAt("idle") => land.path \in WtJobs /\ Ended(land.path)
    /\ LandAt("collected") => land.content \in integrated[land.path]
    /\ land.step \in {"collected", "removing"} /\ land.path \notin adopted => Users(land.path) = {}
    /\ LandAt("removing") /\ land.path \notin adopted => content[land.path] \in integrated[land.path] \cup {0}

CollectionOk ==
    /\ \A p \in WtJobs : gc.rows[p] # NoRow => Ended(p)
    /\ \A p \in gc.stale : Ended(p) /\ p \notin tree
    /\ \A p \in gc.todo : step[p] # "new"
    /\ gc.step \in {"removing", "removed"} => gc.path \in WtJobs /\ Ended(gc.path)
    /\ gc.step = "removed" => gc.path \notin tree
    /\ gc.step = "removing" /\ ~gc.woken => ~up /\ (setting.force \/ content[gc.path] = 0)

WtInv ==
    /\ WtTyped /\ OneFollows /\ LandingOk /\ CollectionOk
    /\ \A j \in WtJobs : RoleOk(j) /\ CreatorOk(j) /\ FollowerOk(j) /\ RemovalOk(j)

Rows == [status : RowStatuses, job : WtJobs \cup {NoJob}]

LEMMA SettingFacts ==
    ASSUME NEW s \in WtScenarios
    PROVE  /\ s.fresh \subseteq WtJobs /\ s.old \subseteq WtJobs /\ DOMAIN s.follows \subseteq WtJobs
           /\ \A j \in WtJobs : j \in s.fresh => j \notin s.old /\ j \notin DOMAIN s.follows
           /\ \A j \in DOMAIN s.follows : s.follows[j] \in WtJobs /\ j \notin s.old
           /\ s.work \in 0 .. WtMaxWork /\ s.up \in BOOLEAN /\ s.events \in [WtHappenings -> Nat]
  BY WtAssumption

LEMMA WtInitial == WtInit => WtInv
  <1> SUFFICES ASSUME NEW s \in WtScenarios, WtStart(s) PROVE WtInv
    BY DEF WtInit
  <1>0. NoRow \in Rows /\ 0 \in 0 .. WtMaxWork /\ 0 \in 0 .. WtTries - 1 /\ Off \in Off .. WtMaxWork
    BY WtAssumption DEF NoRow, Row, Rows, RowStatuses, Off
  <1>1. WtTyped
    <2>1. reg \in [WtJobs -> Rows]
      BY <1>0 DEF WtStart, Rows, Row, RowStatuses, Active
    <2>2. mem \in [WtJobs -> [base : Nat, known : SUBSET WtJobs, found : SUBSET WtJobs,
                              tries : 0 .. WtTries - 1, added : Nat]]
      BY <1>0 DEF WtStart, NoMemory
    <2>3. gc \in [step : {"off", "classify", "drain", "sweep", "removing", "removed"},
                  path : WtJobs \cup {NoJob}, rows : [WtJobs -> Rows],
                  todo : SUBSET WtJobs, stale : SUBSET WtJobs, woken : BOOLEAN]
      BY <1>0 DEF WtStart, NoCollection
    <2>4. land \in [step : {"idle", "locked", "collected", "draining", "removing", "removed"},
                    path : WtJobs \cup {NoJob}, content : 0 .. WtMaxWork, by : {"bridge", "gc"}]
      BY <1>0 DEF WtStart, NoLanding
    <2>5. tree \subseteq WtJobs /\ content \in [WtJobs -> 0 .. WtMaxWork] /\ room \in [WtHappenings -> Nat]
          /\ up \in BOOLEAN
      BY <1>0, SettingFacts DEF WtStart
    <2>6. step \in [WtJobs -> Steps]
      BY DEF WtStart, Steps, Making
    <2> QED BY <1>0, <2>1, <2>2, <2>3, <2>4, <2>5, <2>6 DEF WtStart, WtTyped, WtTypeOK, Rows
  <1>2. ASSUME NEW j \in WtJobs PROVE RoleOk(j) /\ CreatorOk(j) /\ FollowerOk(j) /\ RemovalOk(j)
    <2>1. j \in Fresh => step[j] = "new" /\ reg[j] = NoRow
      BY SettingFacts DEF WtStart, Fresh
    <2>2. j \in tree \/ reg[j] # NoRow => step[j] # "new"
      BY DEF WtStart
    <2>3. step[j] \in {"new", "over"} /\ removal[j] = Off /\ mem[j].added = 0 /\ mem[j].found = {} /\ tip = 0
      BY DEF WtStart, NoMemory
    <2> QED BY <2>1, <2>2, <2>3 DEF RoleOk, CreatorOk, FollowerOk, Continues, RemovalOk, Still, BeforeAdd, Made, Empty
  <1>3. OneFollows /\ LandingOk /\ CollectionOk
    BY <1>2 DEF WtStart, OneFollows, Continues, LandingOk, LandAt, NoLanding, CollectionOk, NoCollection
  <1> QED BY <1>1, <1>2, <1>3 DEF WtInv

-----------------------------------------------------------------------------
LEMMA StatusFacts ==
    ASSUME reg \in [WtJobs -> Rows], NEW p \in WtJobs, NEW s \in RowStatuses \ {"none"}, SetStatus(p, s)
    PROVE  /\ reg' \in [WtJobs -> Rows]
           /\ \A q \in WtJobs : q # p => reg'[q] = reg[q]
           /\ reg'[p].job = reg[p].job /\ (reg[p] # NoRow => reg'[p] = Row(s, reg[p].job))
           /\ reg'[p] = NoRow <=> reg[p] = NoRow
  BY DEF SetStatus, Rows, Row, NoRow

(* What every step leaves: an ended job has ended, no job is new again, a   *)
(* directory appears only where its creator adds it.                        *)
Onward ==
    /\ setting' = setting /\ adopted \subseteq adopted'
    /\ \A j \in WtJobs : /\ Ended(j) => Ended(j)'
                         /\ step'[j] = "new" => step[j] = "new"
                         /\ j \in tree' => j \in tree \/ (j \in Fresh /\ step[j] = "add")

Memories == [base : Nat, known : SUBSET WtJobs, found : SUBSET WtJobs, tries : 0 .. WtTries - 1, added : Nat]
Lands == [step : {"idle", "locked", "collected", "draining", "removing", "removed"},
          path : WtJobs \cup {NoJob}, content : 0 .. WtMaxWork, by : {"bridge", "gc"}]
Collections == [step : {"off", "classify", "drain", "sweep", "removing", "removed"},
                path : WtJobs \cup {NoJob}, rows : [WtJobs -> Rows],
                todo : SUBSET WtJobs, stale : SUBSET WtJobs, woken : BOOLEAN]

LEMMA TypeFacts ==
    ASSUME WtTyped
    PROVE  /\ tree \subseteq WtJobs /\ content \in [WtJobs -> 0 .. WtMaxWork] /\ reg \in [WtJobs -> Rows]
           /\ removal \in [WtJobs -> Off .. WtMaxWork] /\ integrated \in [WtJobs -> SUBSET (0 .. WtMaxWork)]
           /\ active \subseteq WtJobs /\ step \in [WtJobs -> Steps] /\ mem \in [WtJobs -> Memories]
           /\ tip \in Nat /\ hits \subseteq 1..tip /\ dirt \in BOOLEAN /\ up \in BOOLEAN
           /\ land \in Lands /\ gc \in Collections /\ room \in [WtHappenings -> Nat] /\ adopted \subseteq WtJobs
           /\ Fresh \subseteq WtJobs /\ DOMAIN setting.follows \subseteq WtJobs
           /\ \A j \in DOMAIN setting.follows : setting.follows[j] \in WtJobs /\ j \notin Fresh
  BY SettingFacts DEF WtTyped, WtTypeOK, Rows, Memories, Lands, Collections, Fresh

(* The types again, under the names of this section.                        *)
Typed ==
    /\ setting \in WtScenarios
    /\ tree \subseteq WtJobs /\ content \in [WtJobs -> 0 .. WtMaxWork] /\ reg \in [WtJobs -> Rows]
    /\ removal \in [WtJobs -> Off .. WtMaxWork] /\ integrated \in [WtJobs -> SUBSET (0 .. WtMaxWork)]
    /\ active \subseteq WtJobs /\ step \in [WtJobs -> Steps] /\ mem \in [WtJobs -> Memories]
    /\ tip \in Nat /\ hits \subseteq 1..tip /\ dirt \in BOOLEAN /\ up \in BOOLEAN
    /\ land \in Lands /\ gc \in Collections /\ room \in [WtHappenings -> Nat] /\ adopted \subseteq WtJobs

LEMMA MemoryKept ==
    ASSUME NEW m \in Memories, NEW n \in Nat, NEW A \in SUBSET WtJobs
    PROVE  /\ [m EXCEPT !.base = n] \in Memories /\ [m EXCEPT !.added = n] \in Memories
           /\ [m EXCEPT !.known = A] \in Memories /\ [m EXCEPT !.found = A] \in Memories
           /\ m.tries < WtTries - 1 => [m EXCEPT !.tries = m.tries + 1] \in Memories
  <1>1. [m EXCEPT !.base = n] \in Memories
    BY DEF Memories
  <1>2. [m EXCEPT !.added = n] \in Memories
    BY DEF Memories
  <1>3. [m EXCEPT !.known = A] \in Memories
    BY DEF Memories
  <1>4. [m EXCEPT !.found = A] \in Memories
    BY DEF Memories
  <1>5. ASSUME m.tries < WtTries - 1 PROVE [m EXCEPT !.tries = m.tries + 1] \in Memories
    <2>1. m.tries + 1 \in 0 .. WtTries - 1
      BY <1>5, WtAssumption DEF Memories
    <2> QED BY <2>1 DEF Memories
  <1> QED BY <1>1, <1>2, <1>3, <1>4, <1>5

LEMMA WorkingPath ==
    ASSUME WtInv, NEW j \in WtJobs, step[j] \in {"claim", "working", "release"}
    PROVE  Tree(j) \in WtJobs /\ (j \notin Fresh => Tree(j) = setting.follows[j])
           /\ (j \in Fresh => step[j] = "working" /\ Tree(j) = j)
  BY TypeFacts DEF WtInv, RoleOk, Tree, Still

LEMMA HandlerTyped ==
    ASSUME WtInv, NEW j \in WtJobs, Handler(j)
    PROVE  Typed' /\ Onward
  <1> USE TypeFacts
  <1>0. WtTyped /\ RoleOk(j)
    BY DEF WtInv
  <1>1. CASE BeginCreate(j) \/ CreateAgain(j) \/ ReadKnown(j) \/ ListTrees(j) \/ CheckTree(j)
    <2>1. mem' \in [WtJobs -> Memories]
      <3>1. CASE BeginCreate(j) \/ CreateAgain(j)
        <4>1. mem' = mem \/ mem' = [mem EXCEPT ![j] = [mem[j] EXCEPT !.base = tip]]
          BY <3>1 DEF BeginCreate, CreateAgain
        <4>2. [mem[j] EXCEPT !.base = tip] \in Memories
          BY <1>0, MemoryKept
        <4> QED BY <1>0, <4>1, <4>2
      <3>2. CASE ReadKnown(j) \/ ListTrees(j)
        <4>1. \/ mem' = [mem EXCEPT ![j] = [mem[j] EXCEPT !.known = Counted]]
              \/ mem' = [mem EXCEPT ![j] = [[mem[j] EXCEPT !.found = tree \ mem[j].known] EXCEPT !.known = {}]]
          BY <1>0, <3>2 DEF ReadKnown, ListTrees
        <4>2. [mem[j] EXCEPT !.known = Counted] \in Memories
          BY <1>0, MemoryKept DEF Counted
        <4>3. [[mem[j] EXCEPT !.found = tree \ mem[j].known] EXCEPT !.known = {}] \in Memories
          <5>1. tree \ mem[j].known \in SUBSET WtJobs /\ {} \in SUBSET WtJobs /\ mem[j] \in Memories
            BY <1>0
          <5>2. [mem[j] EXCEPT !.found = tree \ mem[j].known] \in Memories
            BY <5>1, MemoryKept
          <5> QED BY <5>1, <5>2, MemoryKept
        <4> QED BY <1>0, <4>1, <4>2, <4>3
      <3>3. CASE CheckTree(j)
        <4>1. CASE Verdict(j) = "redo"
          <5>1. mem[j].tries < WtTries - 1
            BY <4>1 DEF Verdict
          <5> QED BY <1>0, <3>3, <4>1, <5>1, MemoryKept DEF CheckTree
        <4>2. CASE Verdict(j) # "redo"
          <5>1. mem' = [mem EXCEPT ![j] = [mem[j] EXCEPT !.tries = mem[j].tries]]
            BY <3>3, <4>2 DEF CheckTree
          <5>2. [mem[j] EXCEPT !.tries = mem[j].tries] \in Memories
            BY <1>0 DEF Memories
          <5> QED BY <1>0, <5>1, <5>2
        <4> QED BY <4>1, <4>2
      <3> QED BY <1>1, <3>1, <3>2, <3>3
    <2>2. Verdict(j) \in Steps \ {"new"}
      BY DEF Verdict, Steps, Making
    <2>3. /\ UNCHANGED <<setting, up, gc, adopted, tree, content, integrated, reg, removal, tip, hits, dirt, land, room>>
          /\ active' \subseteq WtJobs /\ step' \in [WtJobs -> Steps]
          /\ ~Ended(j) /\ step'[j] # "new" /\ \A k \in WtJobs \ {j} : step'[k] = step[k]
      <3>1. CASE BeginCreate(j)
        BY <1>0, <3>1 DEF BeginCreate, HandlerAt, Enter, Elsewhere, fixed, disk, Steps, Making, Ended
      <3>2. CASE CreateAgain(j) \/ ReadKnown(j) \/ ListTrees(j)
        BY <1>0, <3>2 DEF CreateAgain, ReadKnown, ListTrees, HandlerAt, Goto, Elsewhere, fixed, disk, Steps, Making, Ended
      <3>3. CASE CheckTree(j)
        BY <1>0, <2>2, <3>3 DEF CheckTree, HandlerAt, Goto, Elsewhere, fixed, disk, Ended
      <3> QED BY <1>1, <3>1, <3>2, <3>3
    <2> QED BY <1>0, <2>1, <2>3 DEF Typed, Onward, WtTyped, Ended
  <1>2. CASE Attach(j) \/ EndAgent(j) \/ JobEnds(j)
    <2>1. /\ UNCHANGED <<setting, up, gc, adopted, tree, content, integrated, reg, removal, tip, hits, dirt, mem, land, room>>
          /\ active' \subseteq WtJobs /\ step' \in [WtJobs -> Steps]
          /\ ~Ended(j) /\ step'[j] # "new" /\ \A k \in WtJobs \ {j} : step'[k] = step[k]
      BY <1>0, <1>2 DEF Attach, EndAgent, JobEnds, HandlerAt, Enter, Goto, Elsewhere, fixed, disk, seen, Steps, Making, Ended
    <2> QED BY <1>0, <2>1 DEF Typed, Onward, WtTyped, Ended
  <1>3. CASE ReconcileRegistry(j)
    <2>1. reg' \in [WtJobs -> Rows]
      <3>1. \A p \in WtJobs : Adopted(j, p) \in Rows
        BY <1>0 DEF Adopted, Row, Rows, RowStatuses, Active
      <3>2. \A p \in WtJobs : [Adopted(j, p) EXCEPT !.status = "cleaned"] \in Rows
        BY <3>1 DEF Rows, RowStatuses
      <3> QED BY <1>3, <3>1, <3>2 DEF ReconcileRegistry
    <2>2. mem' \in [WtJobs -> Memories]
      BY <1>0, <1>3, MemoryKept DEF ReconcileRegistry
    <2>3. /\ UNCHANGED <<setting, up, gc, tree, content, integrated, removal, active, tip, hits, dirt, land, room>>
          /\ step' \in [WtJobs -> Steps] /\ adopted \subseteq adopted' /\ adopted' \subseteq WtJobs
          /\ ~Ended(j) /\ step'[j] # "new" /\ \A k \in WtJobs \ {j} : step'[k] = step[k]
      BY <1>0, <1>3 DEF ReconcileRegistry, HandlerAt, Goto, disk, Steps, Making, Ended, Memories
    <2> QED BY <1>0, <2>1, <2>2, <2>3 DEF Typed, Onward, WtTyped, Ended
  <1>4. CASE Reserve(j) \/ MarkRetained(j) \/ RemoveOwnFails(j) \/ MarkRemoved(j) \/ Measure(j) \/ MeasureFails(j)
    <2>1. reg' \in [WtJobs -> Rows]
      <3>1. CASE Reserve(j)
        BY <1>0, <3>1 DEF Reserve, Rows, Row, RowStatuses, Active
      <3>2. CASE MarkRetained(j) \/ RemoveOwnFails(j) \/ MarkRemoved(j) \/ Measure(j) \/ MeasureFails(j)
        <4>1. \E s \in RowStatuses \ {"none"} : SetStatus(j, s)
          BY <3>2 DEF MarkRetained, RemoveOwnFails, MarkRemoved, Measure, MeasureFails, RowStatuses, Active
        <4> QED BY <1>0, <4>1, StatusFacts
      <3> QED BY <1>4, <3>1, <3>2
    <2>2. /\ UNCHANGED <<setting, up, gc, adopted, tree, content, integrated, removal, active, tip, hits, dirt, mem, land>>
          /\ step' \in [WtJobs -> Steps] /\ room' \in [WtHappenings -> Nat]
          /\ ~Ended(j) /\ step'[j] # "new" /\ \A k \in WtJobs \ {j} : step'[k] = step[k]
      BY <1>0, <1>4 DEF Reserve, MarkRetained, RemoveOwnFails, MarkRemoved, Measure, MeasureFails, HandlerAt, Goto, Elsewhere,
         fixed, disk, seen, Steps, Making, Ended, Befalls, WtHappenings
    <2> QED BY <1>0, <2>1, <2>2 DEF Typed, Onward, WtTyped, Ended
  <1>5. CASE AddTree(j) \/ AddFails(j) \/ RemoveOwn(j)
    <2>0. step[j] # "new" /\ (j \in Fresh \/ ~(AddTree(j) \/ AddFails(j)))
      BY <1>0, <1>5 DEF AddTree, AddFails, RemoveOwn, HandlerAt, RoleOk, Still
    <2>1. reg' \in [WtJobs -> Rows] /\ mem' \in [WtJobs -> Memories]
      <3>1. CASE AddTree(j)
        BY <1>0, <3>1, MemoryKept DEF AddTree
      <3>2. CASE AddFails(j)
        <4>1. NoRow \in Rows /\ "retained" \in RowStatuses \ {"none"}
          BY DEF NoRow, Row, Rows, RowStatuses, Active
        <4> QED BY <1>0, <3>2, <4>1, StatusFacts DEF AddFails, seen
      <3>3. CASE RemoveOwn(j)
        BY <1>0, <3>3 DEF RemoveOwn, seen
      <3> QED BY <1>5, <3>1, <3>2, <3>3
    <2>2. /\ UNCHANGED <<setting, up, gc, adopted, integrated, removal, active, tip, hits, dirt, land>>
          /\ step' \in [WtJobs -> Steps] /\ room' \in [WtHappenings -> Nat]
          /\ tree' \subseteq WtJobs /\ content' \in [WtJobs -> 0 .. WtMaxWork]
          /\ ~Ended(j) /\ step'[j] # "new" /\ \A k \in WtJobs \ {j} : step'[k] = step[k]
      BY <1>0, <1>5, WtAssumption DEF AddTree, AddFails, RemoveOwn, HandlerAt, Goto, Elsewhere,
         fixed, disk, seen, Steps, Making, Ended, Befalls, WtHappenings
    <2>3. \A k \in WtJobs : k \in tree' => k \in tree \/ (k \in Fresh /\ step[k] = "add")
      BY <1>5, <2>0 DEF AddTree, AddFails, RemoveOwn, HandlerAt
    <2> QED BY <1>0, <2>1, <2>2, <2>3 DEF Typed, Onward, WtTyped, Ended
  <1>6. CASE Claim(j) \/ Release(j) \/ Write(j)
    <2>1. Tree(j) \in WtJobs
      BY <1>6, WorkingPath DEF Claim, Release, Write, HandlerAt
    <2>2. reg' \in [WtJobs -> Rows] /\ content' \in [WtJobs -> 0 .. WtMaxWork]
      <3>1. Row("in_use", j) \in Rows /\ [reg[Tree(j)] EXCEPT !.status = "retained"] \in Rows
        BY <1>0, <2>1 DEF Row, Rows, RowStatuses, Active
      <3> QED BY <1>0, <1>6, <2>1, <3>1, WtAssumption DEF Claim, Release, Write, disk
    <2>3. /\ UNCHANGED <<setting, up, gc, adopted, tree, integrated, removal, active, mem, tip, hits, dirt, land, room>>
          /\ step' \in [WtJobs -> Steps]
          /\ ~Ended(j) /\ step'[j] # "new" /\ \A k \in WtJobs \ {j} : step'[k] = step[k]
      BY <1>0, <1>6 DEF Claim, Release, Write, HandlerAt, Goto, Elsewhere, fixed, disk, seen, handlers, Steps, Making, Ended
    <2> QED BY <1>0, <2>2, <2>3 DEF Typed, Onward, WtTyped, Ended
  <1> QED BY <1>1, <1>2, <1>3, <1>4, <1>5, <1>6 DEF Handler


-----------------------------------------------------------------------------
LEMMA RoomKept ==
    ASSUME room \in [WtHappenings -> Nat], NEW kind \in WtHappenings, Befalls(kind)
    PROVE  room' \in [WtHappenings -> Nat]
  BY DEF Befalls

LEMMA LandingTyped ==
    ASSUME WtInv, Landing
    PROVE  Typed' /\ Onward
  <1> USE TypeFacts
  <1>0. WtTyped /\ LandingOk
    BY DEF WtInv
  <1>1. NoLanding \in Lands
    BY WtAssumption DEF NoLanding, Lands
  <1>2. UNCHANGED <<setting, up, gc, adopted, active, step, mem, tip, hits, dirt>>
        /\ room' \in [WtHappenings -> Nat]
    <2>1. UNCHANGED <<setting, up, gc, adopted, active, step, mem, tip, hits, dirt>>
      BY DEF Landing, LandBegin, DrainBegin, LandCollect, LandEnqueue, DrainCheck, DrainRemove, DrainFinish,
         Elsewhere, fixed, handlers, seen
    <2>2. UNCHANGED room \/ Befalls("land")
      BY DEF Landing, LandBegin, DrainBegin, LandCollect, LandEnqueue, DrainCheck, DrainRemove, DrainFinish
    <2> QED BY <1>0, <2>1, <2>2, RoomKept DEF WtHappenings
  <1>3. land' \in Lands
    <2>1. \A p \in WtJobs : LandBegin(p) \/ DrainBegin(p) => land' \in Lands
      <3>1. ASSUME NEW p \in WtJobs, NEW s \in {"locked", "draining"}, NEW by \in {"bridge", "gc"}
            PROVE  [NoLanding EXCEPT !.step = s, !.path = p, !.by = by] \in Lands
        BY <1>1 DEF Lands
      <3>2. \A p \in WtJobs : LandBegin(p) => land' = [NoLanding EXCEPT !.step = "locked", !.path = p, !.by = "bridge"]
        BY DEF LandBegin, NoLanding
      <3> QED BY <3>1, <3>2 DEF DrainBegin
    <2>2. LandCollect => land' \in Lands
      BY <1>0, <1>1 DEF LandCollect, Unlock, LandAt, LandingOk, Lands
    <2>3. LandEnqueue \/ DrainFinish => land' \in Lands
      BY <1>1 DEF LandEnqueue, DrainFinish, Unlock
    <2>4. DrainCheck \/ DrainRemove => land' \in Lands
      BY <1>0, <1>1 DEF DrainCheck, DrainRemove, Unlock, Lands
    <2> QED BY <2>1, <2>2, <2>3, <2>4 DEF Landing
  <1>4. /\ tree' \subseteq tree /\ content' \in [WtJobs -> 0 .. WtMaxWork]
        /\ integrated' \in [WtJobs -> SUBSET (0 .. WtMaxWork)]
        /\ removal' \in [WtJobs -> Off .. WtMaxWork]
    <2>1. CASE \E p \in WtJobs : LandBegin(p) \/ DrainBegin(p)
      BY <1>0, <2>1 DEF LandBegin, DrainBegin, disk
    <2>2. CASE LandCollect
      BY <1>0, <2>2 DEF LandCollect, LandAt, LandingOk
    <2>3. CASE LandEnqueue
      BY <1>0, <2>3, WtAssumption DEF LandEnqueue, disk, LandAt, LandingOk, Lands, Off
    <2>4. CASE DrainCheck
      BY <1>0, <2>4, WtAssumption DEF DrainCheck, disk, Off
    <2>5. CASE DrainRemove \/ DrainFinish
      BY <1>0, <2>5, WtAssumption DEF DrainRemove, DrainFinish, disk, Off
    <2> QED BY <2>1, <2>2, <2>3, <2>4, <2>5 DEF Landing
  <1>5. reg' \in [WtJobs -> Rows]
    <2>0. NoRow \in Rows /\ Row("cleanup_pending", NoJob) \in Rows
          /\ \A r \in Rows : [r EXCEPT !.status = "cleanup_pending"] \in Rows
      BY DEF NoRow, Row, Rows, RowStatuses, Active
    <2>1. CASE (\E p \in WtJobs : LandBegin(p) \/ DrainBegin(p)) \/ LandCollect
      BY <1>0, <2>1 DEF LandBegin, DrainBegin, LandCollect
    <2>3. CASE LandEnqueue
      BY <1>0, <2>0, <2>3 DEF LandEnqueue, LandAt, LandingOk
    <2>4. CASE DrainCheck \/ DrainRemove
      <3>1. land.path \in WtJobs
        BY <1>0, <2>4 DEF DrainCheck, DrainRemove, LandAt, LandingOk
      <3>2. reg' = reg \/ \E s \in RowStatuses \ {"none"} : SetStatus(land.path, s)
        BY <2>4 DEF DrainCheck, DrainRemove, RowStatuses, Active
      <3> QED BY <1>0, <3>1, <3>2, StatusFacts
    <2>5. CASE DrainFinish
      BY <1>0, <2>0, <2>5 DEF DrainFinish
    <2> QED BY <2>1, <2>3, <2>4, <2>5 DEF Landing
  <1> QED BY <1>0, <1>2, <1>3, <1>4, <1>5 DEF Typed, Onward, WtTyped, Ended

LEMMA CollectorTyped ==
    ASSUME WtInv, Collector
    PROVE  Typed' /\ Onward
  <1> USE TypeFacts
  <1>0. WtTyped /\ CollectionOk
    BY DEF WtInv
  <1>1. UNCHANGED <<setting, removal, active, step, mem, tip, hits, dirt, up, land, adopted, integrated>>
        /\ room' \in [WtHappenings -> Nat] /\ tree' \subseteq tree
        /\ content' \in [WtJobs -> 0 .. WtMaxWork]
    <2>1. UNCHANGED <<setting, removal, active, step, mem, tip, hits, dirt, up, land, adopted, integrated>>
      BY DEF Collector, GcInspect, GcDrained, GcClassify, GcRemove, GcMark, GcEnd, GcRecheck, GcStale, Beside,
         handlers, seen, disk
    <2>2. room' \in [WtHappenings -> Nat]
      <3>1. UNCHANGED room \/ Befalls("gc")
        BY DEF Collector, GcInspect, GcDrained, GcClassify, GcRemove, GcMark, GcEnd, GcRecheck, GcStale
      <3> QED BY <1>0, <3>1, RoomKept DEF WtHappenings
    <2>3. tree' \subseteq tree /\ content' \in [WtJobs -> 0 .. WtMaxWork]
      <3>1. \/ UNCHANGED <<tree, content>>
            \/ tree' = tree \ {gc.path} /\ content' = [content EXCEPT ![gc.path] = 0]
        BY DEF Collector, GcInspect, GcDrained, GcClassify, GcRemove, GcMark, GcEnd, GcRecheck, GcStale, disk
      <3> QED BY <1>0, <3>1, WtAssumption
    <2> QED BY <2>1, <2>2, <2>3
  <1>2. reg' \in [WtJobs -> Rows]
    <2>1. \A p \in WtJobs : Cleaned(p) => reg' \in [WtJobs -> Rows]
      BY <1>0 DEF Cleaned, Rows, RowStatuses
    <2>2. GcMark => gc.path \in WtJobs
      BY <1>0 DEF GcMark, CollectionOk
    <2> QED BY <1>0, <2>1, <2>2 DEF Collector, GcInspect, GcDrained, GcClassify, GcRemove, GcMark, GcEnd, GcRecheck, GcStale
  <1>3. gc' \in Collections
    <2>0. NoCollection \in Collections /\ NoCollection.rows \in [WtJobs -> Rows]
      BY DEF NoCollection, Collections, NoRow, Row, Rows, RowStatuses
    <2>1. CASE GcInspect
      BY <1>0, <2>0, <2>1 DEF GcInspect, Collections
    <2>2. CASE GcDrained \/ GcRemove \/ GcEnd \/ GcMark
      BY <1>0, <2>2 DEF GcDrained, GcRemove, GcEnd, GcMark, GcGoto, Collections
    <2>3. CASE GcClassify
      <3>1. gc' = [gc EXCEPT !.step = "sweep", !.todo = {p \in WtJobs : Removable(p)},
                     !.stale = {p \in WtJobs : gc.rows[p].status \in {"creating", "retained", "cleanup_failed"}
                                               /\ p \notin tree},
                     !.rows = NoCollection.rows]
        BY <2>3 DEF GcClassify
      <3> QED BY <1>0, <2>0, <3>1 DEF Collections
    <2>4. CASE \E p \in WtJobs : GcRecheck(p) \/ GcStale(p)
      <3>1. CASE \E p \in WtJobs : GcStale(p)
        BY <1>0, <3>1 DEF GcStale, Collections
      <3>2. ASSUME NEW p \in WtJobs, GcRecheck(p) PROVE gc' \in Collections
        <4>1. gc.todo \ {p} \subseteq WtJobs
          BY <1>0 DEF Collections
        <4>2. \/ gc' = [gc EXCEPT !.step = "removing", !.path = p, !.todo = gc.todo \ {p}, !.woken = FALSE]
              \/ gc' = [gc EXCEPT !.todo = gc.todo \ {p}]
          BY <3>2 DEF GcRecheck
        <4> QED BY <1>0, <4>1, <4>2 DEF Collections
      <3> QED BY <2>4, <3>1, <3>2
    <2> QED BY <2>1, <2>2, <2>3, <2>4 DEF Collector
  <1> QED BY <1>0, <1>1, <1>2, <1>3 DEF Typed, Onward, WtTyped, Ended

LEMMA OutsideTyped ==
    ASSUME WtInv, Outside
    PROVE  Typed' /\ Onward
  <1> USE TypeFacts
  <1>0. WtTyped
    BY DEF WtInv
  <1>1. CASE Stop
    <2>1. NoLanding \in Lands
      BY WtAssumption DEF NoLanding, Lands
    <2>2. step' \in [WtJobs -> Steps]
      BY <1>0, <1>1 DEF Stop, Steps
    <2>3. room' \in [WtHappenings -> Nat]
      BY <1>0, <1>1, RoomKept DEF Stop, WtHappenings
    <2>4. Onward
      BY <1>0, <1>1 DEF Stop, disk, Onward, Ended
    <2> QED BY <1>0, <1>1, <2>1, <2>2, <2>3, <2>4 DEF Stop, disk, seen, Typed, WtTyped
  <1>2. CASE Start
    <2>1. gc' \in Collections
      BY <1>0, <1>2 DEF Start, Collections
    <2> QED BY <1>0, <1>2, <2>1 DEF Start, Befalls, WtHappenings, disk, seen, handlers, Typed, Onward, WtTyped, Ended
  <1>3. CASE RecoverClaims
    <2>1. reg' \in [WtJobs -> Rows]
      BY <1>0, <1>3 DEF RecoverClaims, Rows, RowStatuses, Active
    <2> QED BY <1>0, <1>3, <2>1 DEF RecoverClaims, Elsewhere, fixed, disk, seen, handlers, Typed, Onward, WtTyped, Ended
  <1>4. CASE Dirty \/ \E kind \in {"commit", "hit"} : Commit(kind)
    <2>1. tip' \in Nat /\ hits' \subseteq 1..tip'
      BY <1>0, <1>4 DEF Dirty, Commit
    <2>2. room' \in [WtHappenings -> Nat]
      BY <1>0, <1>4, RoomKept DEF Dirty, Commit, WtHappenings
    <2>3. /\ dirt' \in BOOLEAN
          /\ UNCHANGED <<setting, up, gc, adopted, tree, content, integrated, reg, removal, active, step, mem, land>>
      BY <1>0, <1>4 DEF Dirty, Commit, Elsewhere, fixed, disk, handlers
    <2> QED BY <1>0, <2>1, <2>2, <2>3 DEF Typed, Onward, WtTyped, Ended
  <1>5. CASE \E j \in WtJobs : RecoverJob(j) \/ Edit(j)
    <2>1. content' \in [WtJobs -> 0 .. WtMaxWork]
      BY <1>0, <1>5, WtAssumption DEF RecoverJob, Edit, disk
    <2> QED BY <1>0, <1>5, <2>1 DEF RecoverJob, Edit, Befalls, WtHappenings, Elsewhere, fixed, disk, seen, handlers, Typed,
         Onward, WtTyped, Ended
  <1> QED BY <1>1, <1>2, <1>3, <1>4, <1>5 DEF Outside

LEMMA TypesKept ==
    ASSUME WtInv, WtNext
    PROVE  WtTyped' /\ Onward
  <1>1. Typed' /\ Onward
    BY HandlerTyped, LandingTyped, CollectorTyped, OutsideTyped DEF WtNext
  <1> QED BY <1>1 DEF Typed, WtTyped, WtTypeOK, Rows, Memories, Lands, Collections


-----------------------------------------------------------------------------
(* What a handler leaves of the rest.                                       *)
LEMMA HandlerFrame ==
    ASSUME WtInv, NEW j \in WtJobs, Handler(j)
    PROVE  /\ UNCHANGED <<setting, up, gc, removal, integrated, tip, hits, land>>
           /\ up /\ ~Ended(j)
           /\ \A k \in WtJobs : k # j => /\ step'[k] = step[k] /\ mem'[k] = mem[k] /\ (k \in active' <=> k \in active)
                                         /\ (k \in tree' <=> k \in tree)
  <1> USE TypeFacts
  <1>0. WtTyped
    BY DEF WtInv
  <1>1. UNCHANGED <<setting, up, gc, removal, integrated, tip, hits, land>>
    BY DEF Handler, BeginCreate, CreateAgain, ReadKnown, ListTrees, ReconcileRegistry, Reserve, AddTree, AddFails,
       CheckTree, MarkRetained, Attach, Claim, Write, EndAgent, RemoveOwn, RemoveOwnFails, MarkRemoved, Measure,
       MeasureFails, Release, JobEnds, Elsewhere, fixed, disk, seen
  <1>2. up /\ ~Ended(j)
    BY DEF Handler, BeginCreate, CreateAgain, ReadKnown, ListTrees, ReconcileRegistry, Reserve, AddTree, AddFails,
       CheckTree, MarkRetained, Attach, Claim, Write, EndAgent, RemoveOwn, RemoveOwnFails, MarkRemoved, Measure,
       MeasureFails, Release, JobEnds, HandlerAt, Ended
  <1>3. \A k \in WtJobs : k # j => step'[k] = step[k] /\ (k \in active' <=> k \in active)
    BY <1>0 DEF Handler, BeginCreate, CreateAgain, ReadKnown, ListTrees, ReconcileRegistry, Reserve, AddTree, AddFails,
       CheckTree, MarkRetained, Attach, Claim, Write, EndAgent, RemoveOwn, RemoveOwnFails, MarkRemoved, Measure,
       MeasureFails, Release, JobEnds, Goto, Enter, handlers
  <1>4. \A k \in WtJobs : k # j => mem'[k] = mem[k]
    BY <1>0 DEF Handler, BeginCreate, CreateAgain, ReadKnown, ListTrees, ReconcileRegistry, Reserve, AddTree, AddFails,
       CheckTree, MarkRetained, Attach, Claim, Write, EndAgent, RemoveOwn, RemoveOwnFails, MarkRemoved, Measure,
       MeasureFails, Release, JobEnds, seen
  <1>5. \A k \in WtJobs : k # j => (k \in tree' <=> k \in tree)
    BY <1>0 DEF Handler, BeginCreate, CreateAgain, ReadKnown, ListTrees, ReconcileRegistry, Reserve, AddTree, AddFails,
       CheckTree, MarkRetained, Attach, Claim, Write, EndAgent, RemoveOwn, RemoveOwnFails, MarkRemoved, Measure,
       MeasureFails, Release, JobEnds, disk
  <1> QED BY <1>1, <1>2, <1>3, <1>4, <1>5

LEMMA RolesKept ==
    ASSUME WtInv, WtNext
    PROVE  \A k \in WtJobs : RoleOk(k)'
  <1> USE TypeFacts
  <1>0. WtTyped /\ \A k \in WtJobs : RoleOk(k)
    BY DEF WtInv
  <1>1. ASSUME NEW j \in WtJobs, Handler(j) PROVE \A k \in WtJobs : RoleOk(k)'
    <2>1. ASSUME NEW k \in WtJobs, k # j PROVE RoleOk(k)'
      BY <1>0, <1>1, <2>1, HandlerFrame DEF RoleOk, Still, Fresh
    <2>2. RoleOk(j)'
      <3>0. /\ UNCHANGED setting /\ up'
        BY <1>1, HandlerFrame
      <3>1. CASE BeginCreate(j) \/ CreateAgain(j) \/ ReadKnown(j) \/ ListTrees(j) \/ ReconcileRegistry(j) \/ Reserve(j)
        BY <1>0, <3>0, <3>1 DEF BeginCreate, CreateAgain, ReadKnown, ListTrees, ReconcileRegistry, Reserve, HandlerAt,
           Goto, Enter, RoleOk, Still, Fresh
      <3>2. CASE AddTree(j) \/ AddFails(j) \/ MarkRetained(j) \/ RemoveOwn(j) \/ RemoveOwnFails(j) \/ MarkRemoved(j)
        BY <1>0, <3>0, <3>2 DEF AddTree, AddFails, MarkRetained, RemoveOwn, RemoveOwnFails, MarkRemoved, HandlerAt,
           Goto, Enter, RoleOk, Still, Fresh
      <3>3. CASE CheckTree(j)
        <4>1. Verdict(j) \in {"mark", "redo", "discard"}
          BY DEF Verdict
        <4> QED BY <1>0, <3>0, <3>3, <4>1 DEF CheckTree, HandlerAt, Goto, RoleOk, Still, Fresh
      <3>4. CASE Attach(j) \/ Claim(j) \/ Write(j) \/ EndAgent(j)
        BY <1>0, <3>0, <3>4 DEF Attach, Claim, Write, EndAgent, HandlerAt, Goto, Enter, RoleOk, Still, Fresh, handlers,
           ProducedNothing
      <3>5. CASE Measure(j) \/ MeasureFails(j) \/ Release(j) \/ JobEnds(j)
        BY <1>0, <3>0, <3>5 DEF Measure, MeasureFails, Release, JobEnds, HandlerAt, Goto, RoleOk, Still, Fresh
      <3> QED BY <1>1, <3>1, <3>2, <3>3, <3>4, <3>5 DEF Handler
    <2> QED BY <2>1, <2>2
  <1>2. CASE Landing \/ Collector
    <2>1. UNCHANGED <<setting, up, active, step>>
      BY <1>2 DEF Landing, LandBegin, DrainBegin, LandCollect, LandEnqueue, DrainCheck, DrainRemove, DrainFinish, Elsewhere,
         fixed, handlers, Collector, GcInspect, GcDrained, GcClassify, GcRemove, GcMark, GcEnd, GcRecheck, GcStale, Beside
    <2> QED BY <1>0, <2>1 DEF RoleOk, Still, Fresh
  <1>3. CASE Outside
    <2>1. CASE Stop
      BY <1>0, <2>1 DEF Stop, RoleOk, Still, Fresh
    <2>2. CASE Start
      BY <1>0, <2>2 DEF Start, handlers, RoleOk, Still, Fresh
    <2>3. CASE RecoverClaims \/ Dirty \/ (\E j \in WtJobs : Edit(j)) \/ \E kind \in {"commit", "hit"} : Commit(kind)
      BY <1>0, <2>3 DEF RecoverClaims, Dirty, Edit, Commit, Elsewhere, fixed, handlers, RoleOk, Still, Fresh
    <2>4. CASE \E j \in WtJobs : RecoverJob(j)
      BY <1>0, <2>4 DEF RecoverJob, Elsewhere, fixed, RoleOk, Still, Fresh
    <2> QED BY <1>3, <2>1, <2>2, <2>3, <2>4 DEF Outside
  <1> QED BY <1>1, <1>2, <1>3 DEF WtNext


-----------------------------------------------------------------------------
(* Whose rows a handler writes: its own, one it continues, or all of them   *)
(* in a reconciliation.                                                     *)
LEMMA OtherRows ==
    ASSUME WtInv, NEW j \in WtJobs, Handler(j), NEW p \in WtJobs, p # j
    PROVE  /\ reg'[p] = reg[p] \/ ReconcileRegistry(j) \/ (p = Tree(j) /\ (Claim(j) \/ Release(j)))
           /\ content'[p] = content[p] \/ (p = Tree(j) /\ Write(j))
           /\ ~ReconcileRegistry(j) => adopted' = adopted
  <1> USE TypeFacts
  <1>0. WtTyped
    BY DEF WtInv
  <1>1. CASE \/ BeginCreate(j) \/ CreateAgain(j) \/ ReadKnown(j) \/ ListTrees(j) \/ ReconcileRegistry(j)
             \/ CheckTree(j) \/ Attach(j) \/ EndAgent(j) \/ JobEnds(j)
    BY <1>1 DEF BeginCreate, CreateAgain, ReadKnown, ListTrees, ReconcileRegistry, CheckTree, Attach, EndAgent, JobEnds,
       disk, Elsewhere, fixed
  <1>2. CASE Claim(j) \/ Release(j) \/ Write(j)
    <2>1. reg'[p] = reg[p] \/ (p = Tree(j) /\ (Claim(j) \/ Release(j)))
      BY <1>0, <1>2 DEF Claim, Release, Write
    <2>2. content'[p] = content[p] \/ (p = Tree(j) /\ Write(j))
      BY <1>0, <1>2 DEF Claim, Release, Write, disk
    <2> QED BY <1>2, <2>1, <2>2 DEF Claim, Release, Write, Elsewhere, fixed
  <1>3. CASE \/ Reserve(j) \/ MarkRetained(j) \/ MarkRemoved(j) \/ Measure(j) \/ MeasureFails(j) \/ RemoveOwnFails(j)
    <2>1. reg'[p] = reg[p]
      BY <1>0, <1>3 DEF Reserve, MarkRetained, MarkRemoved, Measure, MeasureFails, RemoveOwnFails, SetStatus
    <2> QED BY <1>3, <2>1 DEF Reserve, MarkRetained, MarkRemoved, Measure, MeasureFails, RemoveOwnFails, disk, Elsewhere, fixed
  <1>4. CASE AddTree(j) \/ AddFails(j) \/ RemoveOwn(j)
    <2>1. reg'[p] = reg[p]
      BY <1>0, <1>4 DEF AddTree, AddFails, RemoveOwn, SetStatus
    <2>2. content'[p] = content[p]
      BY <1>0, <1>4 DEF AddTree, AddFails, RemoveOwn
    <2> QED BY <1>4, <2>1, <2>2 DEF AddTree, AddFails, RemoveOwn, Elsewhere, fixed
  <1> QED BY <1>1, <1>2, <1>3, <1>4 DEF Handler

LEMMA Reconciles ==
    ASSUME WtInv, NEW j \in WtJobs, ReconcileRegistry(j), NEW p \in WtJobs
    PROVE  /\ reg[p] # NoRow => reg'[p] # NoRow
           /\ p \in tree /\ reg[p].status \in Active => reg'[p] = reg[p]
           /\ p \notin adopted' /\ ~Ended(p) => reg'[p].job = reg[p].job /\ (reg[p] = NoRow => reg'[p] = NoRow)
           /\ reg[p] = NoRow /\ reg'[p] # NoRow => p \in mem[j].found
           /\ p \notin adopted' => p \notin adopted
  <1> USE TypeFacts
  <1>0. WtTyped /\ reg[p] \in Rows
    BY DEF WtInv
  <1>1. reg'[p] = IF Adopted(j, p).status \in Active \ {"cleanup_pending"} /\ p \notin tree
                 THEN [Adopted(j, p) EXCEPT !.status = "cleaned"] ELSE Adopted(j, p)
    BY <1>0 DEF ReconcileRegistry
  <1>2. Adopted(j, p) = reg[p] \/ (Adopted(j, p) = Row("retained", NoJob) /\ reg[p].status \notin Active /\ p \in mem[j].found)
    BY DEF Adopted
  <1>3. p \notin adopted' /\ ~Ended(p) => Adopted(j, p) = reg[p]
    BY <1>2 DEF ReconcileRegistry, Ended
  <1>4. NoRow.status = "none" /\ "none" \notin Active
    BY DEF NoRow, Row, Active
  <1> QED BY <1>0, <1>1, <1>2, <1>3, <1>4 DEF ReconcileRegistry, Rows, Row, Active

(* A job that continues a worktree claims it after its creator has ended.   *)
LEMMA ClaimAfterEnd ==
    ASSUME WtInv, NEW j \in WtJobs, Claim(j), Usable(Tree(j)), Tree(j) \notin adopted
    PROVE  Tree(j) \in WtJobs /\ Ended(Tree(j))
  <1> USE TypeFacts
  <1>0. WtTyped /\ RoleOk(j) /\ step[j] = "claim"
    BY DEF WtInv, Claim, HandlerAt
  <1>1. Tree(j) \in WtJobs /\ j \notin Fresh /\ Tree(j) = setting.follows[j] /\ j \in DOMAIN setting.follows
    BY <1>0, WorkingPath DEF RoleOk, Still
  <1>2. Tree(j) \in Fresh \/ Tree(j) \in setting.old
    BY <1>0, <1>1, WtAssumption DEF WtTyped, Fresh
  <1>3. ASSUME NEW p \in WtJobs, p = Tree(j) PROVE Ended(p)
    <2>1. /\ CreatorOk(p) /\ RoleOk(p) /\ p \in tree /\ p \notin adopted
          /\ reg[p].status \in {"retained", "in_use"} /\ reg[p].job \notin active
      BY <1>3 DEF WtInv, Usable
    <2>2. reg[p] # NoRow /\ step[p] # "new"
      BY <2>1 DEF NoRow, Row, CreatorOk
    <2>3. CASE p \in Fresh
      BY <2>1, <2>2, <2>3 DEF CreatorOk, RoleOk, Ended, Still
    <2>4. CASE p \notin Fresh
      <3>1. p \notin DOMAIN setting.follows
        BY <1>0, <1>2, <1>3, <2>4, SettingFacts DEF WtTyped, Fresh
      <3> QED BY <2>1, <2>2, <2>4, <3>1 DEF RoleOk, Ended, Still
    <2> QED BY <2>3, <2>4
  <1> QED BY <1>1, <1>3


-----------------------------------------------------------------------------
LEMMA OtherCreators ==
    ASSUME WtInv, WtTyped', Onward, NEW j \in WtJobs, Handler(j), NEW p \in WtJobs, p # j
    PROVE  CreatorOk(p)'
  <1> USE TypeFacts
  <1>0. /\ CreatorOk(p) /\ RoleOk(p) /\ WtTyped /\ reg[p] \in Rows
    BY DEF WtInv
  <1>1. /\ step'[p] = step[p] /\ mem'[p] = mem[p] /\ (p \in tree' <=> p \in tree)
        /\ Fresh' = Fresh /\ tip' = tip /\ hits' = hits /\ adopted \subseteq adopted'
        /\ \A q \in WtJobs : step'[q] = "new" => step[q] = "new"
    BY HandlerFrame DEF Onward, Fresh
  <1>2. mem[p].found \subseteq WtJobs
    BY <1>0 DEF Memories
  <1>3. p \in Fresh /\ step[p] \in Empty /\ p \notin adopted => content'[p] = content[p]
    <2>1. ASSUME Write(j), p = Tree(j), p \in Fresh, p \notin adopted PROVE Ended(p)
      <3>1. j \notin Fresh /\ step[j] = "working" /\ FollowerOk(j)
        BY <2>1, WorkingPath DEF Write, HandlerAt, WtInv
      <3> QED BY <2>1, <3>1 DEF FollowerOk, Continues
    <2> QED BY <2>1, OtherRows DEF Ended, Empty
  <1>4. /\ reg[p] # NoRow => reg'[p] # NoRow
        /\ reg'[p] # NoRow => step[p] # "new"
        /\ ~Still(p) /\ p \in Fresh /\ p \notin adopted' => reg'[p] = NoRow \/ reg'[p].job = p
        /\ p \in Fresh /\ step[p] = "working" => reg'[p].status \in Active
    <2>1. CASE reg'[p] = reg[p]
      BY <1>0, <1>1, <2>1 DEF CreatorOk
    <2>2. CASE ReconcileRegistry(j)
      <3>1. p \in Fresh /\ step[p] = "working" => p \in tree
        BY <1>0 DEF CreatorOk, Made
      <3>2. CreatorOk(j)
        BY DEF WtInv
      <3> QED BY <1>0, <1>1, <2>2, <3>1, <3>2, Reconciles DEF CreatorOk, Still, Ended
    <2>3. CASE Claim(j) /\ p = Tree(j)
      <3>1. reg'[p] = reg[p] \/ (reg'[p] = Row("in_use", j) /\ Usable(p))
        BY <1>0, <2>3 DEF Claim
      <3>2. CASE reg'[p] = Row("in_use", j) /\ Usable(p)
        <4>1. p \notin adopted => Ended(p)
          BY <2>3, <3>2, ClaimAfterEnd
        <4>2. p \in tree
          BY <3>2 DEF Usable
        <4> QED BY <1>0, <1>1, <3>2, <4>1, <4>2 DEF CreatorOk, Row, NoRow, Active, Still, Ended
      <3> QED BY <2>1, <3>1, <3>2
    <2>4. CASE Release(j) /\ p = Tree(j)
      <3>1. reg'[p] = reg[p] \/ (reg[p] = Row("in_use", j) /\ reg'[p] = [reg[p] EXCEPT !.status = "retained"])
        BY <1>0, <2>4 DEF Release
      <3>2. CASE reg[p] = Row("in_use", j) /\ reg'[p] = [reg[p] EXCEPT !.status = "retained"]
        <4>1. reg'[p].status = "retained" /\ reg'[p].job = reg[p].job /\ reg[p] # NoRow /\ reg'[p] # NoRow
          BY <3>2 DEF Row, NoRow
        <4> QED BY <1>0, <1>1, <4>1 DEF CreatorOk, Active
      <3> QED BY <2>1, <3>1, <3>2
    <2> QED BY <2>1, <2>2, <2>3, <2>4, OtherRows
  <1> QED BY <1>0, <1>1, <1>2, <1>3, <1>4 DEF CreatorOk, Still, Made, Empty, BeforeAdd

LEMMA OwnCreator ==
    ASSUME WtInv, WtTyped', Onward, NEW j \in WtJobs, Handler(j)
    PROVE  CreatorOk(j)'
  <1> USE TypeFacts
  <1>0. /\ CreatorOk(j) /\ RoleOk(j) /\ WtTyped /\ reg[j] \in Rows /\ reg'[j] \in Rows /\ ~Ended(j)
        /\ mem[j] \in Memories
    <2>1. WtTyped /\ CreatorOk(j) /\ RoleOk(j) /\ ~Ended(j)
      BY HandlerFrame DEF WtInv
    <2>2. reg' \in [WtJobs -> Rows]
      BY DEF WtTyped, WtTypeOK, Rows
    <2> QED BY <2>1, <2>2
  <1>1. /\ Fresh' = Fresh /\ tip' = tip /\ hits' = hits /\ adopted \subseteq adopted' /\ step'[j] # "new"
        /\ \A q \in WtJobs : step'[q] = "new" => step[q] = "new"
    <2>1. step'[j] # "new"
      <3>1. Verdict(j) # "new"
        BY DEF Verdict
      <3> QED BY <1>0, <3>1 DEF Handler, BeginCreate, CreateAgain, ReadKnown, ListTrees, ReconcileRegistry, Reserve,
         AddTree, AddFails, CheckTree, MarkRetained, Attach, Claim, Write, EndAgent, RemoveOwn, RemoveOwnFails,
         MarkRemoved, Measure, MeasureFails, Release, JobEnds, HandlerAt, Goto, Enter, handlers
    <2> QED BY <2>1, HandlerFrame DEF Onward, Fresh
  <1>2. mem'[j].added <= tip /\ \A q \in mem'[j].found : step'[q] # "new"
    <2>0. mem[j].found \subseteq WtJobs
      BY <1>0 DEF Memories
    <2>1. mem'[j].added = mem[j].added \/ mem'[j].added = tip
      BY <1>0 DEF Handler, BeginCreate, CreateAgain, ReadKnown, ListTrees, ReconcileRegistry, Reserve,
         AddTree, AddFails, CheckTree, MarkRetained, Attach, Claim, Write, EndAgent, RemoveOwn, RemoveOwnFails,
         MarkRemoved, Measure, MeasureFails, Release, JobEnds, seen, Memories
    <2>2. mem'[j].found \subseteq mem[j].found \cup tree
      BY <1>0 DEF Handler, BeginCreate, CreateAgain, ReadKnown, ListTrees, ReconcileRegistry, Reserve,
         AddTree, AddFails, CheckTree, MarkRetained, Attach, Claim, Write, EndAgent, RemoveOwn, RemoveOwnFails,
         MarkRemoved, Measure, MeasureFails, Release, JobEnds, seen, Memories
    <2>3. \A q \in tree : step[q] # "new"
      BY <1>0 DEF WtInv, CreatorOk
    <2> QED BY <1>0, <1>1, <2>0, <2>1, <2>2, <2>3 DEF CreatorOk
  <1>3. CASE j \notin Fresh
    BY <1>1, <1>2, <1>3 DEF CreatorOk
  <1>4. CASE j \in Fresh
    <2> DEFINE Goal == /\ step'[j] \in BeforeAdd => j \notin tree'
                       /\ step'[j] \in Made => j \in tree'
                       /\ step'[j] \in Made \cup {"add"} => reg'[j] # NoRow
                       /\ ~Still(j)' /\ j \notin adopted' => reg'[j] = NoRow \/ reg'[j].job = j
                       /\ step'[j] = "working" => reg'[j].status \in Active
                       /\ step'[j] \in Empty /\ j \notin adopted' => content'[j] = 0
                       /\ step'[j] \in {"mark", "working"} => hits \cap (mem'[j].base + 1 .. mem'[j].added) = {}
    <2>1. ASSUME BeginCreate(j) \/ CreateAgain(j) \/ ReadKnown(j) \/ ListTrees(j) \/ JobEnds(j) PROVE Goal
      <3>1. step'[j] \in {"known", "list", "reconcile", "done", "over"} /\ UNCHANGED <<tree, reg, adopted>>
        BY <1>0, <2>1 DEF BeginCreate, CreateAgain, ReadKnown, ListTrees, JobEnds, Goto, Enter, disk, Elsewhere, fixed
      <3>2. step[j] \in {"new", "base", "known", "list", "done"}
        BY <2>1 DEF BeginCreate, CreateAgain, ReadKnown, ListTrees, JobEnds, HandlerAt
      <3>3. j \notin tree \/ step'[j] \in {"done", "over"}
        BY <1>0, <1>4, <2>1, <3>1, <3>2 DEF CreatorOk, BeforeAdd, JobEnds, BeginCreate, CreateAgain, ReadKnown, ListTrees,
           HandlerAt
      <3>4. step[j] = "new" => reg[j] = NoRow
        BY <1>0 DEF CreatorOk
      <3> QED BY <1>0, <1>4, <3>1, <3>2, <3>3, <3>4 DEF CreatorOk, BeforeAdd, Made, Empty, Still
    <2>2. ASSUME ReconcileRegistry(j) PROVE Goal
      <3>1. step[j] = "reconcile" /\ step'[j] = "reserve" /\ tree' = tree
        BY <1>0, <2>2 DEF ReconcileRegistry, HandlerAt, Goto, disk
      <3> QED BY <1>0, <1>4, <2>2, <3>1, Reconciles DEF CreatorOk, BeforeAdd, Made, Empty, Still, Ended
    <2>3. ASSUME Reserve(j) PROVE Goal
      <3>1. step[j] = "reserve" /\ UNCHANGED <<tree, adopted>>
            /\ (\/ reg'[j] = Row("creating", j) /\ step'[j] = "add"
                \/ reg' = reg /\ step'[j] = "done")
        BY <1>0, <2>3 DEF Reserve, HandlerAt, Goto, disk, Elsewhere, fixed
      <3> QED BY <1>0, <1>4, <3>1 DEF CreatorOk, BeforeAdd, Made, Empty, Still, Row, NoRow
    <2>4. ASSUME AddTree(j) \/ AddFails(j) PROVE Goal
      <3>1. step[j] = "add" /\ adopted' = adopted
        BY <2>4 DEF AddTree, AddFails, HandlerAt, Elsewhere, fixed
      <3>2. CASE AddTree(j)
        <4>1. step'[j] = "check" /\ j \in tree' /\ content'[j] = 0 /\ reg' = reg
          BY <1>0, <3>2 DEF AddTree, Goto
        <4> QED BY <1>0, <1>4, <3>1, <4>1 DEF CreatorOk, BeforeAdd, Made, Empty, Still
      <3>3. CASE AddFails(j)
        <4>1. step'[j] = "done"
          BY <1>0, <3>3 DEF AddFails, Goto
        <4>2. reg'[j] = NoRow \/ reg'[j].job = reg[j].job
          BY <1>0, <3>3 DEF AddFails, SetStatus, Rows
        <4> QED BY <1>0, <1>4, <3>1, <4>1, <4>2 DEF CreatorOk, BeforeAdd, Made, Empty, Still
      <3> QED BY <2>4, <3>2, <3>3
    <2>5. ASSUME CheckTree(j) PROVE Goal
      <3>1. /\ step[j] = "check" /\ step'[j] = Verdict(j) /\ UNCHANGED <<tree, reg, adopted, content>>
            /\ mem'[j].base = mem[j].base /\ mem'[j].added = mem[j].added
        BY <1>0, <2>5 DEF CheckTree, HandlerAt, Goto, disk, Elsewhere, fixed, Memories
      <3>2. Verdict(j) \in {"mark", "redo", "discard"} /\ (Verdict(j) = "mark" => ~Touched(j, tip))
        BY DEF Verdict
      <3>3. ~Touched(j, tip) => hits \cap (mem[j].base + 1 .. mem[j].added) = {}
        BY <1>0 DEF Touched, CreatorOk, Memories
      <3> QED BY <1>0, <1>4, <3>1, <3>2, <3>3 DEF CreatorOk, BeforeAdd, Made, Empty, Still
    <2>6. ASSUME MarkRetained(j) PROVE Goal
      <3>1. /\ step[j] = "mark" /\ step'[j] = "working" /\ UNCHANGED <<tree, adopted, mem>>
            /\ SetStatus(j, "retained")
        BY <1>0, <2>6 DEF MarkRetained, HandlerAt, Goto, disk, Elsewhere, fixed, seen
      <3>2. reg[j] # NoRow
        BY <1>0, <1>4, <3>1 DEF CreatorOk, Made, Empty
      <3>3. reg'[j] = [reg[j] EXCEPT !.status = "retained"]
        BY <1>0, <3>1, <3>2 DEF SetStatus
      <3>4. reg'[j].status = "retained" /\ reg'[j].job = reg[j].job /\ reg'[j] # NoRow
        BY <1>0, <3>3 DEF Rows, NoRow, Row
      <3> QED BY <1>0, <1>4, <3>1, <3>2, <3>4 DEF CreatorOk, BeforeAdd, Made, Empty, Still, Active
    <2>7. ASSUME EndAgent(j) \/ Write(j) PROVE Goal
      <3>1. /\ step[j] = "working" /\ UNCHANGED <<tree, reg, adopted, mem>>
            /\ (\/ step'[j] = "working"
                \/ step'[j] = "empty" /\ content'[j] = 0
                \/ step'[j] = "measure")
        BY <1>0, <1>4, <2>7 DEF EndAgent, Write, ProducedNothing, HandlerAt, Goto, disk, Elsewhere, fixed, seen, handlers
      <3> QED BY <1>0, <1>4, <3>1 DEF CreatorOk, BeforeAdd, Made, Empty, Still
    <2>8. ASSUME RemoveOwn(j) \/ MarkRemoved(j) PROVE Goal
      <3>1. /\ adopted' = adopted
            /\ step'[j] \in {"redone", "discarded", "emptied", "base", "done"}
            /\ (step'[j] # "done" => j \notin tree') /\ reg'[j].job = reg[j].job /\ ~Still(j)
        <4>1. CASE RemoveOwn(j)
          BY <1>0, <4>1 DEF RemoveOwn, HandlerAt, Goto, Elsewhere, fixed, Still
        <4>2. CASE MarkRemoved(j)
          <5>1. reg'[j].job = reg[j].job
            BY <1>0, <4>2 DEF MarkRemoved, SetStatus, Rows
          <5>2. j \notin tree
            BY <1>0, <1>4, <4>2 DEF MarkRemoved, HandlerAt, CreatorOk, BeforeAdd
          <5> QED BY <1>0, <4>2, <5>1, <5>2 DEF MarkRemoved, HandlerAt, Goto, disk, Elsewhere, fixed, Still
        <4> QED BY <2>8, <4>1, <4>2
      <3>2. reg[j] = NoRow => reg'[j] = NoRow
        BY <1>0, <2>8 DEF RemoveOwn, MarkRemoved, SetStatus
      <3> QED BY <1>0, <1>4, <3>1, <3>2 DEF CreatorOk, BeforeAdd, Made, Empty, Still
    <2>9. ASSUME RemoveOwnFails(j) \/ Measure(j) \/ MeasureFails(j) PROVE Goal
      <3>1. /\ UNCHANGED <<tree, adopted>> /\ step[j] \in Made /\ step'[j] \in {"measure", "done"}
        BY <1>0, <2>9 DEF RemoveOwnFails, Measure, MeasureFails, HandlerAt, Goto, disk, Elsewhere, fixed, Made, Empty
      <3>2. \E s \in RowStatuses \ {"none"} : SetStatus(j, s)
        BY <2>9 DEF RemoveOwnFails, Measure, MeasureFails, RowStatuses, Active
      <3>3. reg'[j].job = reg[j].job /\ (reg'[j] = NoRow <=> reg[j] = NoRow)
        BY <1>0, <3>2, StatusFacts
      <3> QED BY <1>0, <1>4, <3>1, <3>3 DEF CreatorOk, BeforeAdd, Made, Empty, Still
    <2>10. ~Attach(j) /\ ~Claim(j) /\ ~Release(j)
      BY <1>0, <1>4 DEF Attach, Claim, Release, HandlerAt, RoleOk
    <2>11. Goal
      <3> QED BY <2>1, <2>2, <2>3, <2>4, <2>5, <2>6, <2>7, <2>8, <2>9, <2>10 DEF Handler
    <2> QED BY <1>1, <1>2, <1>4, <2>11 DEF CreatorOk
  <1> QED BY <1>3, <1>4


(* An integration, a cleanup and a collection write rows of ended jobs.     *)
LEMMA LandingFrame ==
    ASSUME WtInv, Landing
    PROVE  /\ UNCHANGED <<setting, up, gc, adopted, active, step, mem, tip, hits, dirt>>
           /\ UNCHANGED <<tree, content, reg>> \/ Ended(land.path)
           /\ \A p \in WtJobs : p # land.path => UNCHANGED <<reg[p], content[p]>> /\ (p \in tree' <=> p \in tree)
  <1> USE TypeFacts
  <1>0. WtTyped /\ LandingOk
    BY DEF WtInv
  <1>1. UNCHANGED <<setting, up, gc, adopted, active, step, mem, tip, hits, dirt>>
    BY DEF Landing, LandBegin, DrainBegin, LandCollect, LandEnqueue, DrainCheck, DrainRemove, DrainFinish,
       Elsewhere, fixed, handlers, seen
  <1>2. UNCHANGED <<tree, content, reg>> \/ Ended(land.path)
    BY <1>0 DEF Landing, LandBegin, DrainBegin, LandCollect, LandEnqueue, DrainCheck, DrainRemove, DrainFinish,
       disk, LandingOk, LandAt
  <1>3. ASSUME NEW p \in WtJobs, p # land.path PROVE UNCHANGED <<reg[p], content[p]>> /\ (p \in tree' <=> p \in tree)
    <2>1. UNCHANGED reg[p]
      <3>1. reg' = reg \/ LandEnqueue \/ DrainFinish \/ (\E s \in RowStatuses : SetStatus(land.path, s))
        BY DEF Landing, LandBegin, DrainBegin, LandCollect, DrainCheck, DrainRemove, RowStatuses, Active
      <3>2. LandEnqueue => UNCHANGED reg[p]
        BY <1>0, <1>3 DEF LandEnqueue
      <3>3. DrainFinish => UNCHANGED reg[p]
        BY <1>0, <1>3 DEF DrainFinish
      <3>4. \A s \in RowStatuses : SetStatus(land.path, s) => UNCHANGED reg[p]
        BY <1>0, <1>3 DEF SetStatus
      <3> QED BY <3>1, <3>2, <3>3, <3>4
    <2>2. UNCHANGED content[p] /\ (p \in tree' <=> p \in tree)
      BY <1>0, <1>3 DEF Landing, LandBegin, DrainBegin, LandCollect, LandEnqueue, DrainCheck, DrainRemove, DrainFinish, disk
    <2> QED BY <2>1, <2>2
  <1> QED BY <1>1, <1>2, <1>3

LEMMA CollectorFrame ==
    ASSUME WtInv, Collector
    PROVE  /\ UNCHANGED <<setting, removal, active, step, mem, tip, hits, dirt, up, land, adopted, integrated>>
           /\ \A p \in WtJobs : (UNCHANGED <<reg[p], content[p]>> /\ (p \in tree' <=> p \in tree)) \/ Ended(p)
           /\ \A p \in WtJobs : reg'[p] = reg[p] \/ p \notin tree
           /\ reg' = reg \/ tree' = tree
           /\ \A p \in WtJobs : content'[p] = content[p] \/ content'[p] = 0
  <1> USE TypeFacts
  <1>0. WtTyped /\ CollectionOk
    BY DEF WtInv
  <1>1. UNCHANGED <<setting, removal, active, step, mem, tip, hits, dirt, up, land, adopted, integrated>>
    BY DEF Collector, GcInspect, GcDrained, GcClassify, GcRemove, GcMark, GcEnd, GcRecheck, GcStale, Beside,
       handlers, seen, disk
  <1>2. CASE GcMark \/ \E p \in WtJobs : GcStale(p)
    <2>1. PICK q \in WtJobs : Cleaned(q) /\ Ended(q) /\ q \notin tree
      BY <1>0, <1>2 DEF GcMark, GcStale, CollectionOk
    <2>2. \A p \in WtJobs : p # q => reg'[p] = reg[p]
      BY <1>0, <2>1 DEF Cleaned
    <2>3. UNCHANGED <<tree, content>>
      BY <1>2 DEF GcMark, GcStale, disk
    <2> QED BY <1>1, <2>1, <2>2, <2>3
  <1>3. CASE GcRemove
    BY <1>0, <1>1, <1>3 DEF GcRemove, CollectionOk
  <1>4. CASE GcInspect \/ GcDrained \/ GcClassify \/ GcEnd \/ \E p \in WtJobs : GcRecheck(p)
    BY <1>1, <1>4 DEF GcInspect, GcDrained, GcClassify, GcEnd, GcRecheck, disk
  <1> QED BY <1>2, <1>3, <1>4 DEF Collector

LEMMA CreatorsKept ==
    ASSUME WtInv, WtTyped', Onward, WtNext
    PROVE  \A p \in WtJobs : CreatorOk(p)'
  <1> USE TypeFacts
  <1>0. WtTyped /\ \A p \in WtJobs : CreatorOk(p) /\ RoleOk(p)
    BY DEF WtInv
  <1>1. ASSUME NEW p \in WtJobs, Ended(p)', mem'[p].added <= tip', \A q \in mem'[p].found : step'[q] # "new"
        PROVE  CreatorOk(p)'
    BY <1>1 DEF CreatorOk, Ended, BeforeAdd, Made, Empty, Still
  <1>2. ASSUME NEW j \in WtJobs, Handler(j) PROVE \A p \in WtJobs : CreatorOk(p)'
    BY <1>2, OtherCreators, OwnCreator
  <1>3. ASSUME NEW p \in WtJobs, UNCHANGED <<setting, step, mem, tip, hits, adopted>>,
               UNCHANGED <<reg[p], content[p]>> /\ (p \in tree' <=> p \in tree)
        PROVE  CreatorOk(p)'
    BY <1>0, <1>3 DEF CreatorOk, Still, Fresh
  <1>4. ASSUME NEW p \in WtJobs, UNCHANGED <<step, mem, tip>>, Ended(p) PROVE CreatorOk(p)'
    <2>1. mem'[p].added <= tip' /\ \A q \in mem'[p].found : step'[q] # "new"
      BY <1>0, <1>4 DEF CreatorOk
    <2> QED BY <1>1, <1>4, <2>1 DEF Ended
  <1>5. CASE Landing
    BY <1>3, <1>4, <1>5, LandingFrame
  <1>6. CASE Collector
    BY <1>3, <1>4, <1>6, CollectorFrame
  <1>7. CASE Outside
    <2>1. CASE Stop
      <3>1. \A p \in WtJobs : Still(p)' /\ (step'[p] = "new" => step[p] = "new")
        BY <1>0, <2>1 DEF Stop, Still
      <3>2. \A p \in WtJobs : mem[p].found \subseteq WtJobs
        BY <1>0 DEF Memories
      <3>3. UNCHANGED <<setting, tree, reg, mem, tip>>
        BY <2>1 DEF Stop, disk, seen
      <3> QED BY <1>0, <3>1, <3>2, <3>3 DEF CreatorOk, Still, BeforeAdd, Made, Empty
    <2>2. CASE Start \/ \E j \in WtJobs : RecoverJob(j)
      BY <1>3, <2>2 DEF Start, RecoverJob, disk, seen, handlers, Elsewhere, fixed
    <2>3. CASE RecoverClaims
      <3>1. \A p \in WtJobs : reg'[p] = reg[p] \/ (reg[p].status = "in_use" /\ reg'[p] = [reg[p] EXCEPT !.status = "retained"])
        BY <1>0, <2>3 DEF RecoverClaims
      <3>2. UNCHANGED <<setting, step, mem, tip, hits, adopted, tree, content>>
        BY <2>3 DEF RecoverClaims, disk, seen, handlers, Elsewhere, fixed
      <3>3. ASSUME NEW p \in WtJobs, reg[p].status = "in_use", reg'[p] = [reg[p] EXCEPT !.status = "retained"]
            PROVE  CreatorOk(p)'
        <4>1. reg[p] # NoRow /\ reg'[p] # NoRow /\ reg'[p].job = reg[p].job /\ reg'[p].status = "retained"
          BY <1>0, <3>3 DEF NoRow, Row, Rows
        <4> QED BY <1>0, <3>2, <4>1 DEF CreatorOk, Still, Fresh, Active
      <3> QED BY <1>3, <3>1, <3>2, <3>3
    <2>4. CASE Dirty
      BY <1>3, <2>4 DEF Dirty, disk, handlers, Elsewhere, fixed
    <2>5. ASSUME NEW kind \in {"commit", "hit"}, Commit(kind) PROVE \A p \in WtJobs : CreatorOk(p)'
      <3>1. /\ UNCHANGED <<setting, step, mem, adopted, tree, content, reg>>
            /\ tip' = tip + 1 /\ hits' \subseteq hits \cup {tip + 1}
        BY <2>5 DEF Commit, disk, handlers, Elsewhere, fixed
      <3>2. \A p \in WtJobs : mem[p].added \in Nat /\ mem[p].base \in Nat /\ mem[p].added <= tip
        BY <1>0 DEF Memories, CreatorOk
      <3>3. \A p \in WtJobs : tip + 1 \notin mem[p].base + 1 .. mem[p].added
        BY <1>0, <3>2
      <3> QED BY <1>0, <3>1, <3>2, <3>3 DEF CreatorOk, Still, Fresh
    <2>6. ASSUME NEW j \in WtJobs, Edit(j) PROVE \A p \in WtJobs : CreatorOk(p)'
      <3>1. /\ UNCHANGED <<setting, step, mem, tip, hits, adopted, tree, reg>> /\ Ended(j)
            /\ \A p \in WtJobs : p # j => content'[p] = content[p]
        BY <1>0, <2>6 DEF Edit, seen, handlers, Elsewhere, fixed, Ended
      <3> QED BY <1>3, <1>4, <3>1
    <2> QED BY <1>7, <2>1, <2>2, <2>3, <2>4, <2>5, <2>6 DEF Outside
  <1> QED BY <1>2, <1>5, <1>6, <1>7 DEF WtNext


-----------------------------------------------------------------------------
LEMMA FollowersKept ==
    ASSUME WtInv, WtTyped', Onward, WtNext
    PROVE  (\A k \in WtJobs : FollowerOk(k)') /\ OneFollows'
  <1> USE TypeFacts
  <1>0. WtTyped /\ OneFollows /\ \A p \in WtJobs : FollowerOk(p) /\ RoleOk(p) /\ CreatorOk(p)
    BY DEF WtInv
  <1>1. \A k : Tree(k)' = Tree(k) /\ (Ended(Tree(k)) /\ Tree(k) \in WtJobs => Ended(Tree(k))')
    BY DEF Onward, Tree, Fresh
  <1>2. \A k \in WtJobs : step[k] = "working" => Tree(k) \in WtJobs
    BY WorkingPath
  (* Nobody starts to continue a worktree, and rows in use stay.            *)
  <1>3. ASSUME \A k \in WtJobs : step'[k] = "working" => step[k] = "working" \/ k \in Fresh,
               \A k \in WtJobs : /\ Continues(k) /\ Continues(k)' /\ Tree(k) \in tree'
                                 /\ Tree(k) \in tree /\ Ended(Tree(k)) /\ reg[Tree(k)] = Row("in_use", k)
                                 => reg'[Tree(k)] = Row("in_use", k)
        PROVE  (\A k \in WtJobs : FollowerOk(k)') /\ OneFollows'
    <2>1. \A k \in WtJobs : Continues(k)' => Continues(k)
      BY <1>1, <1>3 DEF Continues, Onward, Fresh
    <2>2. ASSUME NEW k \in WtJobs, Continues(k)' PROVE Ended(Tree(k))' /\ (Tree(k) \in tree' => reg'[Tree(k)] = Row("in_use", k))
      <3>1. Continues(k) /\ Tree(k) \in WtJobs /\ Ended(Tree(k))
        BY <1>0, <1>2, <2>1, <2>2 DEF FollowerOk, Continues
      <3>2. Tree(k) \in tree' => Tree(k) \in tree
        BY <3>1 DEF Onward, Ended
      <3> QED BY <1>0, <1>1, <1>3, <2>2, <3>1, <3>2 DEF FollowerOk
    <2>3. \A k \in WtJobs : FollowerOk(k)'
      BY <1>1, <2>2 DEF FollowerOk, Row
    <2> QED BY <1>0, <1>1, <2>1, <2>3 DEF OneFollows
  <1>4. ASSUME NEW j \in WtJobs, Handler(j) PROVE (\A k \in WtJobs : FollowerOk(k)') /\ OneFollows'
    <2>0. \A k \in WtJobs : k # j => step'[k] = step[k]
      BY <1>4, HandlerFrame
    <2>1. CASE Claim(j) /\ step'[j] = "working"
      <3>1. /\ Usable(Tree(j)) /\ reg' = [reg EXCEPT ![Tree(j)] = Row("in_use", j)] /\ UNCHANGED <<tree, adopted>>
            /\ step[j] = "claim"
        BY <1>0, <2>1 DEF Claim, HandlerAt, Goto, disk, Elsewhere, fixed
      <3>2. Tree(j) \in WtJobs /\ (Tree(j) \notin adopted => Ended(Tree(j)))
        BY <2>1, <3>1, ClaimAfterEnd, WorkingPath
      <3>3. Tree(j) \in tree /\ reg[Tree(j)].job \notin active
        BY <3>1 DEF Usable
      <3>4. ASSUME NEW k \in WtJobs, k # j, Continues(k)' PROVE Continues(k) /\ Tree(k) # Tree(j)
        <4>1. Continues(k)
          BY <1>1, <2>0, <3>1, <3>4 DEF Continues, Onward, Fresh
        <4>2. k \in active
          BY <1>0, <4>1 DEF Continues, RoleOk, Still
        <4>3. Tree(k) = Tree(j) => reg[Tree(j)].job = k
          <5>1. Tree(k) \in tree => reg[Tree(k)] = Row("in_use", k)
            BY <1>0, <4>1 DEF FollowerOk
          <5>2. Row("in_use", k).job = k
            BY DEF Row
          <5> QED BY <3>3, <5>1, <5>2
        <4> QED BY <3>3, <4>1, <4>2, <4>3
      <3>5. ASSUME NEW k \in WtJobs, Continues(k)'
            PROVE  Ended(Tree(k))' /\ (Tree(k) \in tree' => reg'[Tree(k)] = Row("in_use", k))
        <4>1. CASE k = j
          <5>1. Tree(j) \notin adopted
            BY <1>1, <3>1, <3>5, <4>1 DEF Continues
          <5> QED BY <1>0, <1>1, <3>1, <3>2, <4>1, <5>1
        <4>2. CASE k # j
          <5>1. Continues(k) /\ Tree(k) # Tree(j) /\ Tree(k) \in WtJobs
            BY <1>2, <3>4, <3>5, <4>2 DEF Continues
          <5>2. reg'[Tree(k)] = reg[Tree(k)]
            BY <1>0, <3>1, <5>1
          <5> QED BY <1>0, <1>1, <3>1, <5>1, <5>2 DEF FollowerOk
        <4> QED BY <4>1, <4>2
      <3>6. \A k \in WtJobs : FollowerOk(k)'
        BY <1>1, <3>5 DEF FollowerOk, Row
      <3> QED BY <1>0, <1>1, <3>4, <3>6 DEF OneFollows
    <2>2. CASE ~(Claim(j) /\ step'[j] = "working")
      <3>1. step'[j] = "working" => step[j] = "working" \/ j \in Fresh
        <4>1. Verdict(j) # "working"
          BY DEF Verdict
        <4>2. MarkRetained(j) => j \in Fresh
          BY <1>0 DEF MarkRetained, HandlerAt, RoleOk, Still
        <4> QED BY <1>0, <1>4, <2>2, <4>1, <4>2 DEF Handler, BeginCreate, CreateAgain, ReadKnown, ListTrees, ReconcileRegistry,
           Reserve, AddTree, AddFails, CheckTree, Attach, Write, EndAgent, RemoveOwn, RemoveOwnFails,
           MarkRemoved, Measure, MeasureFails, Release, JobEnds, HandlerAt, Goto, Enter, handlers
      <3>2. ASSUME NEW k \in WtJobs, Continues(k), Continues(k)', Tree(k) \in tree, Ended(Tree(k)),
                   reg[Tree(k)] = Row("in_use", k)
            PROVE  reg'[Tree(k)] = Row("in_use", k)
        <4>0. Tree(k) \in WtJobs /\ k \in active /\ reg[Tree(k)].status \in Active /\ reg[Tree(k)].job = k
          BY <1>0, <1>2, <3>2 DEF Continues, RoleOk, Still, Row, Active
        <4>1. Tree(k) # j
          BY <1>4, <3>2, HandlerFrame DEF Ended
        <4>2. CASE ReconcileRegistry(j)
          BY <3>2, <4>0, <4>2, Reconciles
        <4>3. CASE Claim(j) /\ Tree(k) = Tree(j)
          BY <1>0, <2>2, <3>2, <4>0, <4>3 DEF Claim, Usable, Goto
        <4>4. CASE Release(j) /\ Tree(k) = Tree(j)
          <5>1. k # j
            BY <1>0, <3>2, <4>4 DEF Release, HandlerAt, Continues
          <5> QED BY <3>2, <4>4, <5>1 DEF Release, Row
        <4> QED BY <1>4, <3>2, <4>0, <4>1, <4>2, <4>3, <4>4, OtherRows
      <3> QED BY <1>3, <2>0, <3>1, <3>2
    <2> QED BY <2>1, <2>2
  <1>5. CASE Landing
    <2>1. UNCHANGED <<setting, adopted, step>>
      BY <1>5, LandingFrame
    <2>2. ASSUME NEW k \in WtJobs, Continues(k), Tree(k) \in tree', Tree(k) \in tree, reg[Tree(k)] = Row("in_use", k)
          PROVE  reg'[Tree(k)] = Row("in_use", k)
      <3>0. Tree(k) \in WtJobs
        BY <1>2, <2>2 DEF Continues
      <3>1. CASE Tree(k) # land.path
        BY <1>5, <2>2, <3>0, <3>1, LandingFrame
      <3>2. CASE Tree(k) = land.path
        <4>1. reg[land.path].status = "in_use" /\ reg[land.path] # NoRow
          BY <2>2, <3>2 DEF Row, NoRow
        <4>2. ~DrainRemove
          BY <2>2, <3>2 DEF DrainRemove
        <4> QED BY <1>5, <2>2, <3>2, <4>1, <4>2 DEF Landing, LandBegin, DrainBegin, LandCollect, LandEnqueue,
               DrainCheck, DrainFinish, InUse
      <3> QED BY <3>1, <3>2
    <2> QED BY <1>3, <2>1, <2>2
  <1>6. CASE Collector
    <2>1. UNCHANGED <<setting, adopted, step>>
      BY <1>6, CollectorFrame
    <2> QED BY <1>2, <1>3, <1>6, <2>1, CollectorFrame DEF Continues
  <1>7. CASE Outside
    <2>1. \A k \in WtJobs : step'[k] = "working" => step[k] = "working"
      BY <1>0, <1>7 DEF Outside, Stop, Start, RecoverClaims, Dirty, RecoverJob, Edit, Commit, handlers
    <2>2. ASSUME NEW k \in WtJobs, Continues(k), reg[Tree(k)] = Row("in_use", k)
          PROVE  reg'[Tree(k)] = Row("in_use", k)
      <3>1. CASE RecoverClaims
        <4>1. k \in active /\ Tree(k) \in WtJobs /\ reg[Tree(k)].job = k
          BY <1>0, <1>2, <2>2 DEF Continues, RoleOk, Still, Row
        <4> QED BY <1>0, <2>2, <3>1, <4>1 DEF RecoverClaims
      <3>2. CASE ~RecoverClaims
        BY <1>7, <2>2, <3>2 DEF Outside, Stop, Start, Dirty, RecoverJob, Edit, Commit
      <3> QED BY <3>1, <3>2
    <2> QED BY <1>3, <2>1, <2>2
  <1> QED BY <1>4, <1>5, <1>6, <1>7 DEF WtNext


-----------------------------------------------------------------------------
LEMMA RemovalsKept ==
    ASSUME WtInv, WtTyped', Onward, WtNext
    PROVE  \A p \in WtJobs : RemovalOk(p)'
  <1> USE TypeFacts
  <1>0. WtTyped /\ LandingOk /\ \A p \in WtJobs : RemovalOk(p)
    BY DEF WtInv
  <1>1. ASSUME UNCHANGED <<removal, integrated>> PROVE \A p \in WtJobs : RemovalOk(p)'
    BY <1>0, <1>1 DEF RemovalOk, Onward
  <1>2. CASE (\E j \in WtJobs : Handler(j)) \/ Collector \/ Outside
    <2>1. UNCHANGED <<removal, integrated>>
      BY <1>2, HandlerFrame, CollectorFrame DEF Outside, Stop, Start, RecoverClaims, Dirty, RecoverJob, Edit, Commit, disk
    <2> QED BY <1>1, <2>1
  <1>3. CASE (\E p \in WtJobs : LandBegin(p) \/ DrainBegin(p)) \/ DrainRemove
    BY <1>1, <1>3 DEF LandBegin, DrainBegin, DrainRemove, disk
  <1>4. CASE LandCollect
    <2>1. removal' = removal /\ \A p \in WtJobs : integrated[p] \subseteq integrated'[p]
      BY <1>0, <1>4 DEF LandCollect
    <2> QED BY <1>0, <2>1 DEF RemovalOk, Onward
  <1>5. CASE LandEnqueue
    <2>1. land.path \in WtJobs /\ Ended(land.path) /\ land.content \in integrated[land.path] /\ integrated' = integrated
      BY <1>0, <1>5 DEF LandEnqueue, LandingOk, LandAt, disk
    <2>2. removal' = removal \/ removal' = [removal EXCEPT ![land.path] = land.content]
      BY <1>5 DEF LandEnqueue
    <2> QED BY <1>0, <2>1, <2>2 DEF RemovalOk, Onward
  <1>6. CASE DrainCheck \/ DrainFinish
    <2>1. removal' = removal \/ removal' = [removal EXCEPT ![land.path] = Off]
      BY <1>6 DEF DrainCheck, DrainFinish
    <2>2. integrated' = integrated
      BY <1>6 DEF DrainCheck, DrainFinish, disk
    <2> QED BY <1>0, <2>1, <2>2 DEF RemovalOk, Onward
  <1> QED BY <1>2, <1>3, <1>4, <1>5, <1>6 DEF WtNext, Landing

(* A row that is not in use has no users, once its creator has ended.       *)
LEMMA FreeHasNoUsers ==
    ASSUME WtInv, NEW p \in WtJobs, Ended(p), p \in tree, ~InUse(p), p \notin adopted
    PROVE  Users(p) = {}
  <1> SUFFICES ASSUME NEW k \in WtJobs, step[k] = "working", Tree(k) = p PROVE FALSE
    BY DEF Users
  <1>1. k \notin Fresh
    BY DEF Tree, Ended
  <1>2. FollowerOk(k) /\ Continues(k)
    BY <1>1 DEF WtInv, Continues
  <1>3. Row("in_use", k).status = "in_use"
    BY DEF Row
  <1> QED BY <1>2, <1>3 DEF FollowerOk, InUse

LEMMA LandingKept ==
    ASSUME WtInv, WtTyped', Onward, WtNext
    PROVE  LandingOk'
  <1> USE TypeFacts
  <1>0. WtTyped /\ LandingOk /\ \A p \in WtJobs : RoleOk(p) /\ RemovalOk(p)
    BY DEF WtInv
  <1>1. \A k : Tree(k)' = Tree(k)
    BY DEF Onward, Tree, Fresh
  <1>2. ASSUME UNCHANGED <<land, integrated>>, LandAt("removing") => content'[land.path] \in {content[land.path], 0}
                 \/ land.path \in adopted',
               \A k \in WtJobs : step'[k] = "working" => step[k] = "working" \/ Tree(k) # land.path \/ LandAt("idle")
        PROVE  LandingOk'
    <2>1. land.step \in {"collected", "removing"} /\ land.path \notin adopted' => Users(land.path)' = {}
      <3>1. Users(land.path)' = {k \in WtJobs : step'[k] = "working" /\ Tree(k) = land.path}
        BY <1>1, <1>2 DEF Users
      <3> QED BY <1>0, <1>2, <3>1 DEF LandingOk, Users, LandAt, Onward
    <2>2. ~LandAt("idle") => land.path \in WtJobs /\ Ended(land.path)'
      BY <1>0, <1>2 DEF LandingOk, Onward
    <2> QED BY <1>0, <1>2, <2>1, <2>2 DEF LandingOk, LandAt, Onward
  <1>3. ASSUME NEW j \in WtJobs, Handler(j) PROVE LandingOk'
    <2>1. UNCHANGED <<land, integrated>> /\ \A k \in WtJobs : k # j => step'[k] = step[k]
      BY <1>3, HandlerFrame
    <2>2. ASSUME step'[j] = "working", step[j] # "working" PROVE Tree(j) # land.path \/ LandAt("idle")
      <3>1. MarkRetained(j) \/ (Claim(j) /\ Usable(Tree(j)))
        <4>1. Verdict(j) # "working"
          BY DEF Verdict
        <4> QED BY <1>0, <1>3, <2>2, <4>1 DEF Handler, BeginCreate, CreateAgain, ReadKnown, ListTrees, ReconcileRegistry,
           Reserve, AddTree, AddFails, CheckTree, Attach, Claim, Write, EndAgent, RemoveOwn, RemoveOwnFails,
           MarkRemoved, Measure, MeasureFails, Release, JobEnds, HandlerAt, Goto, Enter, handlers
      <3>2. CASE MarkRetained(j)
        <4>1. Tree(j) = j
          BY <1>0, <3>2 DEF MarkRetained, HandlerAt, RoleOk, Still, Tree
        <4> QED BY <1>0, <1>3, <4>1, HandlerFrame DEF LandingOk
      <3> QED BY <3>1, <3>2 DEF Usable, LandAt
    <2>3. LandAt("removing") => content'[land.path] = content[land.path] \/ land.path \in adopted
      <3> SUFFICES ASSUME LandAt("removing"), land.path \notin adopted PROVE content'[land.path] = content[land.path]
        OBVIOUS
      <3>1. land.path \in WtJobs /\ Ended(land.path) /\ Users(land.path) = {} /\ land.path # j
        BY <1>0, <1>3, HandlerFrame DEF LandingOk, LandAt
      <3>2. ~(Write(j) /\ land.path = Tree(j))
        BY <3>1 DEF Write, HandlerAt, Users
      <3> QED BY <1>3, <3>1, <3>2, OtherRows
    <2> QED BY <1>2, <2>1, <2>2, <2>3 DEF Onward
  <1>4. CASE Collector
    <2>1. UNCHANGED <<land, integrated, step>> /\ \A p \in WtJobs : content'[p] = content[p] \/ content'[p] = 0
      BY <1>4, CollectorFrame
    <2>2. LandAt("removing") => land.path \in WtJobs
      BY <1>0 DEF LandingOk, LandAt
    <2> QED BY <1>2, <2>1, <2>2
  <1>5. CASE Outside
    <2>1. CASE Stop
      <3>1. \A k \in WtJobs : step'[k] # "working"
        BY <1>0, <2>1 DEF Stop
      <3>2. land' = land \/ land' = NoLanding
        BY <2>1 DEF Stop
      <3>3. UNCHANGED <<content, integrated>>
        BY <2>1 DEF Stop, disk
      <3>4. CASE land' = NoLanding
        BY <3>4 DEF LandingOk, LandAt, NoLanding
      <3> QED BY <1>2, <3>1, <3>2, <3>3, <3>4
    <2>2. CASE Start \/ RecoverClaims \/ Dirty \/ (\E j \in WtJobs : RecoverJob(j)) \/ \E kind \in {"commit", "hit"} : Commit(kind)
      <3>1. UNCHANGED <<land, integrated, step, content>>
        BY <2>2 DEF Start, RecoverClaims, Dirty, RecoverJob, Commit, disk, handlers
      <3> QED BY <1>2, <3>1
    <2>3. CASE \E j \in WtJobs : Edit(j)
      <3>1. UNCHANGED <<land, integrated, step>> /\ ~LandAt("removing")
        BY <2>3 DEF Edit, handlers, LandAt
      <3> QED BY <1>2, <3>1
    <2> QED BY <1>5, <2>1, <2>2, <2>3 DEF Outside
  <1>6. CASE Landing
    <2>0. UNCHANGED <<setting, adopted, step>>
      BY <1>6, LandingFrame
    <2>1. \A p : Users(p)' = Users(p)
      BY <1>1, <2>0 DEF Users
    <2>2. CASE LandCollect /\ land'.step = "collected"
      <3>1. /\ land.path \in WtJobs /\ Ended(land.path) /\ land' = [land EXCEPT !.step = "collected", !.content = content[land.path]]
            /\ ~InUse(land.path) /\ land.path \in tree
            /\ integrated' = [integrated EXCEPT ![land.path] = @ \cup {content[land.path]}]
        BY <1>0, <2>2 DEF LandCollect, LandAt, LandingOk, Unlock, NoLanding
      <3>2. land'.path = land.path /\ land'.content = content[land.path]
        BY <1>0, <3>1 DEF Lands
      <3>3. land.path \notin adopted => Users(land.path) = {}
        BY <3>1, FreeHasNoUsers
      <3>4. land'.content \in integrated'[land'.path]
        BY <1>0, <3>1, <3>2
      <3> QED BY <2>0, <2>1, <2>2, <3>1, <3>2, <3>3, <3>4 DEF LandingOk, LandAt, Ended
    <2>3. CASE DrainCheck /\ land'.step = "removing"
      <3>1. /\ land.path \in WtJobs /\ Ended(land.path) /\ land' = [land EXCEPT !.step = "removing"]
            /\ ~InUse(land.path) /\ land.path \in tree /\ content[land.path] = removal[land.path]
        BY <1>0, <2>3 DEF DrainCheck, LandAt, LandingOk, Unlock, NoLanding, SourceMatches, Lands
      <3>2. land'.path = land.path /\ UNCHANGED <<content, integrated>>
        BY <1>0, <2>3, <3>1 DEF Lands, DrainCheck, disk
      <3>3. land.path \notin adopted => Users(land.path) = {}
        BY <3>1, FreeHasNoUsers
      <3>4. content[land.path] \in integrated[land.path]
        BY <1>0, <3>1, WtAssumption DEF RemovalOk, Off
      <3> QED BY <2>0, <2>1, <2>3, <3>1, <3>2, <3>3, <3>4 DEF LandingOk, LandAt, Ended
    <2>4. CASE land'.step \notin {"collected", "removing"}
      <3>1. land'.step # "idle" => land'.path \in WtJobs /\ Ended(land'.path)
        <4>1. \A p \in WtJobs : LandBegin(p) => land'.path = p /\ Ended(p)
          BY DEF LandBegin, NoLanding, Ended
        <4>2. \A p \in WtJobs : DrainBegin(p) => land'.path = p /\ Ended(p)
          BY <1>0 DEF DrainBegin, NoLanding, RemovalOk
        <4>3. DrainCheck \/ DrainRemove \/ LandCollect \/ LandEnqueue \/ DrainFinish
              => land' = NoLanding \/ (land'.path = land.path /\ ~LandAt("idle"))
          BY <1>0 DEF DrainCheck, DrainRemove, LandCollect, LandEnqueue, DrainFinish, Unlock, LandAt, Lands
        <4>4. NoLanding.step = "idle"
          BY DEF NoLanding
        <4> QED BY <1>0, <1>6, <4>1, <4>2, <4>3, <4>4 DEF Landing, LandingOk
      <3> QED BY <2>0, <2>4, <3>1 DEF LandingOk, LandAt, Ended
    <2>5. \/ LandCollect /\ land'.step = "collected"
          \/ DrainCheck /\ land'.step = "removing"
          \/ land'.step \notin {"collected", "removing"}
      <3>1. NoLanding.step = "idle"
        BY DEF NoLanding
      <3>2. \A p \in WtJobs : LandBegin(p) \/ DrainBegin(p) => land'.step \in {"locked", "draining"}
        BY DEF LandBegin, DrainBegin, NoLanding
      <3>3. LandEnqueue \/ DrainFinish => land'.step = "idle"
        BY <3>1 DEF LandEnqueue, DrainFinish, Unlock
      <3>4. DrainRemove => land'.step = "removed"
        BY <1>0 DEF DrainRemove, Lands
      <3>5. LandCollect => land'.step \in {"idle", "collected"}
        BY <1>0, <3>1 DEF LandCollect, Unlock, Lands
      <3>6. DrainCheck => land'.step \in {"idle", "removing", "removed"}
        BY <1>0, <3>1 DEF DrainCheck, Unlock, Lands
      <3>7. CASE \E p \in WtJobs : LandBegin(p) \/ DrainBegin(p)
        BY <3>2, <3>7
      <3>8. CASE LandCollect \/ LandEnqueue \/ DrainCheck \/ DrainRemove \/ DrainFinish
        BY <3>3, <3>4, <3>5, <3>6, <3>8
      <3> QED BY <1>6, <3>7, <3>8 DEF Landing
    <2> QED BY <2>2, <2>3, <2>4, <2>5
  <1> QED BY <1>3, <1>4, <1>5, <1>6 DEF WtNext


-----------------------------------------------------------------------------
LEMMA CollectionKept ==
    ASSUME WtInv, WtTyped', Onward, WtNext
    PROVE  CollectionOk'
  <1> USE TypeFacts
  <1>0. WtTyped /\ CollectionOk /\ \A p \in WtJobs : RoleOk(p) /\ CreatorOk(p)
    BY DEF WtInv
  <1>1. ASSUME gc' = gc,
               gc.step = "removing" /\ ~gc.woken =>
                 /\ up' = up
                 /\ content'[gc.path] \in {content[gc.path], 0}
        PROVE  CollectionOk'
    <2>1. gc.stale \cup gc.todo \subseteq WtJobs
      BY <1>0 DEF Collections
    <2> QED BY <1>0, <1>1, <2>1 DEF CollectionOk, Onward, Ended
  <1>2. ASSUME NEW j \in WtJobs, Handler(j) PROVE CollectionOk'
    <2>1. gc' = gc /\ up /\ up' = up
      BY <1>2, HandlerFrame
    <2>2. ~(gc.step = "removing" /\ ~gc.woken)
      BY <1>0, <2>1 DEF CollectionOk
    <2> QED BY <1>1, <2>1, <2>2
  <1>3. CASE Landing
    <2>1. UNCHANGED <<gc, up>>
      BY <1>3, LandingFrame
    <2>2. gc.step = "removing" => gc.path \in WtJobs
      BY <1>0 DEF CollectionOk
    <2>3. \A p \in WtJobs : content'[p] \in {content[p], 0}
      BY <1>0, <1>3 DEF Landing, LandBegin, DrainBegin, LandCollect, LandEnqueue, DrainCheck, DrainRemove, DrainFinish, disk
    <2> QED BY <1>1, <2>1, <2>2, <2>3
  <1>4. CASE Outside
    <2>1. CASE Start
      <3>1. gc' = [gc EXCEPT !.woken = gc.step = "removing"]
        BY <2>1 DEF Start
      <3>2. /\ gc'.step = gc.step /\ gc'.path = gc.path /\ gc'.rows = gc.rows /\ gc'.todo = gc.todo /\ gc'.stale = gc.stale
            /\ (gc'.step = "removing" => gc'.woken)
        BY <1>0, <3>1 DEF Collections
      <3>3. gc.stale \cup gc.todo \subseteq WtJobs
        BY <1>0 DEF Collections
      <3> QED BY <1>0, <3>2, <3>3 DEF CollectionOk, Onward, Ended
    <2>2. CASE Stop
      <3>1. gc' = gc /\ (gc.step = "removing" => gc.woken) /\ content' = content
        BY <1>0, <2>2 DEF Stop, CollectionOk, disk
      <3> QED BY <1>1, <3>1
    <2>3. CASE RecoverClaims \/ Dirty \/ (\E j \in WtJobs : RecoverJob(j)) \/ \E kind \in {"commit", "hit"} : Commit(kind)
      BY <1>1, <2>3 DEF RecoverClaims, Dirty, RecoverJob, Commit, Elsewhere, fixed, disk
    <2>4. CASE \E j \in WtJobs : Edit(j)
      BY <1>1, <2>4 DEF Edit, Elsewhere, fixed
    <2> QED BY <1>4, <2>1, <2>2, <2>3, <2>4 DEF Outside
  <1>5. CASE Collector
    <2>0. UNCHANGED <<setting, step, up, active>>
      BY <1>5, CollectorFrame
    <2>1. \A p \in WtJobs : Ended(p)' <=> Ended(p)
      BY <2>0 DEF Ended
    <2>2. ~up => \A p \in WtJobs : Still(p)
      BY <1>0 DEF RoleOk
    <2>3. \A p \in tree : step[p] # "new"
      BY <1>0 DEF CreatorOk
    <2>4. tree' \subseteq tree
      BY <1>5 DEF Collector, GcInspect, GcDrained, GcClassify, GcRemove, GcMark, GcEnd, GcRecheck, GcStale, disk
    <2>5. CASE GcInspect
      <3>1. NoCollection.rows \in [WtJobs -> Rows] /\ NoCollection \in Collections
            /\ \A p \in WtJobs : NoCollection.rows[p] = NoRow
        BY DEF NoCollection, Collections, NoRow, Row, Rows, RowStatuses
      <3>2. gc'.step \notin {"removing", "removed"} /\ gc'.stale = {} /\ gc'.todo = {}
        BY <2>5 DEF GcInspect, NoCollection
      <3>3. gc'.rows = NoCollection.rows \/ (gc'.rows = reg /\ ~up)
        BY <2>5, <3>1 DEF GcInspect, ProjectActive, Collections
      <3>4. \A p \in WtJobs : gc'.rows[p] # NoRow => Ended(p)
        BY <1>0, <2>2, <3>1, <3>3 DEF CreatorOk, Still, Ended
      <3> QED BY <2>1, <3>2, <3>4 DEF CollectionOk
    <2>6. CASE GcDrained \/ GcEnd
      <3>1. gc'.rows = gc.rows /\ gc'.todo = gc.todo /\ gc'.stale = gc.stale /\ gc'.step = "off"
        BY <1>0, <2>6 DEF GcDrained, GcEnd, GcGoto, Collections
      <3>2. gc.stale \cup gc.todo \subseteq WtJobs
        BY <1>0 DEF Collections
      <3> QED BY <1>0, <2>0, <2>1, <2>4, <3>1, <3>2 DEF CollectionOk
    <2>7. CASE GcClassify
      <3>1. /\ gc'.step = "sweep" /\ gc'.rows = NoCollection.rows
            /\ gc'.todo = {p \in WtJobs : Removable(p)}
            /\ gc'.stale = {p \in WtJobs : gc.rows[p].status \in {"creating", "retained", "cleanup_failed"} /\ p \notin tree}
        BY <1>0, <2>7 DEF GcClassify, Collections
      <3>2. \A p \in WtJobs : NoCollection.rows[p] = NoRow
        BY DEF NoCollection
      <3>3. \A p \in gc'.stale : p \in WtJobs /\ p \notin tree /\ gc.rows[p] # NoRow
        BY <3>1 DEF NoRow, Row
      <3>4. \A p \in gc'.todo : p \in tree
        BY <3>1 DEF Removable
      <3> QED BY <1>0, <2>0, <2>1, <2>3, <2>4, <3>1, <3>2, <3>3, <3>4 DEF CollectionOk
    <2>8. ASSUME NEW p \in WtJobs, GcRecheck(p) PROVE CollectionOk'
      <3>0. gc.stale \cup gc.todo \subseteq WtJobs /\ p \in gc.todo /\ gc.step = "sweep"
            /\ UNCHANGED <<tree, content, reg>>
        BY <1>0, <2>8 DEF Collections, GcRecheck, disk
      <3>1. CASE MayGo(p)
        <4>1. /\ gc'.step = "removing" /\ gc'.path = p /\ gc'.rows = gc.rows /\ gc'.stale = gc.stale
              /\ gc'.todo \subseteq gc.todo
          BY <1>0, <2>8, <3>1 DEF GcRecheck, Collections
        <4>2. ~up /\ (setting.force \/ content[p] = 0)
          BY <3>1 DEF MayGo, ProjectActive
        <4>3. Ended(p)
          BY <1>0, <2>2, <3>0, <4>2 DEF CollectionOk, Still, Ended
        <4> QED BY <1>0, <2>0, <2>1, <3>0, <4>1, <4>2, <4>3 DEF CollectionOk
      <3>2. CASE ~MayGo(p)
        <4>1. /\ gc'.step = "sweep" /\ gc'.rows = gc.rows /\ gc'.stale = gc.stale /\ gc'.todo \subseteq gc.todo
          BY <1>0, <2>8, <3>0, <3>2 DEF GcRecheck, Collections
        <4> QED BY <1>0, <2>0, <2>1, <3>0, <4>1 DEF CollectionOk
      <3> QED BY <3>1, <3>2
    <2>9. CASE GcRemove
      <3>1. /\ gc.step = "removing" /\ gc'.step = "removed" /\ gc'.path = gc.path /\ gc'.rows = gc.rows
            /\ gc'.stale = gc.stale /\ gc'.todo = gc.todo /\ gc.path \notin tree'
        BY <1>0, <2>9 DEF GcRemove, GcGoto, Collections
      <3>2. gc.stale \cup gc.todo \subseteq WtJobs
        BY <1>0 DEF Collections
      <3> QED BY <1>0, <2>0, <2>1, <2>4, <3>1, <3>2 DEF CollectionOk
    <2>10. CASE GcMark \/ \E p \in WtJobs : GcStale(p)
      <3>1. gc'.step = "sweep" /\ gc'.rows = gc.rows /\ gc'.stale \subseteq gc.stale /\ gc'.todo = gc.todo
        BY <1>0, <2>10 DEF GcMark, GcStale, Collections
      <3>2. gc.stale \cup gc.todo \subseteq WtJobs
        BY <1>0 DEF Collections
      <3> QED BY <1>0, <2>0, <2>1, <2>4, <3>1, <3>2 DEF CollectionOk
    <2>11. CASE \E p \in WtJobs : GcRecheck(p)
      BY <2>8, <2>11
    <2> QED BY <1>5, <2>5, <2>6, <2>7, <2>9, <2>10, <2>11 DEF Collector
  <1> QED BY <1>2, <1>3, <1>4, <1>5 DEF WtNext

THEOREM WorktreeInvariant == WtSpec => []WtInv
  <1>1. WtInit => WtInv
    BY WtInitial
  <1>2. WtInv /\ [WtNext]_worktreevars => WtInv'
    <2> SUFFICES ASSUME WtInv, [WtNext]_worktreevars PROVE WtInv'
      OBVIOUS
    <2>1. CASE WtNext
      <3>1. WtTyped' /\ Onward
        BY <2>1, TypesKept
      <3> QED BY <2>1, <3>1, RolesKept, CreatorsKept, FollowersKept, RemovalsKept, LandingKept, CollectionKept DEF WtInv
    <2>2. CASE UNCHANGED worktreevars
      BY <2>2 DEF worktreevars, fixed, disk, handlers, seen, WtInv, WtTyped, WtTypeOK, OneFollows, Continues, LandingOk,
         CollectionOk, RoleOk, CreatorOk, FollowerOk, RemovalOk, Still, Ended, Fresh, Tree, Users, LandAt
    <2> QED BY <2>1, <2>2
  <1> QED BY <1>1, <1>2, PTL DEF WtSpec

(* ClaimsHold: whatever reconciliations, crashes, integrations, cleanups    *)
(* and collections do, a worktree has one user, whose claim stands in its   *)
(* row (claimRetainedWorktree, createWorktreeWhileLocked).                  *)
THEOREM ClaimsAlwaysHold == WtSpec => []ClaimsHold
  <1>1. WtInv => ClaimsHold
    <2> SUFFICES ASSUME WtInv PROVE ClaimsHold
      OBVIOUS
    <2> USE TypeFacts
    <2>0. /\ WtTyped /\ OneFollows /\ LandingOk
          /\ \A p \in WtJobs : RoleOk(p) /\ CreatorOk(p) /\ FollowerOk(p)
      BY DEF WtInv
    <2>1. OneUser
      <3> SUFFICES ASSUME NEW p \in WtJobs \ adopted PROVE Cardinality(Users(p)) <= 1
        BY DEF OneUser
      <3>1. ASSUME NEW k \in Users(p), NEW l \in Users(p) PROVE k = l
        <4>0. k \in WtJobs /\ l \in WtJobs /\ step[k] = "working" /\ step[l] = "working" /\ Tree(k) = p /\ Tree(l) = p
          BY <3>1 DEF Users
        <4>1. CASE k \in Fresh \/ l \in Fresh
          <5>1. step[p] = "working"
            BY <4>0, <4>1 DEF Tree
          <5>2. ~Ended(p)
            BY <5>1 DEF Ended
          <5>3. k \in Fresh /\ l \in Fresh
            BY <2>0, <4>0, <5>2 DEF FollowerOk, Continues
          <5> QED BY <4>0, <5>3 DEF Tree
        <4>2. CASE k \notin Fresh /\ l \notin Fresh
          BY <2>0, <4>0, <4>2 DEF OneFollows, Continues
        <4> QED BY <4>1, <4>2
      <3>2. CASE Users(p) = {}
        BY <3>2, FS_EmptySet
      <3>3. CASE Users(p) # {}
        <4>1. PICK k \in Users(p) : TRUE
          BY <3>3
        <4>2. Users(p) = {k}
          BY <3>1, <4>1
        <4>3. Cardinality({k}) = 1
          BY FS_Singleton
        <4> QED BY <4>2, <4>3
      <3> QED BY <3>2, <3>3
    <2>2. ClaimStands
      BY <2>0 DEF ClaimStands, FollowerOk, Continues
    <2>3. WorkingRegistered
      <3> SUFFICES ASSUME NEW j \in WtJobs, step[j] = "working", Tree(j) \in tree, j \in Fresh \/ Tree(j) \notin adopted
                   PROVE  reg[Tree(j)].status \in Active
        BY DEF WorkingRegistered
      <3>1. CASE j \in Fresh
        BY <2>0, <3>1 DEF CreatorOk, Tree
      <3>2. CASE j \notin Fresh
        <4>1. reg[Tree(j)] = Row("in_use", j)
          BY <2>0, <3>2 DEF FollowerOk, Continues
        <4> QED BY <4>1 DEF Row, Active
      <3> QED BY <3>1, <3>2
    <2>4. SourceSettled
      BY <2>0 DEF SourceSettled, LandingOk
    <2>5. BaseCurrent
      BY <2>0 DEF BaseCurrent, CreatorOk
    <2>6. WtTypeOK
      BY <2>0 DEF WtTyped
    <2> QED BY <2>1, <2>2, <2>3, <2>4, <2>5, <2>6 DEF ClaimsHold
  <1> QED BY <1>1, WorktreeInvariant, PTL

(* RemovalsSafe: no removal takes a worktree somebody works in, or work     *)
(* that is nowhere else (cleanupWorktree, removeIntegratedWorktreeSource,   *)
(* bridge-gc).                                                              *)
THEOREM RemovalsAreSafe == WtSpec => RemovalsSafe
  <1>1. WtInv /\ [WtNext]_worktreevars => NotPulledAway /\ WorkKept
    <2> SUFFICES ASSUME WtInv, [WtNext]_worktreevars, NEW p \in tree \ tree', p \notin adopted
                 PROVE  /\ Users(p) = {} \/ (CollectorTook(p) /\ gc.woken)
                        /\ \/ content[p] \in integrated[p] \cup {0}
                           \/ (CollectorTook(p) /\ (setting.force \/ gc.woken))
      BY DEF NotPulledAway, WorkKept
    <2> USE TypeFacts
    <2>0. /\ WtTyped /\ LandingOk /\ CollectionOk /\ p \in WtJobs
          /\ \A j \in WtJobs : RoleOk(j) /\ CreatorOk(j) /\ FollowerOk(j)
      BY DEF WtInv
    <2>1. CASE RemoveOwn(p)
      <3>1. step[p] \in {"redo", "discard", "empty"} /\ p \in Fresh
        BY <2>0, <2>1 DEF RemoveOwn, HandlerAt, RoleOk, Still
      <3>2. content[p] = 0
        BY <2>0, <3>1 DEF CreatorOk, Empty
      <3>3. \A k \in WtJobs : ~(step[k] = "working" /\ Tree(k) = p)
        <4>1. \A k \in WtJobs : k \in Fresh /\ Tree(k) = p => k = p
          BY DEF Tree
        <4> QED BY <2>0, <3>1, <4>1 DEF FollowerOk, Continues, Ended
      <3> QED BY <3>2, <3>3 DEF Users
    <2>2. CASE DrainRemove
      <3>1. LandAt("removing") /\ p = land.path
        BY <2>2 DEF DrainRemove
      <3> QED BY <2>0, <3>1 DEF LandingOk, LandAt
    <2>3. CASE GcRemove
      <3>1. CollectorTook(p)
        BY <2>3 DEF GcRemove, CollectorTook
      <3>2. CASE ~gc.woken
        <4>1. ~up /\ (setting.force \/ content[p] = 0)
          BY <2>0, <3>1, <3>2 DEF CollectorTook, CollectionOk
        <4>2. \A k \in WtJobs : Still(k)
          BY <2>0, <4>1 DEF RoleOk
        <4> QED BY <3>1, <4>1, <4>2 DEF Users, Still
      <3> QED BY <3>1, <3>2
    <2>4. RemoveOwn(p) \/ DrainRemove \/ GcRemove
      <3>1. ASSUME NEW j \in WtJobs, Handler(j) PROVE RemoveOwn(p)
        <4>1. j = p
          BY <2>0, <3>1, HandlerFrame
        <4> QED BY <3>1, <4>1 DEF Handler, BeginCreate, CreateAgain, ReadKnown, ListTrees, ReconcileRegistry, Reserve, AddTree,
               AddFails, CheckTree, MarkRetained, Attach, Claim, Write, EndAgent, RemoveOwnFails, MarkRemoved, Measure,
               MeasureFails, Release, JobEnds, disk
      <3>2. Landing => DrainRemove
        BY DEF Landing, LandBegin, DrainBegin, LandCollect, LandEnqueue, DrainCheck, DrainFinish, disk
      <3>3. Collector => GcRemove
        BY DEF Collector, GcInspect, GcDrained, GcClassify, GcMark, GcEnd, GcRecheck, GcStale, disk
      <3>4. ~Outside
        BY DEF Outside, Stop, Start, RecoverClaims, Dirty, RecoverJob, Edit, Commit, disk
      <3>5. ~UNCHANGED worktreevars
        BY DEF worktreevars, disk
      <3> QED BY <3>1, <3>2, <3>3, <3>4, <3>5 DEF WtNext
    <2> QED BY <2>1, <2>2, <2>3, <2>4
  <1> QED BY <1>1, WorktreeInvariant, PTL DEF WtSpec, RemovalsSafe
=============================================================================
