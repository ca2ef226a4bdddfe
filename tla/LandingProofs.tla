---------------------------- MODULE LandingProofs ----------------------------
(***************************************************************************)
(* Proofs about the landing of finished jobs (AutoIntegration), for any     *)
(* number of bridges and jobs and any scenario, and about the files of the  *)
(* unattended workers (QueueWorkers), for any workers and lines.            *)
(***************************************************************************)
EXTENDS AutoIntegration, QueueWorkers, TLAPS

HeadContents == Contents \cup {"edited"}
CopyContents == {"job", "edited", "gone"}
Records == [status : OpenRecords \cup FinalRecords, by : AiBridges \cup {NoBridge}, old : BOOLEAN]
Positions == {"idle", "claim", "renew", "pick", "check", "found", "preview", "apply", "prepare", "compare",
              "readHead", "move", "enqueue", "record"}
States == [checkout : [AiJobs -> Contents], head : [AiJobs -> HeadContents], commits : Nat]
Seen == {NoState} \cup States \cup UNION {[P -> Contents \X HeadContents \X CopyContents] : P \in SUBSET AiJobs}
Firsts == {NoState} \cup UNION {[P -> CopyContents] : P \in SUBSET AiJobs}
Turns == [pc : Positions, todo : SUBSET AiJobs, cur : SUBSET AiJobs, alone : SUBSET AiJobs,
          dropped : SUBSET AiJobs, later : SUBSET AiJobs, seen : Seen, old : Nat, first : Firsts,
          out : OpenRecords \cup FinalRecords]
Tasks == [status : {"none", "commit", "target", "retained"}, at : Seen]

AiTyped ==
    /\ course \in AiScenarios /\ finished \subseteq AiJobs /\ left \in [Happenings -> Nat]
    /\ life \in [AiBridges -> {"running", "silent", "dead", "gone"}]
    /\ record \in [AiJobs -> Records]
    /\ scheduled \in [AiBridges -> SUBSET finished]
    /\ pendingJobs \in [AiBridges -> SUBSET AiJobs] /\ waiting \in [AiBridges -> SUBSET AiJobs]
    /\ turn \in [AiBridges -> Turns]
    /\ checkout \in [AiJobs -> Contents] /\ head \in [AiJobs -> HeadContents] /\ commits \in Nat
    /\ copy \in [AiJobs -> CopyContents] /\ holder \in AiBridges \cup {NoBridge, Writer}
    /\ task \in [AiJobs -> Tasks] /\ landed \subseteq AiJobs /\ aged \subseteq AiJobs

(* A job is in one place of a bridge: it waits, is pending, or is in one of *)
(* the sets of the turn.                                                    *)
Apart(A, B) == \A j \in A : j \notin B
Placed(b, t) ==
    /\ pendingJobs[b] \cup waiting[b] \subseteq scheduled[b]
    /\ t.todo \cup t.cur \cup t.alone \cup t.dropped \cup t.later \subseteq scheduled[b]
    /\ Apart(waiting[b], pendingJobs[b])
    /\ Apart(t.todo \cup t.cur \cup t.alone \cup t.dropped \cup t.later, pendingJobs[b] \cup waiting[b])
    /\ Apart(t.todo, t.cur \cup t.alone \cup t.dropped \cup t.later)
    /\ Apart(t.cur, t.alone \cup t.dropped \cup t.later)
    /\ Apart(t.alone, t.dropped \cup t.later) /\ Apart(t.dropped, t.later)

(* What a bridge has at each position of its turn.                          *)
Staged(t) ==
    /\ t.pc = "check" => \A i, j \in t.cur : i = j
    /\ t.pc \notin {"found", "record", "enqueue"} => t.out = "none"
    /\ t.pc = "found" => t.out = "already_committed" /\ t.cur \subseteq landed
    /\ t.pc = "record" => t.out \in FinalRecords \cup {"waiting_for_lock"}
    /\ t.pc = "enqueue" => t.out \in {"committed", "applied_not_committed"}
    /\ t.out \in {"committed", "already_committed"} => t.cur \subseteq landed
    /\ t.pc \in {"apply", "prepare", "compare", "readHead", "move", "enqueue"} => t.cur \subseteq course.creates
    /\ t.pc \in {"prepare", "compare", "readHead", "move", "enqueue"} =>
         t.seen \in States /\ \A p \in t.cur : t.seen.checkout[p] = "job"
    /\ t.pc = "compare" => \A p \in t.cur : t.first[p] \in {"job", "edited"}
    /\ t.pc \in {"readHead", "move"} => \A p \in t.cur : t.first[p] = "job"
    /\ t.pc = "move" =>
         /\ t.old <= commits
         /\ t.old = commits => \A p \in t.cur : head[p] \in {t.seen.head[p], "absent"}

(* Who has claimed the jobs that a bridge works on.                         *)
ClaimKept(b, t) ==
    \A j \in t.cur :
        /\ record[j].by # NoBridge
        /\ record[j].by = b => record[j].status = "integrating"
        /\ record[j].by # b => j \in aged

ClaimsSound ==
    \A j \in AiJobs :
        /\ record[j].old => j \in aged
        /\ record[j].status = "none" => record[j].by = NoBridge
        /\ record[j].status \in {"committed", "already_committed"} => j \in landed

TargetSound ==
    \A j \in AiJobs :
        /\ head[j] = "job" => j \in landed
        /\ task[j].status = "commit" => j \in landed
        /\ task[j].status = "target" => task[j].at \in States /\ task[j].at.checkout[j] = "job"

Turning ==
    \A b \in AiBridges :
        /\ Placed(b, turn[b]) /\ Staged(turn[b]) /\ ClaimKept(b, turn[b])
        /\ ~Alive(b) => turn[b].cur = {}

AiInv == AiTyped /\ ClaimsSound /\ TargetSound /\ Turning

-----------------------------------------------------------------------------
LEMMA AtRestTyped == AtRestTurn \in Turns /\ NoState \in Seen
  BY DEF AtRestTurn, Turns, Positions, Seen, Firsts, OpenRecords

LEMMA AutoInitInv == AutoInit => AiInv
  <1> SUFFICES ASSUME NEW scenario \in AiScenarios, AutoStart(scenario) PROVE AiInv
    BY DEF AutoInit
  <1>1. scenario.events \in [Happenings -> Nat]
    BY AiAssumption
  <1>2. AiTyped
    BY <1>1, AtRestTyped DEF AutoStart, AiTyped, Records, OpenRecords, Contents, HeadContents, CopyContents, Tasks
  <1>3. ClaimsSound /\ TargetSound
    BY DEF AutoStart, ClaimsSound, TargetSound
  <1>4. Turning
    BY DEF AutoStart, Turning, AtRestTurn, Placed, Apart, Staged, ClaimKept
  <1> QED BY <1>2, <1>3, <1>4 DEF AiInv

-----------------------------------------------------------------------------
LEMMA TurnSet ==
    ASSUME AiTyped, NEW b \in AiBridges, NEW t \in Turns, Turned(b, t)
    PROVE  turn' \in [AiBridges -> Turns] /\ turn'[b] = t /\ \A c \in AiBridges \ {b} : turn'[c] = turn[c]
  BY DEF AiTyped, Turned

LEMMA EvidenceSeen == ASSUME AiTyped, NEW P \in SUBSET AiJobs PROVE Evidence(P) \in Seen
  <1>1. Evidence(P) \in [P -> Contents \X HeadContents \X CopyContents]
    BY DEF Evidence, AiTyped
  <1> QED BY <1>1 DEF Seen

LEMMA CopyFirst ==
    ASSUME AiTyped, NEW P \in SUBSET AiJobs
    PROVE  [p \in P |-> copy[p]] \in Firsts
  <1>1. [p \in P |-> copy[p]] \in [P -> CopyContents]
    BY DEF AiTyped
  <1> QED BY <1>1 DEF Firsts

LEMMA StatesSeen == States \subseteq Seen
  BY DEF Seen

(* A claim by one bridge leaves the others with their jobs, or with jobs    *)
(* whose claim has been half an hour old.                                   *)
LEMMA ClaimStep ==
    ASSUME AiInv, NEW b \in AiBridges, NEW j \in AiJobs, Claimed(b, j), UNCHANGED <<aged, landed>>
    PROVE  /\ record' \in [AiJobs -> Records] /\ ClaimsSound'
           /\ MayClaim(b, j) => record'[j] = [status |-> "integrating", by |-> b, old |-> FALSE]
           /\ \A i \in AiJobs \ {j} : record'[i] = record[i]
           /\ ~MayClaim(b, j) => record' = record
           /\ \A c \in AiBridges \ {b} : \A i \in turn[c].cur :
                record'[i] = record[i] \/ (record'[i].by = b /\ i \in aged)
  <1>0. record \in [AiJobs -> Records] /\ b # NoBridge
    BY AiAssumption DEF AiInv, AiTyped, NoBridge
  <1>1. [status |-> "integrating", by |-> b, old |-> FALSE] \in Records
    BY DEF Records, OpenRecords
  <1>2. record' \in [AiJobs -> Records]
    BY <1>0, <1>1 DEF Claimed
  <1>3. /\ MayClaim(b, j) => record'[j] = [status |-> "integrating", by |-> b, old |-> FALSE]
        /\ \A i \in AiJobs \ {j} : record'[i] = record[i]
        /\ ~MayClaim(b, j) => record' = record
    BY <1>0 DEF Claimed
  <1>4. ClaimsSound'
    <2> SUFFICES ASSUME NEW i \in AiJobs
                 PROVE /\ record'[i].old => i \in aged
                       /\ record'[i].status = "none" => record'[i].by = NoBridge
                       /\ record'[i].status \in {"committed", "already_committed"} => i \in landed
      BY DEF ClaimsSound
    <2>1. CASE record'[i] = record[i]
      BY <2>1 DEF AiInv, ClaimsSound
    <2>2. CASE i = j /\ MayClaim(b, j)
      BY <1>3, <2>2
    <2> QED BY <1>3, <2>1, <2>2
  <1>5. ASSUME NEW c \in AiBridges \ {b}, NEW i \in turn[c].cur
        PROVE  record'[i] = record[i] \/ (record'[i].by = b /\ i \in aged)
    <2>0. i \in AiJobs /\ Alive(c)
      BY DEF AiInv, AiTyped, Turns, Turning
    <2>1. CASE i # j \/ ~MayClaim(b, j)
      BY <1>3, <2>0, <2>1
    <2>2. CASE i = j /\ MayClaim(b, j)
      <3>1. record'[i].by = b
        BY <1>3, <2>2
      <3>2. record[i].by # NoBridge /\ (record[i].by # c => i \in aged)
        BY DEF AiInv, Turning, ClaimKept
      <3>3. record[i].status # "none" /\ (record[i].old => i \in aged)
        BY <2>0, <3>2 DEF AiInv, ClaimsSound
      <3>4. record[i].by = c => ~ClaimerGone(record[i].by)
        BY <2>0 DEF ClaimerGone, Alive
      <3> QED BY <2>2, <3>1, <3>2, <3>3, <3>4 DEF MayClaim
    <2> QED BY <2>1, <2>2
  <1> QED BY <1>2, <1>3, <1>4, <1>5

(* What a step may do to a turn it does not touch.                          *)
LEMMA OtherTurn ==
    ASSUME AiInv, NEW c \in AiBridges, turn'[c] = turn[c],
           course' = course, landed \subseteq landed', aged \subseteq aged',
           (commits' = commits /\ head' = head) \/ commits' = commits + 1,
           \A j \in turn[c].cur :
              \/ record'[j].by = record[j].by /\ record'[j].status = record[j].status
              \/ record'[j].by \notin {NoBridge, c} /\ j \in aged',
           Alive(c) => Alive(c)'
    PROVE  /\ Staged(turn[c])' /\ ClaimKept(c, turn[c])'
           /\ ~Alive(c)' => turn'[c].cur = {}
  <1> DEFINE t == turn[c]
  <1>1. Placed(c, t) /\ Staged(t) /\ ClaimKept(c, t) /\ (~Alive(c) => t.cur = {})
    BY DEF AiInv, Turning
  <1>2. t \in Turns /\ commits \in Nat
    BY DEF AiInv, AiTyped
  <1>4. Staged(t)'
    <2>1. t.pc = "move" => /\ t.old <= commits'
                           /\ t.old = commits' => \A p \in t.cur : head'[p] \in {t.seen.head[p], "absent"}
      BY <1>1, <1>2 DEF Staged, Turns
    <2> HIDE DEF t
    <2> QED BY <1>1, <2>1 DEF Staged, t
  <1>5. ClaimKept(c, t)'
    BY <1>1 DEF ClaimKept
  <1> QED BY <1>1, <1>4, <1>5

LEMMA SamePlace ==
    ASSUME AiInv, NEW c \in AiBridges, turn'[c] = turn[c],
           scheduled'[c] = scheduled[c], pendingJobs'[c] = pendingJobs[c], waiting'[c] = waiting[c]
    PROVE  Placed(c, turn[c])'
  BY DEF AiInv, Turning, Placed

(* The types, action by action.                                             *)
LEMMA SchedulesTyped ==
    ASSUME AiTyped, NEW b \in AiBridges, NEW j \in AiJobs,
           FinishJob(b, j) \/ TimerFires(b, j) \/ RescheduleOpen(b), waiting[b] \subseteq scheduled[b]
    PROVE  AiTyped'
  <1>1. CASE FinishJob(b, j)
    BY <1>1 DEF FinishJob, Schedule, target, AiTyped
  <1>2. CASE TimerFires(b, j)
    BY <1>2 DEF TimerFires, Schedule, target, environment, AiTyped
  <1>3. CASE RescheduleOpen(b)
    BY <1>3 DEF RescheduleOpen, OpenJobs, Schedule, target, environment, AiTyped
  <1> QED BY <1>1, <1>2, <1>3

LEMMA TurnEndsTyped ==
    ASSUME AiTyped, NEW b \in AiBridges, StartTurn(b) \/ EndTurn(b), pendingJobs[b] \subseteq scheduled[b]
    PROVE  AiTyped'
  <1>0. turn[b] \in Turns /\ pendingJobs[b] \in SUBSET AiJobs
    BY DEF AiTyped
  <1>1. CASE StartTurn(b)
    <2>1. /\ [AtRestTurn EXCEPT !.pc = "pick", !.alone = pendingJobs[b]] \in Turns
          /\ [AtRestTurn EXCEPT !.pc = "claim", !.todo = pendingJobs[b]] \in Turns
      BY <1>0, AtRestTyped DEF Turns, Positions
    <2>2. turn' \in [AiBridges -> Turns]
      BY <1>1, <2>1, TurnSet DEF StartTurn
    <2> QED BY <1>1, <2>2 DEF StartTurn, target, environment, AiTyped
  <1>2. CASE EndTurn(b)
    <2>1. turn' \in [AiBridges -> Turns]
      BY <1>2, AtRestTyped, TurnSet DEF EndTurn
    <2> QED BY <1>0, <1>2, <2>1 DEF EndTurn, Forgotten, target, environment, AiTyped, Turns
  <1> QED BY <1>1, <1>2

LEMMA ClaimsTyped ==
    ASSUME AiInv, NEW b \in AiBridges, ClaimMember(b) \/ RenewMember(b) \/ ClaimAlone(b)
    PROVE  AiTyped'
  <1>0. turn[b] \in Turns /\ AiTyped
    BY DEF AiInv, AiTyped
  <1>1. record' \in [AiJobs -> Records]
    <2>1. CASE UNCHANGED record
      BY <1>0, <2>1 DEF AiTyped
    <2>2. CASE \E j \in AiJobs : Claimed(b, j)
      BY <2>2, ClaimStep DEF ClaimMember, RenewMember, ClaimAlone, environment, target
    <2> QED BY <1>0, <2>1, <2>2 DEF ClaimMember, RenewMember, ClaimAlone, Turns
  <1>2. ASSUME NEW j \in AiJobs
        PROVE  /\ [[turn[b] EXCEPT !.todo = @ \ {j}] EXCEPT !.dropped = @ \cup {j}] \in Turns
               /\ [[turn[b] EXCEPT !.todo = @ \ {j}] EXCEPT !.alone = @ \cup {j}] \in Turns
               /\ [[turn[b] EXCEPT !.todo = @ \ {j}] EXCEPT !.cur = @ \cup {j}] \in Turns
               /\ [turn[b] EXCEPT !.todo = @ \ {j}, !.cur = @ \cup {j}] \in Turns
               /\ [turn[b] EXCEPT !.todo = @ \ {j}, !.dropped = @ \cup {j}] \in Turns
               /\ [[turn[b] EXCEPT !.alone = @ \ {j}] EXCEPT !.pc = "check", !.cur = {j}] \in Turns
               /\ [[turn[b] EXCEPT !.alone = @ \ {j}] EXCEPT !.dropped = @ \cup {j}] \in Turns
    BY <1>0 DEF Turns, Positions
  <1>3. /\ [turn[b] EXCEPT !.pc = "renew", !.todo = turn[b].cur, !.cur = {}] \in Turns
        /\ [turn[b] EXCEPT !.pc = "pick", !.alone = @ \cup turn[b].cur, !.cur = {}] \in Turns
        /\ [turn[b] EXCEPT !.pc = "preview"] \in Turns
    BY <1>0 DEF Turns, Positions
  <1>4. \E t \in Turns : Turned(b, t)
    <2>0. turn[b].todo \subseteq AiJobs /\ turn[b].alone \subseteq AiJobs
      BY <1>0 DEF Turns
    <2>1. CASE ClaimMember(b)
      <3>1. CASE \E j \in turn[b].todo :
                   \/ Turned(b, [[turn[b] EXCEPT !.todo = @ \ {j}] EXCEPT !.dropped = @ \cup {j}])
                   \/ Turned(b, [[turn[b] EXCEPT !.todo = @ \ {j}] EXCEPT !.alone = @ \cup {j}])
                   \/ Turned(b, [[turn[b] EXCEPT !.todo = @ \ {j}] EXCEPT !.cur = @ \cup {j}])
        BY <1>2, <2>0, <3>1
      <3> QED BY <1>3, <2>1, <3>1 DEF ClaimMember
    <2>2. CASE RenewMember(b)
      <3>1. CASE \E j \in turn[b].todo :
                   \/ Turned(b, [turn[b] EXCEPT !.todo = @ \ {j}, !.cur = @ \cup {j}])
                   \/ Turned(b, [turn[b] EXCEPT !.todo = @ \ {j}, !.dropped = @ \cup {j}])
        BY <1>2, <2>0, <3>1
      <3> QED BY <1>3, <2>2, <3>1 DEF RenewMember
    <2>3. CASE ClaimAlone(b)
      <3>1. PICK j \in turn[b].alone :
              \/ Turned(b, [[turn[b] EXCEPT !.alone = @ \ {j}] EXCEPT !.pc = "check", !.cur = {j}])
              \/ Turned(b, [[turn[b] EXCEPT !.alone = @ \ {j}] EXCEPT !.dropped = @ \cup {j}])
        BY <2>3 DEF ClaimAlone
      <3> QED BY <1>2, <2>0, <3>1
    <2> QED BY <2>1, <2>2, <2>3
  <1>5. turn' \in [AiBridges -> Turns]
    BY <1>0, <1>4, TurnSet
  <1> QED BY <1>0, <1>1, <1>5 DEF ClaimMember, RenewMember, ClaimAlone, environment, target, AiTyped

LEMMA EndsTyped ==
    ASSUME AiTyped, NEW b \in AiBridges, NEW out \in OpenRecords \cup FinalRecords,
           FallBack(b) \/ Ends(b, out) \/ CannotLand(b) \/ Fails(b)
    PROVE  \E t \in Turns : Turned(b, t)
  <1>0. turn[b] \in Turns
    BY DEF AiTyped
  <1>1. /\ [turn[b] EXCEPT !.pc = "pick", !.alone = @ \cup turn[b].cur, !.cur = {}] \in Turns
        /\ [turn[b] EXCEPT !.pc = "preview"] \in Turns
        /\ \A o \in OpenRecords \cup FinalRecords : [turn[b] EXCEPT !.pc = "record", !.out = o] \in Turns
    BY <1>0 DEF Turns, Positions
  <1>2. {"failed", "waiting_for_lock"} \subseteq OpenRecords \cup FinalRecords
    BY DEF OpenRecords, FinalRecords
  <1> QED BY <1>1, <1>2 DEF FallBack, Ends, CannotLand, Fails

LEMMA EngineTyped ==
    ASSUME AiInv, NEW b \in AiBridges, CheckHead(b) \/ SettleFound(b) \/ Preview(b) \/ Apply(b) \/ Prepare(b)
    PROVE  AiTyped'
  <1>0. turn[b] \in Turns /\ AiTyped
    BY DEF AiInv, AiTyped
  <1>1. CASE CheckHead(b)
    <2>1. \A found \in BOOLEAN :
            [turn[b] EXCEPT !.pc = IF found THEN "found" ELSE "preview",
                            !.out = IF found THEN "already_committed" ELSE "none"] \in Turns
      BY <1>0 DEF Turns, Positions, OpenRecords, FinalRecords
    <2>2. \E t \in Turns : Turned(b, t)
      BY <1>1, <2>1 DEF CheckHead
    <2> QED BY <1>0, <1>1, <2>2, TurnSet DEF CheckHead, environment, target, AiTyped
  <1>2. CASE SettleFound(b)
    <2>1. [turn[b] EXCEPT !.pc = "record"] \in Turns
      BY <1>0 DEF Turns, Positions
    <2> QED BY <1>0, <1>2, <2>1, TurnSet DEF SettleFound, Removed, environment, target, AiTyped, CopyContents
  <1>3. CASE Preview(b)
    <2>1. \E t \in Turns : Turned(b, t)
      <3>1. {"failed", "skipped_not_new_files"} \subseteq OpenRecords \cup FinalRecords
        BY DEF FinalRecords
      <3>2. turn[b].cur \in SUBSET AiJobs
        BY <1>0 DEF Turns
      <3>3. [turn[b] EXCEPT !.pc = "apply", !.seen = Evidence(turn[b].cur)] \in Turns
        BY <1>0, <3>2, EvidenceSeen DEF Turns, Positions
      <3>4. \A leave : [turn[b] EXCEPT !.cur = @ \ leave, !.alone = @ \cup (leave \cap turn[b].cur)] \in Turns
        BY <1>0 DEF Turns
      <3> DEFINE P == turn[b].cur
                 changed == {p \in P : copy[p] # "job"}
                 leave == IF changed # {} THEN changed ELSE NotNew(P)
      <3>5. leave \cap P = leave
        BY DEF NotNew
      <3>6. [turn[b] EXCEPT !.cur = @ \ leave, !.alone = @ \cup leave] \in Turns
        BY <3>4, <3>5
      <3> HIDE DEF leave
      <3>7. \/ CannotLand(b) \/ Fails(b) \/ FallBack(b) \/ Ends(b, "failed") \/ Ends(b, "skipped_not_new_files")
            \/ Turned(b, [turn[b] EXCEPT !.pc = "apply", !.seen = Evidence(turn[b].cur)])
            \/ Turned(b, [turn[b] EXCEPT !.cur = @ \ leave, !.alone = @ \cup leave])
        BY <1>3 DEF Preview, leave
      <3> QED BY <1>0, <3>1, <3>3, <3>6, <3>7, EndsTyped
    <2> QED BY <1>0, <1>3, <2>1, TurnSet DEF Preview, environment, target, AiTyped
  <1>4. CASE Apply(b)
    <2>1. CASE UNCHANGED <<checkout, holder>> /\ (CannotLand(b) \/ Fails(b))
      <3>1. \E t \in Turns : Turned(b, t)
        BY <1>0, <2>1, EndsTyped DEF OpenRecords
      <3> QED BY <1>0, <1>4, <2>1, <3>1, TurnSet DEF Apply, environment, target, AiTyped
    <2>2. CASE /\ checkout' = [p \in AiJobs |-> IF p \in turn[b].cur THEN "job" ELSE checkout[p]]
               /\ holder' = b
               /\ Turned(b, [turn[b] EXCEPT !.pc = "prepare", !.seen = [State EXCEPT !.checkout = checkout']])
      <3>1. checkout' \in [AiJobs -> Contents]
        BY <1>0, <2>2 DEF AiTyped, Contents
      <3>2. [State EXCEPT !.checkout = checkout'] \in States
        BY <1>0, <3>1 DEF AiTyped, State, States
      <3>3. [turn[b] EXCEPT !.pc = "prepare", !.seen = [State EXCEPT !.checkout = checkout']] \in Turns
        BY <1>0, <3>2, StatesSeen DEF Turns, Positions
      <3> QED BY <1>0, <1>4, <2>2, <3>1, <3>3, TurnSet DEF Apply, environment, AiTyped
    <2> QED BY <1>4, <2>1, <2>2 DEF Apply
  <1>5. CASE Prepare(b)
    <2>1. [turn[b] EXCEPT !.pc = "compare", !.first = [p \in turn[b].cur |-> copy[p]]] \in Turns
      BY <1>0, CopyFirst DEF Turns, Positions
    <2>2. NotCommitted(b) \in Turns
      BY <1>0 DEF NotCommitted, Turns, Positions, FinalRecords
    <2>3. \E t \in Turns : Turned(b, t)
      BY <1>5, <2>1, <2>2 DEF Prepare
    <2> QED BY <1>0, <1>5, <2>3, TurnSet DEF Prepare, environment, target, AiTyped
  <1> QED BY <1>1, <1>2, <1>3, <1>4, <1>5

LEMMA CommitTyped ==
    ASSUME AiInv, NEW b \in AiBridges,
           Compare(b) \/ ReadHead(b) \/ MoveHead(b) \/ StoreCleanup(b) \/ RecordOutcome(b)
    PROVE  AiTyped'
  <1>0. turn[b] \in Turns /\ AiTyped /\ Staged(turn[b])
    BY DEF AiInv, AiTyped, Turning
  <1>n. NotCommitted(b) \in Turns
    BY <1>0 DEF NotCommitted, Turns, Positions, FinalRecords
  <1>1. CASE Compare(b)
    <2>1. [turn[b] EXCEPT !.pc = "readHead"] \in Turns
      BY <1>0 DEF Turns, Positions
    <2>2. \E t \in Turns : Turned(b, t)
      BY <1>1, <1>n, <2>1 DEF Compare
    <2> QED BY <1>0, <1>1, <2>2, TurnSet DEF Compare, environment, target, AiTyped
  <1>2. CASE ReadHead(b)
    <2>1. turn[b].seen \in States
      BY <1>0, <1>2 DEF ReadHead, Staged
    <2>2. [turn[b].seen EXCEPT !.head = head] \in States
      BY <1>0, <2>1 DEF States, AiTyped
    <2>3. [turn[b] EXCEPT !.pc = "move", !.old = commits, !.seen = [turn[b].seen EXCEPT !.head = head]] \in Turns
      BY <1>0, <2>2, StatesSeen DEF Turns, Positions, AiTyped
    <2>4. [turn[b] EXCEPT !.pc = "move", !.old = commits, !.seen.head = head]
            = [turn[b] EXCEPT !.pc = "move", !.old = commits, !.seen = [turn[b].seen EXCEPT !.head = head]]
      BY <1>0 DEF Turns
    <2>5. \E t \in Turns : Turned(b, t)
      BY <1>2, <2>3, <2>4 DEF ReadHead
    <2> QED BY <1>0, <1>2, <2>5, TurnSet DEF ReadHead, environment, target, AiTyped
  <1>3. CASE MoveHead(b)
    <2>1. /\ [turn[b] EXCEPT !.pc = "enqueue", !.out = "committed"] \in Turns
          /\ [turn[b] EXCEPT !.old = commits] \in Turns
      BY <1>0 DEF Turns, Positions, FinalRecords, AiTyped
    <2>2. \E t \in Turns : Turned(b, t)
      BY <1>3, <1>n, <2>1 DEF MoveHead
    <2>3. /\ head' \in [AiJobs -> HeadContents] /\ commits' \in Nat /\ landed' \subseteq AiJobs
      <3>1. CASE UNCHANGED <<head, commits, landed>>
        BY <1>0, <3>1 DEF AiTyped
      <3>2. CASE commits = turn[b].old
        <4>1. \A p \in turn[b].cur : turn[b].first[p] = "job"
          BY <1>0, <1>3 DEF MoveHead, Staged
        <4>2. turn[b].cur \subseteq AiJobs
          BY <1>0 DEF Turns
        <4> QED BY <1>0, <1>3, <3>2, <4>1, <4>2 DEF MoveHead, AiTyped, HeadContents, Contents
      <3> QED BY <1>3, <3>1, <3>2 DEF MoveHead
    <2> QED BY <1>0, <1>3, <2>2, <2>3, TurnSet DEF MoveHead, environment, AiTyped
  <1>4. CASE StoreCleanup(b)
    <2>1. [turn[b] EXCEPT !.pc = "record"] \in Turns
      BY <1>0 DEF Turns, Positions
    <2>2. turn[b].seen \in Seen
      BY <1>0 DEF Turns
    <2>3. ASSUME NEW p \in AiJobs PROVE CleanupOf(b, p) \in Tasks
      BY <1>0, <2>2, AtRestTyped DEF CleanupOf, Tasks, AiTyped
    <2>4. task' \in [AiJobs -> Tasks]
      BY <1>0, <1>4, <2>3 DEF StoreCleanup, AiTyped
    <2> QED BY <1>0, <1>4, <2>1, <2>4, TurnSet DEF StoreCleanup, environment, target, AiTyped
  <1>5. CASE RecordOutcome(b)
    <2>1. ASSUME NEW j \in AiJobs
          PROVE  [turn[b] EXCEPT !.cur = @ \ {j},
                   !.later = IF turn[b].out = "waiting_for_lock" THEN @ \cup {j} ELSE @] \in Turns
      BY <1>0 DEF Turns
    <2>2. [turn[b] EXCEPT !.pc = "pick", !.out = "none", !.seen = NoState, !.first = NoState, !.old = 0] \in Turns
      BY <1>0, AtRestTyped DEF Turns, Positions, OpenRecords, Firsts
    <2>3. turn[b].cur \subseteq AiJobs /\ turn[b].out \in OpenRecords \cup FinalRecords
      BY <1>0 DEF Turns
    <2>4. \E t \in Turns : Turned(b, t)
      <3>1. CASE \E j \in turn[b].cur :
                   Turned(b, [turn[b] EXCEPT !.cur = @ \ {j},
                       !.later = IF turn[b].out = "waiting_for_lock" THEN @ \cup {j} ELSE @])
        BY <2>1, <2>3, <3>1
      <3> QED BY <1>5, <2>2, <3>1 DEF RecordOutcome
    <2>5. record' \in [AiJobs -> Records]
      <3>1. [status |-> turn[b].out, by |-> b, old |-> FALSE] \in Records
        BY <2>3 DEF Records
      <3> QED BY <1>0, <1>5, <2>3, <3>1 DEF RecordOutcome, AiTyped
    <2> QED BY <1>0, <1>5, <2>4, <2>5, TurnSet DEF RecordOutcome, environment, target, AiTyped
  <1> QED BY <1>1, <1>2, <1>3, <1>4, <1>5

LEMMA RemovalsTyped ==
    ASSUME AiTyped, NEW b \in AiBridges, NEW j \in AiJobs, SweepCommitted(b, j) \/ DrainCleanup(b, j)
    PROVE  AiTyped'
  <1>1. CASE SweepCommitted(b, j)
    BY <1>1 DEF SweepCommitted, Removed, environment, target, AiTyped, CopyContents
  <1>2. CASE DrainCleanup(b, j)
    <2>1. \A how \in {"none", "retained"} : [status |-> how, at |-> NoState] \in Tasks
      BY AtRestTyped DEF Tasks
    <2>2. task' \in [AiJobs -> Tasks]
      BY <1>2, <2>1 DEF DrainCleanup, AiTyped
    <2>3. copy' \in [AiJobs -> CopyContents]
      BY <1>2 DEF DrainCleanup, Removed, AiTyped, CopyContents
    <2> QED BY <1>2, <2>2, <2>3 DEF DrainCleanup, environment, target, AiTyped
  <1> QED BY <1>1, <1>2

AroundStep ==
    \/ LockMoves
    \/ \E b \in AiBridges : AiCrash(b) \/ InstanceLease(b)
    \/ \E j \in AiJobs : ClaimAges(j) \/ EditCopy(j) \/ WriteTarget(j)

LEMMA AroundTyped ==
    ASSUME AiTyped, AroundStep PROVE AiTyped'
  <1>1. left' \in [Happenings -> Nat]
    <2>1. CASE UNCHANGED left
      BY <2>1 DEF AiTyped
    <2>2. CASE \E kind \in Happenings : Happens(kind)
      BY <2>2 DEF Happens, AiTyped
    <2>3. {"crash", "lapse", "age", "lock", "edit", "write"} \subseteq Happenings
      BY DEF Happenings
    <2> QED BY <2>1, <2>2, <2>3 DEF AroundStep, AiCrash, InstanceLease, LockMoves, ClaimAges, EditCopy, WriteTarget
  <1>2. ASSUME NEW b \in AiBridges, AiCrash(b) PROVE AiTyped'
    BY <1>1, <1>2, AtRestTyped DEF AiCrash, target, AiTyped
  <1>3. ASSUME NEW b \in AiBridges, InstanceLease(b) PROVE AiTyped'
    BY <1>1, <1>3 DEF InstanceLease, target, AiTyped
  <1>4. CASE LockMoves
    BY <1>1, <1>4 DEF LockMoves, target, AiTyped
  <1>5. ASSUME NEW j \in AiJobs, ClaimAges(j) PROVE AiTyped'
    <2>1. record[j] \in Records
      BY DEF AiTyped
    <2>2. \A r \in Records : [r EXCEPT !.old = TRUE] \in Records
      BY DEF Records
    <2>3. [record[j] EXCEPT !.old = TRUE] \in Records
      BY <2>1, <2>2
    <2> QED BY <1>1, <1>5, <2>3 DEF ClaimAges, target, AiTyped
  <1>6. ASSUME NEW j \in AiJobs, EditCopy(j) PROVE AiTyped'
    BY <1>1, <1>6 DEF EditCopy, target, AiTyped, CopyContents
  <1>7. ASSUME NEW j \in AiJobs, WriteTarget(j) PROVE AiTyped'
    <2>1. checkout' \in [AiJobs -> Contents]
      BY <1>7 DEF WriteTarget, AiTyped, Contents
    <2>2. head' \in [AiJobs -> HeadContents] /\ commits' \in Nat /\ landed' \subseteq AiJobs
      BY <1>7 DEF WriteTarget, AiTyped, Contents, HeadContents
    <2> QED BY <1>1, <1>7, <2>1, <2>2 DEF WriteTarget, AiTyped
  <1> QED BY <1>2, <1>3, <1>4, <1>5, <1>6, <1>7 DEF AroundStep

-----------------------------------------------------------------------------
(* Each step keeps the claims, the target and the turns sound.              *)
Sound == ClaimsSound /\ TargetSound /\ Turning

LEMMA SchedulesSound ==
    ASSUME AiInv, NEW b \in AiBridges, NEW j \in AiJobs,
           FinishJob(b, j) \/ TimerFires(b, j) \/ RescheduleOpen(b)
    PROVE  Sound'
  <1>0. /\ UNCHANGED <<course, life, record, turn, target, copy, task, aged>>
        /\ \A c \in AiBridges \ {b} : /\ scheduled'[c] = scheduled[c] /\ pendingJobs'[c] = pendingJobs[c]
                                      /\ waiting'[c] = waiting[c]
    BY DEF FinishJob, TimerFires, RescheduleOpen, Schedule, environment, AiInv, AiTyped
  <1>1. ClaimsSound' /\ TargetSound'
    BY <1>0 DEF AiInv, ClaimsSound, TargetSound, target
  <1>2. ASSUME NEW c \in AiBridges
        PROVE  Staged(turn[c])' /\ ClaimKept(c, turn[c])' /\ (~Alive(c)' => turn'[c].cur = {})
    BY <1>0, OtherTurn DEF target, Alive
  <1>3. ASSUME NEW c \in AiBridges \ {b} PROVE Placed(c, turn[c])'
    BY <1>0, SamePlace
  <1>4. Placed(b, turn[b])'
    <2>0. Placed(b, turn[b]) /\ turn'[b] = turn[b] /\ scheduled[b] \subseteq finished
      BY <1>0 DEF AiInv, Turning, AiTyped
    <2>1. CASE FinishJob(b, j)
      <3>1. /\ scheduled'[b] = scheduled[b] \cup {j} /\ pendingJobs'[b] = pendingJobs[b] \cup {j}
            /\ waiting'[b] = waiting[b] /\ j \notin scheduled[b]
        BY <2>0, <2>1 DEF FinishJob, Schedule, AiInv, AiTyped
      <3> QED BY <2>0, <3>1 DEF Placed, Apart
    <2>2. CASE TimerFires(b, j)
      <3>1. /\ scheduled'[b] = scheduled[b] \cup {j} /\ pendingJobs'[b] = pendingJobs[b] \cup {j}
            /\ waiting'[b] = waiting[b] \ {j} /\ j \in waiting[b]
        BY <2>2 DEF TimerFires, Schedule, AiInv, AiTyped
      <3> QED BY <2>0, <3>1 DEF Placed, Apart
    <2>3. CASE RescheduleOpen(b)
      <3>1. /\ scheduled'[b] = scheduled[b] \cup OpenJobs(b) /\ pendingJobs'[b] = pendingJobs[b] \cup OpenJobs(b)
            /\ waiting'[b] = waiting[b] /\ \A i \in OpenJobs(b) : i \notin scheduled[b]
        BY <2>3 DEF RescheduleOpen, Schedule, AiInv, AiTyped, OpenJobs
      <3> QED BY <2>0, <3>1 DEF Placed, Apart
    <2> QED BY <2>1, <2>2, <2>3
  <1> QED BY <1>1, <1>2, <1>3, <1>4 DEF Sound, Turning

LEMMA TurnEndsSound ==
    ASSUME AiInv, NEW b \in AiBridges, StartTurn(b) \/ EndTurn(b)
    PROVE  Sound'
  <1>0. /\ UNCHANGED <<course, life, record, target, copy, task, aged>>
        /\ \A c \in AiBridges \ {b} :
             /\ turn'[c] = turn[c] /\ scheduled'[c] = scheduled[c]
             /\ pendingJobs'[c] = pendingJobs[c] /\ waiting'[c] = waiting[c]
    BY DEF StartTurn, EndTurn, Turned, environment, AiInv, AiTyped
  <1>1. ClaimsSound' /\ TargetSound'
    BY <1>0 DEF AiInv, ClaimsSound, TargetSound, target
  <1>2. ASSUME NEW c \in AiBridges \ {b}
        PROVE  /\ Placed(c, turn[c])' /\ Staged(turn[c])' /\ ClaimKept(c, turn[c])'
               /\ ~Alive(c)' => turn'[c].cur = {}
    BY <1>0, OtherTurn, SamePlace DEF target, Alive
  <1>3. Placed(b, turn[b]) /\ turn[b] \in Turns
    BY DEF AiInv, Turning, AiTyped
  <1>4. CASE StartTurn(b)
    <2>1. /\ scheduled'[b] = scheduled[b] /\ pendingJobs'[b] = {} /\ waiting'[b] = waiting[b]
          /\ \/ turn'[b] = [AtRestTurn EXCEPT !.pc = "pick", !.alone = pendingJobs[b]]
             \/ turn'[b] = [AtRestTurn EXCEPT !.pc = "claim", !.todo = pendingJobs[b]]
      BY <1>4 DEF StartTurn, Turned, AiInv, AiTyped
    <2>2. /\ turn'[b].cur = {} /\ turn'[b].dropped = {} /\ turn'[b].later = {} /\ turn'[b].out = "none"
          /\ turn'[b].pc \in {"pick", "claim"} /\ turn'[b].todo \cup turn'[b].alone = pendingJobs[b]
          /\ turn'[b].todo \cap turn'[b].alone = {}
      BY <2>1 DEF AtRestTurn
    <2>3. Placed(b, turn[b])'
      BY <1>3, <2>1, <2>2 DEF Placed, Apart
    <2>4. Staged(turn[b])' /\ ClaimKept(b, turn[b])'
      BY <2>2 DEF Staged, ClaimKept
    <2> QED BY <1>1, <1>2, <2>2, <2>3, <2>4 DEF Sound, Turning
  <1>5. CASE EndTurn(b)
    <2>1. /\ scheduled'[b] = (scheduled[b] \ turn[b].dropped) \cup pendingJobs[b]
          /\ pendingJobs'[b] = pendingJobs[b] /\ waiting'[b] = waiting[b] \cup turn[b].later
          /\ turn'[b] = AtRestTurn
      BY <1>5 DEF EndTurn, Forgotten, Turned, AiInv, AiTyped
    <2>2. /\ turn'[b].cur = {} /\ turn'[b].dropped = {} /\ turn'[b].later = {} /\ turn'[b].out = "none"
          /\ turn'[b].pc = "idle" /\ turn'[b].todo = {} /\ turn'[b].alone = {}
      BY <2>1 DEF AtRestTurn
    <2>3. Placed(b, turn[b])'
      BY <1>3, <2>1, <2>2 DEF Placed, Apart
    <2>4. Staged(turn[b])' /\ ClaimKept(b, turn[b])'
      BY <2>2 DEF Staged, ClaimKept
    <2> QED BY <1>1, <1>2, <2>2, <2>3, <2>4 DEF Sound, Turning
  <1> QED BY <1>4, <1>5

LEMMA ClaimsStep ==
    ASSUME AiInv, NEW b \in AiBridges, ClaimMember(b) \/ RenewMember(b) \/ ClaimAlone(b)
    PROVE  Sound'
  <1>0. /\ UNCHANGED <<course, life, target, copy, task, aged, scheduled, pendingJobs, waiting>>
        /\ \A c \in AiBridges \ {b} : turn'[c] = turn[c]
        /\ record' = record \/ \E j \in AiJobs : Claimed(b, j)
    BY DEF ClaimMember, RenewMember, ClaimAlone, Turned, environment, AiInv, AiTyped, Turns
  <1>1. ClaimsSound' /\ TargetSound'
    <2>1. TargetSound'
      BY <1>0 DEF AiInv, TargetSound, target
    <2>2. CASE record' = record
      BY <1>0, <2>1, <2>2 DEF AiInv, ClaimsSound, target
    <2>3. CASE \E j \in AiJobs : Claimed(b, j)
      BY <1>0, <2>1, <2>3, ClaimStep DEF target
    <2> QED BY <1>0, <2>2, <2>3
  <1>2. ASSUME NEW c \in AiBridges \ {b}
        PROVE  /\ Placed(c, turn[c])' /\ Staged(turn[c])' /\ ClaimKept(c, turn[c])'
               /\ ~Alive(c)' => turn'[c].cur = {}
    <2>1. \A i \in turn[c].cur : record'[i] = record[i] \/ (record'[i].by = b /\ i \in aged)
      BY <1>0, ClaimStep DEF target
    <2>2. b \notin {NoBridge, c}
      BY AiAssumption DEF NoBridge
    <2> QED BY <1>0, <2>1, <2>2, OtherTurn, SamePlace DEF target, Alive
  <1>3. Placed(b, turn[b]) /\ Staged(turn[b]) /\ ClaimKept(b, turn[b]) /\ turn[b] \in Turns /\ Alive(b) /\ Alive(b)'
    BY <1>0 DEF AiInv, Turning, AiTyped, ClaimMember, RenewMember, ClaimAlone, Alive
  <1>4. turn[b].todo \subseteq AiJobs /\ turn[b].alone \subseteq AiJobs /\ turn[b].cur \subseteq AiJobs
    BY <1>3 DEF Turns
  <1>5. \A t : Turned(b, t) => turn'[b] = t
    BY DEF Turned, AiInv, AiTyped
  <1>6. CASE \E j \in turn[b].todo :
               /\ turn[b].pc \in {"claim", "renew"} /\ Claimed(b, j)
               /\ turn'[b].pc = turn[b].pc /\ turn'[b].out = turn[b].out
               /\ turn'[b].todo = turn[b].todo \ {j} /\ turn'[b].later = turn[b].later
               /\ \/ /\ turn'[b].dropped = turn[b].dropped \cup {j}
                     /\ turn'[b].cur = turn[b].cur /\ turn'[b].alone = turn[b].alone
                  \/ /\ turn'[b].alone = turn[b].alone \cup {j}
                     /\ turn'[b].cur = turn[b].cur /\ turn'[b].dropped = turn[b].dropped
                  \/ /\ MayClaim(b, j) /\ turn'[b].cur = turn[b].cur \cup {j}
                     /\ turn'[b].alone = turn[b].alone /\ turn'[b].dropped = turn[b].dropped
    <2>1. Placed(b, turn[b])'
      BY <1>0, <1>3, <1>6 DEF Placed, Apart
    <2>2. Staged(turn[b])'
      BY <1>0, <1>3, <1>6 DEF Staged
    <2>3. ClaimKept(b, turn[b])'
      <3>1. PICK j \in turn[b].todo :
              /\ Claimed(b, j) /\ (turn'[b].cur = turn[b].cur \/ (MayClaim(b, j) /\ turn'[b].cur = turn[b].cur \cup {j}))
        BY <1>6
      <3>2. j \notin turn[b].cur
        BY <1>3 DEF Placed, Apart
      <3>k. \A i \in AiJobs \ {j} : record'[i] = record[i]
        BY <1>0, <1>4, <3>1, ClaimStep DEF target
      <3>3. \A i \in turn[b].cur : record'[i] = record[i]
        BY <1>4, <3>2, <3>k
      <3>4. MayClaim(b, j) => record'[j] = [status |-> "integrating", by |-> b, old |-> FALSE]
        BY <1>0, <1>4, <3>1, ClaimStep DEF target
      <3>5. b # NoBridge
        BY AiAssumption DEF NoBridge
      <3> QED BY <1>0, <1>3, <3>1, <3>3, <3>4, <3>5 DEF ClaimKept
    <2> QED BY <1>1, <1>2, <1>3, <2>1, <2>2, <2>3 DEF Sound, Turning
  <1>7. CASE /\ record' = record /\ turn[b].todo = {} /\ turn[b].pc \in {"claim", "renew"}
             /\ turn'[b].out = turn[b].out
             /\ turn'[b].dropped = turn[b].dropped /\ turn'[b].later = turn[b].later
             /\ \/ /\ turn'[b].pc = "renew" /\ turn'[b].todo = turn[b].cur /\ turn'[b].cur = {}
                   /\ turn'[b].alone = turn[b].alone
                \/ /\ turn'[b].pc = "pick" /\ turn'[b].alone = turn[b].alone \cup turn[b].cur /\ turn'[b].cur = {}
                   /\ turn'[b].todo = {}
                \/ /\ turn'[b].pc = "preview" /\ turn'[b].alone = turn[b].alone /\ turn'[b].cur = turn[b].cur
                   /\ turn'[b].todo = {}
    <2>1. Placed(b, turn[b])'
      BY <1>0, <1>3, <1>7 DEF Placed, Apart
    <2>2. Staged(turn[b])'
      BY <1>0, <1>3, <1>7 DEF Staged
    <2>3. ClaimKept(b, turn[b])'
      BY <1>0, <1>3, <1>7 DEF ClaimKept
    <2> QED BY <1>1, <1>2, <1>3, <2>1, <2>2, <2>3 DEF Sound, Turning
  <1>8. CASE \E j \in turn[b].alone :
               /\ turn[b].pc = "pick" /\ Claimed(b, j) /\ turn'[b].alone = turn[b].alone \ {j}
               /\ turn'[b].todo = turn[b].todo /\ turn'[b].later = turn[b].later /\ turn'[b].out = turn[b].out
               /\ \/ /\ MayClaim(b, j) /\ turn'[b].pc = "check" /\ turn'[b].cur = {j}
                     /\ turn'[b].dropped = turn[b].dropped
                  \/ /\ ~MayClaim(b, j) /\ turn'[b].pc = "pick" /\ turn'[b].cur = turn[b].cur
                     /\ turn'[b].dropped = turn[b].dropped \cup {j}
    <2>0. PICK j \in turn[b].alone :
               /\ turn[b].pc = "pick" /\ Claimed(b, j) /\ turn'[b].alone = turn[b].alone \ {j}
               /\ turn'[b].todo = turn[b].todo /\ turn'[b].later = turn[b].later /\ turn'[b].out = turn[b].out
               /\ \/ /\ MayClaim(b, j) /\ turn'[b].pc = "check" /\ turn'[b].cur = {j}
                     /\ turn'[b].dropped = turn[b].dropped
                  \/ /\ ~MayClaim(b, j) /\ turn'[b].pc = "pick" /\ turn'[b].cur = turn[b].cur
                     /\ turn'[b].dropped = turn[b].dropped \cup {j}
      BY <1>8
    <2>1. Placed(b, turn[b])'
      BY <1>0, <1>3, <2>0 DEF Placed, Apart
    <2>2. Staged(turn[b])'
      BY <1>0, <1>3, <2>0 DEF Staged, target
    <2>3. ClaimKept(b, turn[b])'
      <3>1. MayClaim(b, j) => record'[j] = [status |-> "integrating", by |-> b, old |-> FALSE]
        BY <1>0, <1>4, <2>0, ClaimStep DEF target
      <3>2. ~MayClaim(b, j) => record' = record
        BY <1>0, <1>4, <2>0, ClaimStep DEF target
      <3>5. b # NoBridge
        BY AiAssumption DEF NoBridge
      <3> QED BY <1>0, <1>3, <2>0, <3>1, <3>2, <3>5 DEF ClaimKept
    <2> QED BY <1>1, <1>2, <1>3, <2>1, <2>2, <2>3 DEF Sound, Turning
  <1>9. CASE ClaimMember(b)
    <2>1. CASE turn[b].todo = {} /\ UNCHANGED record
      <3>1. \/ turn'[b] = [turn[b] EXCEPT !.pc = "renew", !.todo = turn[b].cur, !.cur = {}]
            \/ turn'[b] = [turn[b] EXCEPT !.pc = "pick", !.alone = @ \cup turn[b].cur, !.cur = {}]
        BY <1>5, <1>9, <2>1 DEF ClaimMember
      <3> QED BY <1>3, <1>7, <1>9, <2>1, <3>1 DEF Turns, ClaimMember
    <2>2. CASE \E j \in turn[b].todo :
                 /\ Claimed(b, j)
                 /\ \/ turn'[b] = [[turn[b] EXCEPT !.todo = @ \ {j}] EXCEPT !.dropped = @ \cup {j}]
                    \/ turn'[b] = [[turn[b] EXCEPT !.todo = @ \ {j}] EXCEPT !.alone = @ \cup {j}]
                    \/ /\ MayClaim(b, j)
                       /\ turn'[b] = [[turn[b] EXCEPT !.todo = @ \ {j}] EXCEPT !.cur = @ \cup {j}]
      BY <1>3, <1>6, <1>9, <2>2 DEF Turns, ClaimMember
    <2> QED BY <1>5, <1>9, <2>1, <2>2 DEF ClaimMember
  <1>10. CASE RenewMember(b)
    <2>1. CASE turn[b].todo = {} /\ UNCHANGED record
      <3>1. \/ turn'[b] = [turn[b] EXCEPT !.pc = "preview"]
            \/ turn'[b] = [turn[b] EXCEPT !.pc = "pick", !.alone = @ \cup turn[b].cur, !.cur = {}]
        BY <1>5, <1>10, <2>1 DEF RenewMember
      <3> QED BY <1>3, <1>7, <1>10, <2>1, <3>1 DEF Turns, RenewMember
    <2>2. CASE \E j \in turn[b].todo :
                 /\ Claimed(b, j)
                 /\ \/ turn'[b] = [turn[b] EXCEPT !.todo = @ \ {j}, !.dropped = @ \cup {j}]
                    \/ MayClaim(b, j) /\ turn'[b] = [turn[b] EXCEPT !.todo = @ \ {j}, !.cur = @ \cup {j}]
      BY <1>3, <1>6, <1>10, <2>2 DEF Turns, RenewMember
    <2> QED BY <1>5, <1>10, <2>1, <2>2 DEF RenewMember
  <1>11. CASE ClaimAlone(b)
    <2>1. PICK j \in turn[b].alone :
            /\ Claimed(b, j)
            /\ turn'[b] = IF MayClaim(b, j)
                          THEN [[turn[b] EXCEPT !.alone = @ \ {j}] EXCEPT !.pc = "check", !.cur = {j}]
                          ELSE [[turn[b] EXCEPT !.alone = @ \ {j}] EXCEPT !.dropped = @ \cup {j}]
      BY <1>5, <1>11 DEF ClaimAlone
    <2> QED BY <1>3, <1>8, <1>11, <2>1 DEF Turns, ClaimAlone
  <1> QED BY <1>9, <1>10, <1>11

(* What the engine's steps share: the bridge's jobs stay where they are, or *)
(* go from the group to the path of one job.                                *)
Regrouped(b) ==
    /\ turn'[b].todo = turn[b].todo /\ turn'[b].dropped = turn[b].dropped /\ turn'[b].later = turn[b].later
    /\ turn'[b].cur \subseteq turn[b].cur
    /\ turn'[b].alone = turn[b].alone \cup (turn[b].cur \ turn'[b].cur)

LEMMA EndsFacts ==
    ASSUME AiInv, NEW b \in AiBridges, NEW out \in FinalRecords \cup {"waiting_for_lock"},
           FallBack(b) \/ Ends(b, out) \/ CannotLand(b) \/ Fails(b)
    PROVE  /\ Regrouped(b)
           /\ \/ turn'[b].pc \in {"pick", "preview"} /\ turn'[b].out = turn[b].out
              \/ turn'[b].pc = "record" /\ turn'[b].out \in {out, "failed", "waiting_for_lock"}
  <1>0. turn[b] \in Turns
    BY DEF AiInv, AiTyped
  <1>1. \A t : Turned(b, t) => turn'[b] = t
    BY DEF Turned, AiInv, AiTyped
  <1>2. \/ turn'[b] = [turn[b] EXCEPT !.pc = "pick", !.alone = @ \cup turn[b].cur, !.cur = {}]
        \/ turn'[b] = [turn[b] EXCEPT !.pc = "preview"]
        \/ \E o \in {out, "failed", "waiting_for_lock"} : turn'[b] = [turn[b] EXCEPT !.pc = "record", !.out = o]
    BY <1>1 DEF FallBack, Ends, CannotLand, Fails
  <1>3. CASE turn'[b] = [turn[b] EXCEPT !.pc = "pick", !.alone = @ \cup turn[b].cur, !.cur = {}]
    BY <1>0, <1>3 DEF Turns, Regrouped
  <1>4. CASE turn'[b] = [turn[b] EXCEPT !.pc = "preview"]
    BY <1>0, <1>4 DEF Turns, Regrouped
  <1>5. CASE \E o \in {out, "failed", "waiting_for_lock"} : turn'[b] = [turn[b] EXCEPT !.pc = "record", !.out = o]
    BY <1>0, <1>5 DEF Turns, Regrouped
  <1> QED BY <1>2, <1>3, <1>4, <1>5

(* A step of the engine is sound when the new position of its turn is.      *)
LEMMA EngineSound ==
    ASSUME AiInv, NEW b \in AiBridges, Alive(b), Regrouped(b),
           UNCHANGED <<environment, record, scheduled, pendingJobs, waiting>>,
           \A c \in AiBridges \ {b} : turn'[c] = turn[c],
           landed \subseteq landed', (commits' = commits /\ head' = head) \/ commits' = commits + 1,
           Staged(turn[b])', TargetSound'
    PROVE  Sound'
  <1>1. ClaimsSound'
    BY DEF AiInv, ClaimsSound, environment
  <1>2. ASSUME NEW c \in AiBridges \ {b}
        PROVE  /\ Placed(c, turn[c])' /\ Staged(turn[c])' /\ ClaimKept(c, turn[c])'
               /\ ~Alive(c)' => turn'[c].cur = {}
    BY OtherTurn, SamePlace DEF environment, Alive
  <1>3. Placed(b, turn[b]) /\ ClaimKept(b, turn[b])
    BY DEF AiInv, Turning
  <1>4. Placed(b, turn[b])'
    BY <1>3 DEF Placed, Apart, Regrouped
  <1>5. ClaimKept(b, turn[b])' /\ Alive(b)'
    BY <1>3 DEF ClaimKept, Regrouped, environment, Alive
  <1> QED BY <1>1, <1>2, <1>4, <1>5 DEF Sound, Turning

LEMMA LookSound ==
    ASSUME AiInv, NEW b \in AiBridges, CheckHead(b) \/ SettleFound(b) \/ Preview(b)
    PROVE  Sound'
  <1>0. /\ turn[b] \in Turns /\ Staged(turn[b]) /\ Alive(b)
        /\ \A c \in AiBridges \ {b} : turn'[c] = turn[c]
        /\ \A t : Turned(b, t) => turn'[b] = t
        /\ UNCHANGED <<environment, record, scheduled, pendingJobs, waiting, target, task>>
    BY DEF AiInv, AiTyped, Turning, CheckHead, SettleFound, Preview, Turned, CannotLand, Fails, FallBack, Ends
  <1>1. TargetSound'
    BY <1>0 DEF AiInv, TargetSound, target
  <1>2. Regrouped(b) /\ Staged(turn[b])'
    <2>1. CASE CheckHead(b)
      <3> DEFINE found == \E j \in turn[b].cur : AlreadyCommitted(j)
      <3>1. turn'[b] = [turn[b] EXCEPT !.pc = IF found THEN "found" ELSE "preview",
                                       !.out = IF found THEN "already_committed" ELSE "none"]
        BY <1>0, <2>1 DEF CheckHead
      <3>2. found => turn[b].cur \subseteq landed
        BY <1>0, <2>1 DEF CheckHead, Staged, AlreadyCommitted, AiInv, TargetSound, Turns
      <3> HIDE DEF found
      <3>3. /\ turn'[b].pc = IF found THEN "found" ELSE "preview"
            /\ turn'[b].out = IF found THEN "already_committed" ELSE "none"
            /\ turn'[b].todo = turn[b].todo /\ turn'[b].dropped = turn[b].dropped
            /\ turn'[b].later = turn[b].later /\ turn'[b].cur = turn[b].cur /\ turn'[b].alone = turn[b].alone
        BY <1>0, <3>1 DEF Turns
      <3> QED BY <1>0, <3>2, <3>3 DEF Regrouped, Staged, target
    <2>2. CASE SettleFound(b)
      <3>1. turn'[b] = [turn[b] EXCEPT !.pc = "record"]
        BY <1>0, <2>2 DEF SettleFound
      <3>2. /\ turn'[b].pc = "record" /\ turn'[b].out = turn[b].out
            /\ turn'[b].todo = turn[b].todo /\ turn'[b].dropped = turn[b].dropped
            /\ turn'[b].later = turn[b].later /\ turn'[b].cur = turn[b].cur /\ turn'[b].alone = turn[b].alone
        BY <1>0, <3>1 DEF Turns
      <3> QED BY <1>0, <2>2, <3>2 DEF Regrouped, Staged, SettleFound, target, FinalRecords
    <2>3. CASE Preview(b)
      <3> DEFINE P == turn[b].cur
                 changed == {p \in P : copy[p] # "job"}
                 leave == IF changed # {} THEN changed ELSE NotNew(P)
      <3>0. leave \subseteq P
        BY DEF NotNew
      <3>c. leave = {} => P \subseteq course.creates
        BY DEF NotNew
      <3> HIDE DEF leave
      <3>1. \/ CannotLand(b) \/ Fails(b) \/ FallBack(b) \/ Ends(b, "failed") \/ Ends(b, "skipped_not_new_files")
            \/ leave = {} /\ turn'[b] = [turn[b] EXCEPT !.pc = "apply", !.seen = Evidence(P)]
            \/ turn'[b] = [turn[b] EXCEPT !.cur = @ \ leave, !.alone = @ \cup leave]
        BY <1>0, <2>3 DEF Preview, leave
      <3>2. turn[b].pc = "preview" /\ turn[b].out = "none"
        BY <1>0, <2>3 DEF Preview, Staged
      <3>3. CASE CannotLand(b) \/ Fails(b) \/ FallBack(b) \/ Ends(b, "failed") \/ Ends(b, "skipped_not_new_files")
        <4>1. /\ Regrouped(b)
              /\ \/ turn'[b].pc \in {"pick", "preview"} /\ turn'[b].out = turn[b].out
                 \/ turn'[b].pc = "record"
                    /\ turn'[b].out \in {"failed", "skipped_not_new_files", "waiting_for_lock"}
          BY <3>3, EndsFacts DEF FinalRecords
        <4> QED BY <3>2, <4>1 DEF Staged, FinalRecords
      <3>4. CASE leave = {} /\ turn'[b] = [turn[b] EXCEPT !.pc = "apply", !.seen = Evidence(P)]
        <4>1. /\ turn'[b].pc = "apply" /\ turn'[b].out = turn[b].out
              /\ turn'[b].todo = turn[b].todo /\ turn'[b].dropped = turn[b].dropped
              /\ turn'[b].later = turn[b].later /\ turn'[b].cur = turn[b].cur /\ turn'[b].alone = turn[b].alone
          BY <1>0, <3>4 DEF Turns
        <4> QED BY <1>0, <3>2, <3>4, <3>c, <4>1 DEF Regrouped, Staged, environment
      <3>5. CASE turn'[b] = [turn[b] EXCEPT !.cur = @ \ leave, !.alone = @ \cup leave]
        <4>1. /\ turn'[b].pc = "preview" /\ turn'[b].out = turn[b].out
              /\ turn'[b].todo = turn[b].todo /\ turn'[b].dropped = turn[b].dropped
              /\ turn'[b].later = turn[b].later /\ turn'[b].cur = turn[b].cur \ leave
              /\ turn'[b].alone = turn[b].alone \cup leave
          BY <1>0, <3>2, <3>5 DEF Turns
        <4> QED BY <3>0, <3>2, <4>1 DEF Regrouped, Staged
      <3> QED BY <3>1, <3>3, <3>4, <3>5
    <2> QED BY <2>1, <2>2, <2>3
  <1> QED BY <1>0, <1>1, <1>2, EngineSound DEF target

LEMMA ApplySound ==
    ASSUME AiInv, NEW b \in AiBridges, Apply(b) \/ Prepare(b) \/ Compare(b) \/ ReadHead(b)
    PROVE  Sound'
  <1>0. /\ turn[b] \in Turns /\ Staged(turn[b]) /\ Alive(b)
        /\ \A c \in AiBridges \ {b} : turn'[c] = turn[c]
        /\ \A t : Turned(b, t) => turn'[b] = t
        /\ UNCHANGED <<environment, record, scheduled, pendingJobs, waiting, head, commits, landed, task>>
    BY DEF AiInv, AiTyped, Turning, Apply, Prepare, Compare, ReadHead, Turned, CannotLand, Fails, FallBack, Ends,
           target
  <1>1. TargetSound'
    BY <1>0 DEF AiInv, TargetSound
  <1>2. Regrouped(b) /\ Staged(turn[b])'
    <2>1. CASE Apply(b)
      <3>2. turn[b].pc = "apply" /\ turn[b].out = "none"
        BY <1>0, <2>1 DEF Apply, Staged
      <3>3. CASE CannotLand(b) \/ Fails(b)
        <4>1. /\ Regrouped(b)
              /\ \/ turn'[b].pc \in {"pick", "preview"} /\ turn'[b].out = turn[b].out
                 \/ turn'[b].pc = "record" /\ turn'[b].out \in {"failed", "waiting_for_lock"}
          BY <3>3, EndsFacts DEF FinalRecords
        <4> QED BY <3>2, <4>1 DEF Staged, FinalRecords
      <3>4. CASE /\ checkout' = [p \in AiJobs |-> IF p \in turn[b].cur THEN "job" ELSE checkout[p]]
                 /\ turn'[b] = [turn[b] EXCEPT !.pc = "prepare", !.seen = [State EXCEPT !.checkout = checkout']]
        <4>1. [State EXCEPT !.checkout = checkout'] \in States /\ [State EXCEPT !.checkout = checkout'].checkout = checkout'
          BY <3>4 DEF State, States, AiInv, AiTyped, Contents
        <4>2. /\ turn'[b].pc = "prepare" /\ turn'[b].out = turn[b].out
              /\ turn'[b].todo = turn[b].todo /\ turn'[b].dropped = turn[b].dropped
              /\ turn'[b].later = turn[b].later /\ turn'[b].cur = turn[b].cur /\ turn'[b].alone = turn[b].alone
              /\ turn'[b].seen = [State EXCEPT !.checkout = checkout']
          BY <1>0, <3>4 DEF Turns
        <4>3. \A p \in turn[b].cur : checkout'[p] = "job"
          BY <1>0, <3>4 DEF Turns
        <4>4. turn[b].cur \subseteq course.creates
          BY <1>0, <3>2 DEF Staged
        <4> QED BY <1>0, <3>2, <4>1, <4>2, <4>3, <4>4 DEF Regrouped, Staged, environment
      <3> QED BY <1>0, <2>1, <3>3, <3>4 DEF Apply
    <2>2. CASE Prepare(b) \/ Compare(b)
      <3>1. /\ turn[b].pc \in {"prepare", "compare"} /\ turn[b].cur \subseteq course.creates
            /\ turn[b].seen \in States /\ \A p \in turn[b].cur : turn[b].seen.checkout[p] = "job"
        BY <1>0, <2>2 DEF Prepare, Compare, Staged
      <3>2. CASE turn'[b] = NotCommitted(b)
        <4>2. /\ turn'[b].pc = "enqueue" /\ turn'[b].out = "applied_not_committed"
              /\ turn'[b].todo = turn[b].todo /\ turn'[b].dropped = turn[b].dropped
              /\ turn'[b].later = turn[b].later /\ turn'[b].cur = turn[b].cur /\ turn'[b].alone = turn[b].alone
              /\ turn'[b].seen = turn[b].seen
          BY <1>0, <3>2 DEF NotCommitted, Turns
        <4> QED BY <1>0, <3>1, <4>2 DEF Regrouped, Staged, environment
      <3>3. CASE Prepare(b) /\ turn'[b] # NotCommitted(b)
        <4>1. /\ turn'[b] = [turn[b] EXCEPT !.pc = "compare", !.first = [p \in turn[b].cur |-> copy[p]]]
              /\ \A p \in turn[b].cur : copy[p] # "gone"
          BY <1>0, <3>3 DEF Prepare
        <4>2. /\ turn'[b].pc = "compare" /\ turn'[b].out = turn[b].out
              /\ turn'[b].todo = turn[b].todo /\ turn'[b].dropped = turn[b].dropped
              /\ turn'[b].later = turn[b].later /\ turn'[b].cur = turn[b].cur /\ turn'[b].alone = turn[b].alone
              /\ turn'[b].seen = turn[b].seen /\ turn'[b].first = [p \in turn[b].cur |-> copy[p]]
          BY <1>0, <4>1 DEF Turns
        <4>c. \A p \in turn[b].cur : copy[p] \in {"job", "edited", "gone"}
          BY <1>0 DEF Turns, AiInv, AiTyped, CopyContents
        <4>3. \A p \in turn[b].cur : turn'[b].first[p] \in {"job", "edited"}
          BY <4>1, <4>2, <4>c
        <4>4. turn[b].out = "none"
          BY <1>0, <3>1 DEF Staged
        <4> QED BY <1>0, <3>1, <4>2, <4>3, <4>4 DEF Regrouped, Staged, environment
      <3>4. CASE Compare(b) /\ turn'[b] # NotCommitted(b)
        <4>1. turn'[b] = [turn[b] EXCEPT !.pc = "readHead"] /\ SameContent(b) /\ turn[b].pc = "compare"
          BY <1>0, <3>4 DEF Compare
        <4>2. /\ turn'[b].pc = "readHead" /\ turn'[b].out = turn[b].out
              /\ turn'[b].todo = turn[b].todo /\ turn'[b].dropped = turn[b].dropped
              /\ turn'[b].later = turn[b].later /\ turn'[b].cur = turn[b].cur /\ turn'[b].alone = turn[b].alone
              /\ turn'[b].seen = turn[b].seen /\ turn'[b].first = turn[b].first
          BY <1>0, <4>1 DEF Turns
        <4>3. \A p \in turn[b].cur : turn[b].first[p] = "job"
          <5>1. \A p \in turn[b].cur : turn[b].first[p] \in {"job", "edited"}
            BY <1>0, <4>1 DEF Staged
          <5>2. \A p \in turn[b].cur : checkout[p] \in {"absent", "job", "other"}
            BY <1>0 DEF Turns, AiInv, AiTyped, Contents
          <5> QED BY <4>1, <5>1, <5>2 DEF SameContent
        <4>4. turn[b].out = "none"
          BY <1>0, <3>1 DEF Staged
        <4> QED BY <1>0, <3>1, <4>2, <4>3, <4>4 DEF Regrouped, Staged, environment
      <3> QED BY <2>2, <3>2, <3>3, <3>4
    <2>3. CASE ReadHead(b)
      <3>1. /\ turn[b].pc = "readHead" /\ turn[b].cur \subseteq course.creates /\ turn[b].out = "none"
            /\ turn[b].seen \in States /\ \A p \in turn[b].cur : turn[b].seen.checkout[p] = "job"
            /\ \A p \in turn[b].cur : turn[b].first[p] = "job"
        BY <1>0, <2>3 DEF ReadHead, Staged
      <3>2. turn'[b] = [turn[b] EXCEPT !.pc = "move", !.old = commits, !.seen = [turn[b].seen EXCEPT !.head = head]]
        BY <1>0, <2>3 DEF ReadHead, Turns
      <3>3. /\ [turn[b].seen EXCEPT !.head = head] \in States
            /\ [turn[b].seen EXCEPT !.head = head].head = head
            /\ [turn[b].seen EXCEPT !.head = head].checkout = turn[b].seen.checkout
        BY <3>1 DEF States, AiInv, AiTyped
      <3>4. /\ turn'[b].pc = "move" /\ turn'[b].out = turn[b].out /\ turn'[b].old = commits
            /\ turn'[b].todo = turn[b].todo /\ turn'[b].dropped = turn[b].dropped
            /\ turn'[b].later = turn[b].later /\ turn'[b].cur = turn[b].cur /\ turn'[b].alone = turn[b].alone
            /\ turn'[b].seen = [turn[b].seen EXCEPT !.head = head] /\ turn'[b].first = turn[b].first
        BY <1>0, <3>2 DEF Turns
      <3>5. turn'[b].seen \in States /\ turn'[b].seen.head = head' /\ turn'[b].seen.checkout = turn[b].seen.checkout
        BY <1>0, <3>3, <3>4
      <3>6. commits <= commits'
        BY <1>0 DEF AiInv, AiTyped
      <3> QED BY <1>0, <3>1, <3>4, <3>5, <3>6 DEF Regrouped, Staged, environment
    <2> QED BY <2>1, <2>2, <2>3
  <1> QED BY <1>0, <1>1, <1>2, EngineSound

LEMMA CommitSound ==
    ASSUME AiInv, NEW b \in AiBridges, MoveHead(b) \/ StoreCleanup(b)
    PROVE  Sound'
  <1>0. /\ turn[b] \in Turns /\ Staged(turn[b]) /\ Alive(b)
        /\ \A c \in AiBridges \ {b} : turn'[c] = turn[c]
        /\ \A t : Turned(b, t) => turn'[b] = t
        /\ UNCHANGED <<environment, record, scheduled, pendingJobs, waiting>>
    BY DEF AiInv, AiTyped, Turning, MoveHead, StoreCleanup, Turned
  <1>1. CASE MoveHead(b)
    <2>0. /\ turn[b].pc = "move" /\ turn[b].cur \subseteq course.creates /\ turn[b].out = "none"
          /\ turn[b].seen \in States /\ (\A p \in turn[b].cur : turn[b].seen.checkout[p] = "job")
          /\ (\A p \in turn[b].cur : turn[b].first[p] = "job") /\ turn[b].cur \subseteq AiJobs
      BY <1>0, <1>1 DEF MoveHead, Staged, Turns
    <2>1. CASE commits = turn[b].old
      <3>1. /\ head' = [p \in AiJobs |-> IF p \in turn[b].cur THEN turn[b].first[p] ELSE head[p]]
            /\ commits' = commits + 1 /\ task' = task
            /\ landed' = landed \cup {p \in turn[b].cur : turn[b].first[p] = "job"}
            /\ turn'[b] = [turn[b] EXCEPT !.pc = "enqueue", !.out = "committed"]
        BY <1>0, <1>1, <2>1 DEF MoveHead
      <3>2. /\ turn'[b].pc = "enqueue" /\ turn'[b].out = "committed"
            /\ turn'[b].todo = turn[b].todo /\ turn'[b].dropped = turn[b].dropped
            /\ turn'[b].later = turn[b].later /\ turn'[b].cur = turn[b].cur /\ turn'[b].alone = turn[b].alone
            /\ turn'[b].seen = turn[b].seen
        BY <1>0, <3>1 DEF Turns
      <3>3. landed' = landed \cup turn[b].cur
        BY <2>0, <3>1
      <3>4. TargetSound'
        BY <2>0, <3>1, <3>3 DEF AiInv, TargetSound
      <3>5. Staged(turn[b])'
        BY <1>0, <2>0, <3>2, <3>3 DEF Staged, environment
      <3> QED BY <1>0, <3>1, <3>2, <3>3, <3>4, <3>5, EngineSound DEF Regrouped
    <2>2. CASE commits # turn[b].old
      <3>1. UNCHANGED <<head, commits, landed, task>>
        BY <1>1, <2>2 DEF MoveHead
      <3>2. TargetSound'
        BY <3>1 DEF AiInv, TargetSound
      <3>3. CASE turn'[b] = NotCommitted(b)
        <4>1. /\ turn'[b].pc = "enqueue" /\ turn'[b].out = "applied_not_committed"
              /\ turn'[b].todo = turn[b].todo /\ turn'[b].dropped = turn[b].dropped
              /\ turn'[b].later = turn[b].later /\ turn'[b].cur = turn[b].cur /\ turn'[b].alone = turn[b].alone
              /\ turn'[b].seen = turn[b].seen
          BY <1>0, <3>3 DEF NotCommitted, Turns
        <4>2. Staged(turn[b])'
          BY <1>0, <2>0, <4>1 DEF Staged, environment
        <4> QED BY <1>0, <3>1, <3>2, <4>1, <4>2, EngineSound DEF Regrouped
      <3>4. CASE StillNew(b) /\ turn'[b] = [turn[b] EXCEPT !.old = commits]
        <4>1. /\ turn'[b].pc = "move" /\ turn'[b].out = turn[b].out /\ turn'[b].old = commits
              /\ turn'[b].todo = turn[b].todo /\ turn'[b].dropped = turn[b].dropped
              /\ turn'[b].later = turn[b].later /\ turn'[b].cur = turn[b].cur /\ turn'[b].alone = turn[b].alone
              /\ turn'[b].seen = turn[b].seen /\ turn'[b].first = turn[b].first
          BY <1>0, <2>0, <3>4 DEF Turns
        <4>2. \A p \in turn[b].cur : head[p] = "absent"
          BY <3>4 DEF StillNew
        <4>3. commits <= commits'
          BY <3>1 DEF AiInv, AiTyped
        <4>4. Staged(turn[b])'
          BY <1>0, <2>0, <3>1, <4>1, <4>2, <4>3 DEF Staged, environment
        <4> QED BY <1>0, <3>1, <3>2, <4>1, <4>4, EngineSound DEF Regrouped
      <3> QED BY <1>0, <1>1, <2>2, <3>3, <3>4 DEF MoveHead
    <2> QED BY <2>1, <2>2
  <1>2. CASE StoreCleanup(b)
    <2>0. /\ turn[b].pc = "enqueue" /\ turn[b].out \in {"committed", "applied_not_committed"}
          /\ turn[b].out = "committed" => turn[b].cur \subseteq landed
          /\ turn[b].seen \in States /\ \A p \in turn[b].cur : turn[b].seen.checkout[p] = "job"
      BY <1>0, <1>2 DEF StoreCleanup, Staged
    <2>1. turn'[b] = [turn[b] EXCEPT !.pc = "record"] /\ UNCHANGED <<head, commits, landed>>
      BY <1>0, <1>2 DEF StoreCleanup, target
    <2>2. /\ turn'[b].pc = "record" /\ turn'[b].out = turn[b].out
          /\ turn'[b].todo = turn[b].todo /\ turn'[b].dropped = turn[b].dropped
          /\ turn'[b].later = turn[b].later /\ turn'[b].cur = turn[b].cur /\ turn'[b].alone = turn[b].alone
      BY <1>0, <2>1 DEF Turns
    <2>3. Staged(turn[b])'
      BY <1>0, <2>0, <2>1, <2>2 DEF Staged, FinalRecords
    <2>4. TargetSound'
      <3> SUFFICES ASSUME NEW p \in AiJobs
                   PROVE  /\ head'[p] = "job" => p \in landed'
                          /\ task'[p].status = "commit" => p \in landed'
                          /\ task'[p].status = "target" => task'[p].at \in States /\ task'[p].at.checkout[p] = "job"
        BY DEF TargetSound
      <3>1. task'[p] = IF p \in turn[b].cur THEN CleanupOf(b, p) ELSE task[p]
        BY <1>2 DEF StoreCleanup
      <3>2. /\ head[p] = "job" => p \in landed
            /\ task[p].status = "commit" => p \in landed
            /\ task[p].status = "target" => task[p].at \in States /\ task[p].at.checkout[p] = "job"
        BY DEF AiInv, TargetSound
      <3>3. CASE p \notin turn[b].cur \/ task'[p] = task[p]
        BY <2>1, <3>1, <3>2, <3>3
      <3>4. CASE p \in turn[b].cur /\ task'[p] = [status |-> "target", at |-> turn[b].seen]
        BY <2>0, <2>1, <3>2, <3>4
      <3>5. CASE /\ p \in turn[b].cur /\ turn[b].out = "committed"
                 /\ task'[p] = [status |-> "commit", at |-> NoState]
        BY <2>0, <2>1, <3>2, <3>5
      <3> QED BY <3>1, <3>3, <3>4, <3>5 DEF CleanupOf
    <2> QED BY <1>0, <2>1, <2>2, <2>3, <2>4, EngineSound DEF Regrouped
  <1> QED BY <1>1, <1>2

LEMMA RecordSound == ASSUME AiInv, NEW b \in AiBridges, RecordOutcome(b) PROVE Sound'
  <1>0. /\ turn[b] \in Turns /\ Staged(turn[b]) /\ Placed(b, turn[b]) /\ ClaimKept(b, turn[b]) /\ Alive(b)
        /\ \A c \in AiBridges \ {b} : turn'[c] = turn[c]
        /\ \A t : Turned(b, t) => turn'[b] = t
        /\ turn[b].cur \subseteq AiJobs /\ turn[b].pc = "record"
        /\ UNCHANGED <<environment, scheduled, pendingJobs, waiting, head, commits, landed, task>>
    BY DEF AiInv, AiTyped, Turning, RecordOutcome, Turned, target, Turns
  <1>1. turn[b].out \in FinalRecords \cup {"waiting_for_lock"} /\ b # NoBridge
    BY <1>0, AiAssumption DEF Staged, NoBridge
  <1>2. TargetSound'
    BY <1>0 DEF AiInv, TargetSound
  <1>3. CASE turn[b].cur = {} /\ record' = record
              /\ turn'[b] = [turn[b] EXCEPT !.pc = "pick", !.out = "none", !.seen = NoState, !.first = NoState,
                                            !.old = 0]
    <2>1. /\ turn'[b].pc = "pick" /\ turn'[b].out = "none" /\ turn'[b].cur = {}
          /\ turn'[b].todo = turn[b].todo /\ turn'[b].dropped = turn[b].dropped
          /\ turn'[b].later = turn[b].later /\ turn'[b].alone = turn[b].alone
      BY <1>0, <1>3 DEF Turns
    <2>2. Staged(turn[b])'
      BY <2>1 DEF Staged
    <2> QED BY <1>0, <1>2, <1>3, <2>1, <2>2, EngineSound DEF Regrouped
  <1>4. ASSUME NEW j \in turn[b].cur,
               record' = IF HoldsClaim(b, j)
                         THEN [record EXCEPT ![j] = [status |-> turn[b].out, by |-> b, old |-> FALSE]] ELSE record,
               turn'[b] = [turn[b] EXCEPT !.cur = @ \ {j},
                             !.later = IF turn[b].out = "waiting_for_lock" THEN @ \cup {j} ELSE @]
        PROVE  Sound'
    <2>1. /\ turn'[b].pc = "record" /\ turn'[b].out = turn[b].out /\ turn'[b].cur = turn[b].cur \ {j}
          /\ turn'[b].todo = turn[b].todo /\ turn'[b].dropped = turn[b].dropped
          /\ turn'[b].alone = turn[b].alone
          /\ turn'[b].later \in {turn[b].later, turn[b].later \cup {j}}
      BY <1>0, <1>4 DEF Turns
    <2>2. /\ \A i \in AiJobs \ {j} : record'[i] = record[i]
          /\ record[j].by # b => record'[j] = record[j]
          /\ record[j].by = b => record'[j] = [status |-> turn[b].out, by |-> b, old |-> FALSE]
      BY <1>0, <1>4 DEF HoldsClaim, ClaimKept, AiInv, AiTyped
    <2>3. ClaimsSound'
      <3>1. turn[b].out \in {"committed", "already_committed"} => j \in landed
        BY <1>0 DEF Staged
      <3>2. turn[b].out # "none"
        BY <1>1 DEF FinalRecords
      <3>3. ASSUME NEW i \in AiJobs, record'[i] = record[i]
            PROVE  /\ (record'[i].old => i \in aged') /\ (record'[i].status = "none" => record'[i].by = NoBridge)
                   /\ record'[i].status \in {"committed", "already_committed"} => i \in landed'
        BY <1>0, <3>3 DEF AiInv, ClaimsSound, environment
      <3>4. record[j].by = b => /\ ~record'[j].old /\ record'[j].status # "none"
                                /\ record'[j].status \in {"committed", "already_committed"} => j \in landed'
        BY <1>0, <2>2, <3>1, <3>2
      <3>5. ASSUME NEW i \in AiJobs
            PROVE  /\ (record'[i].old => i \in aged') /\ (record'[i].status = "none" => record'[i].by = NoBridge)
                   /\ record'[i].status \in {"committed", "already_committed"} => i \in landed'
        <4>1. CASE i = j /\ record[j].by = b
          BY <3>4, <4>1
        <4>2. CASE ~(i = j /\ record[j].by = b)
          BY <2>2, <3>3, <4>2
        <4> QED BY <4>1, <4>2
      <3> QED BY <3>5 DEF ClaimsSound
    <2>4. ASSUME NEW c \in AiBridges \ {b}
          PROVE  /\ Placed(c, turn[c])' /\ Staged(turn[c])' /\ ClaimKept(c, turn[c])'
                 /\ ~Alive(c)' => turn'[c].cur = {}
      <3>1. \A i \in turn[c].cur : \/ record'[i] = record[i]
                                   \/ record'[i].by \notin {NoBridge, c} /\ i \in aged'
        <4>1. ASSUME NEW i \in turn[c].cur, i = j, record[j].by = b
              PROVE  record'[i].by \notin {NoBridge, c} /\ i \in aged'
          BY <1>0, <1>1, <2>2, <4>1 DEF AiInv, Turning, ClaimKept, environment
        <4>2. turn[c].cur \subseteq AiJobs
          BY DEF AiInv, AiTyped, Turns
        <4> QED BY <2>2, <4>1, <4>2
      <3> QED BY <1>0, <3>1, OtherTurn, SamePlace DEF environment, Alive
    <2>5. Placed(b, turn[b])'
      BY <1>0, <2>1 DEF Placed, Apart
    <2>6. Staged(turn[b])'
      BY <1>0, <1>1, <2>1 DEF Staged
    <2>7. ClaimKept(b, turn[b])' /\ Alive(b)'
      BY <1>0, <2>1, <2>2 DEF ClaimKept, environment, Alive
    <2> QED BY <1>2, <2>3, <2>4, <2>5, <2>6, <2>7 DEF Sound, Turning
  <1> QED BY <1>0, <1>3, <1>4 DEF RecordOutcome

LEMMA AroundSound ==
    ASSUME AiInv, AroundStep \/ \E b \in AiBridges, j \in AiJobs : SweepCommitted(b, j) \/ DrainCleanup(b, j)
    PROVE  Sound'
  <1>0. /\ course' = course /\ landed \subseteq landed' /\ aged \subseteq aged'
        /\ (commits' = commits /\ head' = head) \/ commits' = commits + 1
        /\ \A i \in AiJobs : record'[i].by = record[i].by /\ record'[i].status = record[i].status
        /\ \A i \in AiJobs : record'[i].old => record[i].old \/ i \in aged'
    <2>1. CASE \E j \in AiJobs : ClaimAges(j)
      <3>0. PICK j \in AiJobs : ClaimAges(j)
        BY <2>1
      <3>1. record[j] \in Records
        BY DEF AiInv, AiTyped
      <3>2. [record[j] EXCEPT !.old = TRUE].by = record[j].by /\ [record[j] EXCEPT !.old = TRUE].status = record[j].status
        BY <3>1 DEF Records
      <3> QED BY <3>0, <3>2 DEF ClaimAges, target, AiInv, AiTyped
    <2>2. CASE ~\E j \in AiJobs : ClaimAges(j)
      BY <2>2 DEF AroundStep, SweepCommitted, DrainCleanup, AiCrash, InstanceLease, LockMoves, EditCopy, WriteTarget,
                  environment, target
    <2> QED BY <2>1, <2>2
  <1>1. ClaimsSound'
    BY <1>0 DEF AiInv, ClaimsSound
  <1>2. TargetSound'
    <2>1. CASE \E j \in AiJobs : WriteTarget(j)
      BY <2>1 DEF WriteTarget, AiInv, TargetSound, AiTyped
    <2>2. CASE \E b \in AiBridges, j \in AiJobs : DrainCleanup(b, j)
      BY <2>2 DEF DrainCleanup, target, AiInv, TargetSound, AiTyped
    <2>3. CASE UNCHANGED <<head, landed, task>>
      BY <2>3 DEF AiInv, TargetSound
    <2> QED BY <2>1, <2>2, <2>3 DEF AroundStep, SweepCommitted, AiCrash, InstanceLease, LockMoves, ClaimAges, EditCopy, target
  <1>3. Turning'
    <2>1. ASSUME NEW b \in AiBridges, AiCrash(b) PROVE Turning'
      <3>1. /\ turn'[b] = AtRestTurn /\ scheduled'[b] = {} /\ pendingJobs'[b] = {} /\ waiting'[b] = {}
            /\ \A c \in AiBridges \ {b} : /\ turn'[c] = turn[c] /\ scheduled'[c] = scheduled[c]
                                          /\ pendingJobs'[c] = pendingJobs[c] /\ waiting'[c] = waiting[c]
                                          /\ life'[c] = life[c]
        BY <2>1 DEF AiCrash, AiInv, AiTyped
      <3>2. ASSUME NEW c \in AiBridges \ {b}
            PROVE  /\ Placed(c, turn[c])' /\ Staged(turn[c])' /\ ClaimKept(c, turn[c])'
                   /\ ~Alive(c)' => turn'[c].cur = {}
        <4>1. turn[c].cur \subseteq AiJobs
          BY DEF AiInv, AiTyped, Turns
        <4> QED BY <1>0, <3>1, <4>1, OtherTurn, SamePlace DEF Alive
      <3>3. Placed(b, turn[b])' /\ Staged(turn[b])' /\ ClaimKept(b, turn[b])' /\ turn'[b].cur = {}
        BY <3>1 DEF AtRestTurn, Placed, Apart, Staged, ClaimKept
      <3> QED BY <3>2, <3>3 DEF Turning
    <2>2. CASE ~\E b \in AiBridges : AiCrash(b)
      <3>1. UNCHANGED <<turn, scheduled, pendingJobs, waiting>> /\ \A c \in AiBridges : Alive(c) => Alive(c)'
        BY <2>2 DEF AroundStep, SweepCommitted, DrainCleanup, InstanceLease, LockMoves, ClaimAges, EditCopy, WriteTarget,
                    environment, Alive, AiInv, AiTyped
      <3>2. ASSUME NEW c \in AiBridges
            PROVE  /\ Placed(c, turn[c])' /\ Staged(turn[c])' /\ ClaimKept(c, turn[c])'
                   /\ ~Alive(c)' => turn'[c].cur = {}
        <4>1. turn[c].cur \subseteq AiJobs
          BY DEF AiInv, AiTyped, Turns
        <4> QED BY <1>0, <3>1, <4>1, OtherTurn, SamePlace
      <3> QED BY <3>2 DEF Turning
    <2> QED BY <2>1, <2>2
  <1> QED BY <1>1, <1>2, <1>3 DEF Sound

-----------------------------------------------------------------------------
LEMMA AutoStep == AiInv /\ [AutoNext]_aivars => AiInv'
  <1> SUFFICES ASSUME AiInv, [AutoNext]_aivars PROVE AiInv'
    OBVIOUS
  <1>0. AiTyped /\ \A b \in AiBridges : pendingJobs[b] \cup waiting[b] \subseteq scheduled[b]
    BY DEF AiInv, Turning, Placed
  <1>1. CASE UNCHANGED aivars
    <2>0. AiTyped' /\ ClaimsSound' /\ TargetSound'
      BY <1>1 DEF aivars, AiInv, AiTyped, ClaimsSound, TargetSound
    <2>1. ASSUME NEW b \in AiBridges
          PROVE  /\ Placed(b, turn[b])' /\ Staged(turn[b])' /\ ClaimKept(b, turn[b])'
                 /\ ~Alive(b)' => turn'[b].cur = {}
      BY <1>1, OtherTurn, SamePlace DEF aivars, Alive
    <2> QED BY <2>0, <2>1 DEF AiInv, Turning
  <1>2. ASSUME NEW b \in AiBridges, RescheduleOpen(b) PROVE AiInv'
    <2>1. CASE AiJobs = {}
      BY <1>2, <2>1, <1>0 DEF RescheduleOpen, OpenJobs, AiTyped
    <2> QED BY <1>0, <1>2, <2>1, SchedulesTyped, SchedulesSound DEF Sound, AiInv
  <1>3. ASSUME NEW b \in AiBridges, StartTurn(b) \/ EndTurn(b) PROVE AiInv'
    BY <1>0, <1>3, TurnEndsTyped, TurnEndsSound DEF Sound, AiInv
  <1>4. ASSUME NEW b \in AiBridges, ClaimMember(b) \/ RenewMember(b) \/ ClaimAlone(b) PROVE AiInv'
    BY <1>4, ClaimsTyped, ClaimsStep DEF Sound, AiInv
  <1>5. ASSUME NEW b \in AiBridges, CheckHead(b) \/ SettleFound(b) \/ Preview(b) \/ Apply(b) \/ Prepare(b)
        PROVE  AiInv'
    BY <1>5, EngineTyped, LookSound, ApplySound DEF Sound, AiInv
  <1>6. ASSUME NEW b \in AiBridges,
               Compare(b) \/ ReadHead(b) \/ MoveHead(b) \/ StoreCleanup(b) \/ RecordOutcome(b)
        PROVE  AiInv'
    BY <1>6, CommitTyped, ApplySound, CommitSound, RecordSound DEF Sound, AiInv
  <1>7. ASSUME NEW b \in AiBridges, NEW j \in AiJobs, FinishJob(b, j) \/ TimerFires(b, j) PROVE AiInv'
    BY <1>0, <1>7, SchedulesTyped, SchedulesSound DEF Sound, AiInv
  <1>8. ASSUME NEW b \in AiBridges, NEW j \in AiJobs, SweepCommitted(b, j) \/ DrainCleanup(b, j) PROVE AiInv'
    BY <1>0, <1>8, RemovalsTyped, AroundSound DEF Sound, AiInv
  <1>9. CASE AroundStep
    BY <1>0, <1>9, AroundTyped, AroundSound DEF Sound, AiInv
  <1> QED BY <1>1, <1>2, <1>3, <1>4, <1>5, <1>6, <1>7, <1>8, <1>9 DEF AutoNext, AroundStep

LEMMA AutoInvariant == AutoSpec => []AiInv
  BY AutoInitInv, AutoStep, PTL DEF AutoSpec

LEMMA OneLanderHolds == AiInv => LandedByOne
  <1> SUFFICES ASSUME AiInv PROVE LandedByOne
    OBVIOUS
  <1>1. AiTypeOK
    <2>1. record \in [AiJobs -> [status : OpenRecords \cup FinalRecords, by : AiBridges \cup {NoBridge}, old : BOOLEAN]]
      BY DEF AiInv, AiTyped, Records
    <2>2. ASSUME NEW b \in AiBridges
          PROVE  /\ pendingJobs[b] \cup waiting[b] \subseteq scheduled[b] /\ scheduled[b] \subseteq finished
                 /\ turn[b].cur \cap turn[b].alone = {}
      BY DEF AiInv, AiTyped, Turning, Placed, Apart
    <2> QED BY <2>1, <2>2 DEF AiInv, AiTyped, AiTypeOK, HeadContents, CopyContents
  <1>2. OneLander
    BY DEF AiInv, Turning, ClaimKept, OneLander, Working
  <1>3. CommittedLanded
    BY DEF AiInv, ClaimsSound, CommittedLanded
  <1> QED BY <1>1, <1>2, <1>3 DEF LandedByOne

(* LandedByOne: a finished job is landed by one bridge, unless its claim    *)
(* has been half an hour old, and a job recorded as committed has had its   *)
(* reviewed content in HEAD (claimAutoIntegration, autoIntegrateQueueJob).  *)
THEOREM JobsLandOnce == AutoSpec => []LandedByOne
  BY AutoInvariant, OneLanderHolds, PTL

-----------------------------------------------------------------------------
LEMMA OutcomesStay == AiInv /\ [AutoNext]_aivars => OutcomeStays
  <1> SUFFICES ASSUME AiInv, [AutoNext]_aivars, NEW j \in AiJobs, record[j].status \in FinalRecords
               PROVE  record'[j].status = record[j].status
    BY DEF OutcomeStays
  <1>1. CASE record' = record
    BY <1>1
  <1>2. CASE \E i \in AiJobs : ClaimAges(i)
    <2>1. record[j] \in Records
      BY DEF AiInv, AiTyped
    <2>2. [record[j] EXCEPT !.old = TRUE].status = record[j].status
      BY <2>1 DEF Records
    <2> QED BY <1>2, <2>2 DEF ClaimAges, AiInv, AiTyped
  <1>3. ASSUME NEW b \in AiBridges, NEW i \in AiJobs, Claimed(b, i)
        PROVE  record'[j].status = record[j].status
    <2>1. record[j].status # "none"
      BY DEF FinalRecords
    <2> QED BY <1>3, <2>1 DEF Claimed, MayClaim, AiInv, AiTyped
  <1>4. ASSUME NEW b \in AiBridges, NEW i \in turn[b].cur,
               record' = IF HoldsClaim(b, i)
                         THEN [record EXCEPT ![i] = [status |-> turn[b].out, by |-> b, old |-> FALSE]] ELSE record
        PROVE  record'[j].status = record[j].status
    <2>1. HoldsClaim(b, i) => record[i].status = "integrating"
      BY DEF AiInv, Turning, ClaimKept, HoldsClaim
    <2> QED BY <1>4, <2>1 DEF FinalRecords, AiInv, AiTyped
  <1>5. ASSUME NEW b \in AiBridges, ClaimMember(b) \/ RenewMember(b) \/ ClaimAlone(b)
        PROVE  record' = record \/ \E i \in AiJobs : Claimed(b, i)
    BY <1>5 DEF ClaimMember, RenewMember, ClaimAlone, AiInv, AiTyped, Turns
  <1>6. ASSUME NEW b \in AiBridges, RecordOutcome(b)
        PROVE  \/ record' = record
               \/ \E i \in turn[b].cur :
                    record' = IF HoldsClaim(b, i)
                      THEN [record EXCEPT ![i] = [status |-> turn[b].out, by |-> b, old |-> FALSE]] ELSE record
    BY <1>6 DEF RecordOutcome
  <1>7. CASE UNCHANGED aivars
    BY <1>7 DEF aivars
  <1>8. \/ record' = record \/ (\E i \in AiJobs : ClaimAges(i))
        \/ \E b \in AiBridges : ClaimMember(b) \/ RenewMember(b) \/ ClaimAlone(b) \/ RecordOutcome(b)
    <2>1. ASSUME NEW b \in AiBridges,
                 \/ RescheduleOpen(b) \/ StartTurn(b) \/ EndTurn(b) \/ CheckHead(b) \/ SettleFound(b) \/ Preview(b)
                 \/ Apply(b) \/ Prepare(b) \/ Compare(b) \/ ReadHead(b) \/ MoveHead(b) \/ StoreCleanup(b)
          PROVE  record' = record
      BY <2>1 DEF RescheduleOpen, StartTurn, EndTurn, CheckHead, SettleFound, Preview, Apply, Prepare, Compare,
                  ReadHead, MoveHead, StoreCleanup
    <2>2. ASSUME NEW b \in AiBridges, NEW i \in AiJobs,
                 \/ FinishJob(b, i) \/ TimerFires(b, i) \/ SweepCommitted(b, i) \/ DrainCleanup(b, i)
          PROVE  record' = record
      BY <2>2 DEF FinishJob, TimerFires, SweepCommitted, DrainCleanup, environment
    <2>3. ASSUME NEW b \in AiBridges, AiCrash(b) \/ InstanceLease(b) PROVE record' = record
      BY <2>3 DEF AiCrash, InstanceLease
    <2>4. ASSUME NEW i \in AiJobs, EditCopy(i) \/ WriteTarget(i) PROVE record' = record
      BY <2>4 DEF EditCopy, WriteTarget
    <2>5. LockMoves => record' = record
      BY DEF LockMoves
    <2>6. CASE \E b \in AiBridges :
                 \/ RescheduleOpen(b) \/ StartTurn(b) \/ EndTurn(b) \/ ClaimMember(b) \/ RenewMember(b)
                 \/ ClaimAlone(b) \/ CheckHead(b) \/ SettleFound(b) \/ Preview(b) \/ Apply(b) \/ Prepare(b)
                 \/ Compare(b) \/ ReadHead(b) \/ MoveHead(b) \/ StoreCleanup(b) \/ RecordOutcome(b)
                 \/ AiCrash(b) \/ InstanceLease(b)
      BY <2>1, <2>3, <2>6
    <2>7. CASE \E b \in AiBridges, i \in AiJobs :
                 FinishJob(b, i) \/ TimerFires(b, i) \/ SweepCommitted(b, i) \/ DrainCleanup(b, i)
      BY <2>2, <2>7
    <2>8. CASE \E i \in AiJobs : ClaimAges(i) \/ EditCopy(i) \/ WriteTarget(i)
      BY <2>4, <2>8
    <2>9. CASE LockMoves \/ UNCHANGED aivars
      BY <1>7, <2>5, <2>9 DEF aivars
    <2> QED BY <2>6, <2>7, <2>8, <2>9 DEF AutoNext
  <1> QED BY <1>1, <1>2, <1>3, <1>4, <1>5, <1>6, <1>8

LEMMA ReviewedLand == AiInv /\ [AutoNext]_aivars => LandsReviewed
  <1> SUFFICES ASSUME AiInv, [AutoNext]_aivars, NEW b \in AiBridges,
                      turn[b].pc = "move", turn'[b].out = "committed", NEW p \in turn[b].cur
               PROVE  p \in course.creates /\ head'[p] = "job" /\ (head[p] = "other" => turn[b].seen.head[p] = "other")
    BY DEF LandsReviewed
  <1>0. turn[b] \in Turns /\ Staged(turn[b]) /\ turn[b].out = "none" /\ p \in AiJobs
    BY DEF AiInv, AiTyped, Turning, Staged, Turns
  <1>1. turn'[b] # turn[b]
    BY <1>0
  <1>2. MoveHead(b)
    <2>1. \A c \in AiBridges : ~AiCrash(c) \/ turn'[b] = turn[b] \/ turn'[b] = AtRestTurn
      BY DEF AiCrash, AiInv, AiTyped
    <2>2. AtRestTurn.out = "none"
      BY DEF AtRestTurn
    <2>3. ASSUME NEW c \in AiBridges \ {b}, NEW t, Turned(c, t) PROVE turn'[b] = turn[b]
      BY <2>3 DEF Turned
    <2>4. ASSUME NEW c \in AiBridges \ {b},
                 \/ StartTurn(c) \/ EndTurn(c) \/ ClaimMember(c) \/ RenewMember(c) \/ ClaimAlone(c) \/ CheckHead(c)
                 \/ SettleFound(c) \/ Preview(c) \/ Apply(c) \/ Prepare(c) \/ Compare(c) \/ ReadHead(c)
                 \/ MoveHead(c) \/ StoreCleanup(c) \/ RecordOutcome(c)
          PROVE  turn'[b] = turn[b]
      <3>1. \E t : Turned(c, t)
        <4>1. CASE StartTurn(c) \/ EndTurn(c) \/ ClaimMember(c) \/ RenewMember(c) \/ ClaimAlone(c)
          BY <4>1 DEF StartTurn, EndTurn, ClaimMember, RenewMember, ClaimAlone
        <4>2. CASE Preview(c) \/ Apply(c)
          BY <4>2 DEF Preview, Apply, CannotLand, Fails, FallBack, Ends
        <4>3. CASE \/ CheckHead(c) \/ SettleFound(c) \/ Prepare(c) \/ Compare(c) \/ ReadHead(c)
          BY <4>3 DEF CheckHead, SettleFound, Prepare, Compare, ReadHead
        <4>4. CASE MoveHead(c) \/ StoreCleanup(c) \/ RecordOutcome(c)
          BY <4>4 DEF MoveHead, StoreCleanup, RecordOutcome
        <4> QED BY <2>4, <4>1, <4>2, <4>3, <4>4
      <3> QED BY <2>3, <3>1
    <2>5. UNCHANGED aivars => turn'[b] = turn[b]
      BY DEF aivars
    <2>6. ~(\/ StartTurn(b) \/ EndTurn(b) \/ ClaimMember(b) \/ RenewMember(b) \/ ClaimAlone(b) \/ CheckHead(b)
            \/ SettleFound(b) \/ Preview(b) \/ Apply(b) \/ Prepare(b) \/ Compare(b) \/ ReadHead(b)
            \/ StoreCleanup(b) \/ RecordOutcome(b))
      BY DEF StartTurn, EndTurn, ClaimMember, RenewMember, ClaimAlone, CheckHead, SettleFound,
             Preview, Apply, Prepare, Compare, ReadHead, StoreCleanup, RecordOutcome
    <2>7. ASSUME NEW c \in AiBridges, NEW j \in AiJobs,
                 \/ RescheduleOpen(c) \/ InstanceLease(c) \/ FinishJob(c, j) \/ TimerFires(c, j)
                 \/ SweepCommitted(c, j) \/ DrainCleanup(c, j) \/ ClaimAges(j) \/ EditCopy(j) \/ WriteTarget(j)
                 \/ LockMoves
          PROVE  turn' = turn
      BY <2>7 DEF RescheduleOpen, InstanceLease, FinishJob, TimerFires, SweepCommitted, DrainCleanup, ClaimAges,
                  EditCopy, WriteTarget, LockMoves, environment
    <2> QED BY <1>0, <1>1, <2>1, <2>2, <2>4, <2>5, <2>6, <2>7 DEF AutoNext
  <1>3. commits = turn[b].old
    <2>1. \A t : Turned(b, t) => turn'[b] = t
      BY DEF Turned, AiInv, AiTyped
    <2>2. NotCommitted(b).out = "applied_not_committed" /\ [turn[b] EXCEPT !.old = commits].out = "none"
      BY <1>0 DEF NotCommitted, Turns
    <2> QED BY <1>2, <2>1, <2>2 DEF MoveHead
  <1>4. head'[p] = "job"
    BY <1>0, <1>2, <1>3 DEF MoveHead, Staged
  <1> QED BY <1>0, <1>3, <1>4 DEF Staged

LEMMA RemovedAfterLanding == AiInv /\ [AutoNext]_aivars => RemovedLanded
  <1> SUFFICES ASSUME AiInv, [AutoNext]_aivars, NEW j \in AiJobs, copy'[j] = "gone", copy[j] # "gone"
               PROVE  copy[j] = "job" /\ (j \in landed \/ checkout[j] = "job")
    BY DEF RemovedLanded
  <1>0. copy[j] \in {"job", "edited"}
    BY DEF AiInv, AiTyped, CopyContents
  <1>1. ASSUME NEW b \in AiBridges, SettleFound(b) PROVE copy[j] = "job" /\ j \in landed
    <2>1. j \in turn[b].cur /\ MayRemove(j)
      BY <1>1 DEF SettleFound, Removed
    <2> QED BY <1>1, <2>1 DEF MayRemove, SettleFound, AiInv, Turning, Staged
  <1>2. ASSUME NEW b \in AiBridges, NEW i \in AiJobs, SweepCommitted(b, i) PROVE copy[j] = "job" /\ j \in landed
    <2>1. i = j
      BY <1>2 DEF SweepCommitted, Removed
    <2> QED BY <1>2, <2>1 DEF SweepCommitted, MayRemove, AiInv, ClaimsSound
  <1>3. ASSUME NEW b \in AiBridges, NEW i \in AiJobs, DrainCleanup(b, i)
        PROVE  copy[j] = "job" /\ (j \in landed \/ checkout[j] = "job")
    <2>1. i = j /\ CleanupOutcome(j) = "removed" /\ task[j].status \in {"commit", "target"}
      BY <1>3 DEF DrainCleanup, Removed
    <2>2. copy[j] = "job" /\ (task[j].status = "commit" \/ task[j].at = State)
      BY <1>0, <2>1 DEF CleanupOutcome
    <2>3. State.checkout = checkout
      BY DEF State
    <2> QED BY <2>1, <2>2, <2>3 DEF AiInv, TargetSound
  <1>4. UNCHANGED aivars => copy' = copy
    BY DEF aivars
  <1>5. (\E i \in AiJobs : EditCopy(i)) => copy'[j] # "gone"
    BY <1>0 DEF EditCopy, AiInv, AiTyped
  <1>6. \/ copy' = copy \/ (\E i \in AiJobs : EditCopy(i))
        \/ \E b \in AiBridges : SettleFound(b) \/ \E i \in AiJobs : SweepCommitted(b, i) \/ DrainCleanup(b, i)
    <2>1. ASSUME NEW b \in AiBridges,
                 \/ RescheduleOpen(b) \/ StartTurn(b) \/ EndTurn(b) \/ ClaimMember(b) \/ RenewMember(b)
                 \/ ClaimAlone(b) \/ CheckHead(b) \/ Preview(b) \/ Apply(b) \/ Prepare(b)
                 \/ Compare(b) \/ ReadHead(b) \/ MoveHead(b) \/ StoreCleanup(b) \/ RecordOutcome(b)
          PROVE  copy' = copy
      BY <2>1 DEF RescheduleOpen, StartTurn, EndTurn, ClaimMember, RenewMember, ClaimAlone, CheckHead, Preview,
                  Apply, Prepare, Compare, ReadHead, MoveHead, StoreCleanup, RecordOutcome
    <2>2. ASSUME NEW b \in AiBridges, NEW i \in AiJobs, FinishJob(b, i) \/ TimerFires(b, i) PROVE copy' = copy
      BY <2>2 DEF FinishJob, TimerFires
    <2>3. ASSUME NEW b \in AiBridges, AiCrash(b) \/ InstanceLease(b) PROVE copy' = copy
      BY <2>3 DEF AiCrash, InstanceLease
    <2>4. ASSUME NEW i \in AiJobs, ClaimAges(i) \/ WriteTarget(i) PROVE copy' = copy
      BY <2>4 DEF ClaimAges, WriteTarget
    <2>5. LockMoves => copy' = copy
      BY DEF LockMoves
    <2> QED BY <1>4, <2>1, <2>2, <2>3, <2>4, <2>5 DEF AutoNext
  <1> QED BY <1>1, <1>2, <1>3, <1>5, <1>6

(* LandsReviewedWork: what lands is the reviewed content of new files and   *)
(* overwrites nothing that came into HEAD, an outcome is final, and a       *)
(* source goes only unchanged and after the target has it                   *)
(* (autoIntegrationCommitHooks, recordAutoIntegrationOutcome, drain).       *)
THEOREM ReviewedWorkLands == AutoSpec => LandsReviewedWork
  <1>1. AiInv /\ [AutoNext]_aivars => [OutcomeStays /\ LandsReviewed /\ RemovedLanded]_aivars
    BY OutcomesStay, ReviewedLand, RemovedAfterLanding
  <1> QED BY <1>1, AutoInvariant, PTL DEF AutoSpec, LandsReviewedWork
-----------------------------------------------------------------------------
(* The queue workers.                                                       *)

Claiming == {"judged", "aside", "creating"}
Stages == {"off", "starting", "first", "filing", "undo", "last", "going", "run", "tick", "check",
           "ending", "leaving", "over", "dead"} \cup Claiming
Memories == [pc : Stages, fd : BOOLEAN, drain : BOOLEAN, why : {"", "stop", "lost", "empty", "refused"},
             now : BOOLEAN, retired : BOOLEAN, left : SUBSET Lines, made : SUBSET Lines,
             prev : Workers \cup {"none"}, empty : BOOLEAN]
Lineage == [is : {"pending", "starting", "running", "stopping"}, by : Workers \cup {"none"}]
LineRows == {NoLine, ClosedLine} \cup Lineage

FilesTyped ==
    /\ presence \in Workers \cup {"none"} /\ aside \in Workers \cup {"none"}
    /\ mutex \in Workers \cup {"none"} /\ unchanged \in BOOLEAN /\ parked \in BOOLEAN
    /\ stop \in [for : Workers \cup {"none", ""}, now : BOOLEAN]
MemoryTyped == worker \in [Workers -> Memories]
LineTyped == line \in [Lines -> LineRows]
PastTyped ==
    /\ nap \in [Workers -> 0..2]
    /\ past \in [slept : [Workers -> 0..2], asked : SUBSET Workers, askedNow : SUBSET Workers,
                 owed : BOOLEAN]
    /\ past.askedNow \subseteq past.asked

(* The memory of a worker: a line it added is no longer to be added, and it *)
(* adds none before its start, and has lost nothing before its claim; a     *)
(* descriptor is open during a refresh only, and only a worker on its way   *)
(* out was refused.                                                         *)
MemoryOk(m) ==
    /\ m.made \cap m.left = {}
    /\ m.pc \in Claiming \cup {"off", "starting", "first"} => m.made = {}
    /\ m.pc \in Claiming \cup {"off"} => ~m.retired /\ m.why = ""
    /\ m.fd => m.pc \in {"first", "last", "tick"}
    /\ m.why = "refused" => m.pc = "leaving"

(* The transition section belongs to the worker in it, and a file is aside  *)
(* only while that worker decides about it.                                 *)
MutexOk ==
    /\ \A w \in Workers : mutex = w <=> worker[w].pc \in Claiming
    /\ aside # "none" => mutex # "none" /\ worker[mutex].pc = "aside"

(* Nothing names a worker before its file is created.                       *)
Unnamed(w) ==
    worker[w].pc \in {"off"} \cup Claiming => presence # w /\ aside # w /\ w \notin past.asked

(* A worker that did not sleep ten minutes has its file and knows of no     *)
(* loss; while another is in a transition there is no such worker.          *)
HoldsFile(w) ==
    /\ nap[w] <= past.slept[w]
    /\ Registered(w) /\ past.slept[w] < 2 => presence = w /\ ~worker[w].retired /\ worker[w].why # "lost"
    /\ Registered(w) /\ mutex # "none" => past.slept[w] = 2

(* A stop that was accepted for the worker is there until it was heard.     *)
HearsStop(w) ==
    w \in past.asked /\ Registered(w) /\ past.slept[w] < 2 =>
      /\ ~worker[w].drain => stop.for = w
      /\ w \in past.askedNow /\ ~worker[w].now => stop = [for |-> w, now |-> TRUE]

(* Until a worker starts its jobs, the lines it added are pending and its   *)
(* own, or closed, unless it fell behind; after a refusal all are closed.   *)
Unstarted == {"filing", "undo", "last", "going"}
KeepsLines(w) ==
    past.slept[w] = 0 =>
      /\ worker[w].pc \in Unstarted =>
           \A j \in worker[w].made : line[j] \in {ClosedLine, [is |-> "pending", by |-> w]}
      /\ worker[w].pc = "leaving" /\ worker[w].why = "refused" =>
           \A j \in worker[w].made : line[j] = ClosedLine

(* Jobs a stop left behind are parked, or their worker is about to.         *)
OwedOk ==
    past.owed => \/ parked
                 \/ \E w \in Workers : /\ worker[w].pc = "ending" /\ worker[w].why = "stop"
                                       /\ past.slept[w] = 0

WorkersInv ==
    /\ FilesTyped /\ MemoryTyped /\ LineTyped /\ PastTyped
    /\ MutexOk /\ OwedOk
    /\ \A w \in Workers : /\ MemoryOk(worker[w]) /\ Unnamed(w) /\ HoldsFile(w) /\ HearsStop(w)
                          /\ KeepsLines(w)

-----------------------------------------------------------------------------
(* What a step may do to the lines of others: a closed line stays closed,   *)
(* and a pending one of a worker that keeps up and has not started is left  *)
(* alone or closed.                                                         *)
LinesStay ==
    \A j \in Lines : line'[j] # line[j] =>
      /\ line[j] # ClosedLine
      /\ \/ line'[j] = ClosedLine
         \/ \A v \in Workers : line[j] = [is |-> "pending", by |-> v] =>
              ~Up(v) \/ nap[v] > 0 \/ worker[v].pc \notin Unstarted

(* Then the worker still has its lines as it knows them.                    *)
LEMMA LinesKept ==
    ASSUME WorkersInv, LinesStay, LineTyped', NEW v \in Workers, worker'[v] = worker[v],
           past'.slept[v] = 0 => past.slept[v] = 0
    PROVE  KeepsLines(v)'
<1> SUFFICES ASSUME past'.slept[v] = 0 PROVE KeepsLines(v)'
  BY DEF KeepsLines
<1>1. past.slept[v] = 0 /\ nap[v] = 0 /\ KeepsLines(v) /\ worker[v].made \subseteq Lines
  <2>1. worker[v] \in Memories /\ KeepsLines(v) /\ nap[v] <= past.slept[v] /\ nap[v] \in 0..2
    BY DEF WorkersInv, HoldsFile, PastTyped, MemoryTyped
  <2>2. worker[v].made \subseteq Lines
    BY <2>1 DEF Memories
  <2>3. past.slept[v] = 0
    OBVIOUS
  <2> QED BY <2>1, <2>2, <2>3
<1>2. ASSUME worker[v].pc \in Unstarted, NEW j \in worker[v].made
      PROVE  line'[j] \in {ClosedLine, [is |-> "pending", by |-> v]}
  <2>1. line[j] \in {ClosedLine, [is |-> "pending", by |-> v]}
    BY <1>1, <1>2 DEF KeepsLines
  <2>2. Up(v) /\ j \in Lines
    BY <1>1, <1>2 DEF Up, Unstarted
  <2> QED BY <1>1, <1>2, <2>1, <2>2 DEF LinesStay
<1>3. ASSUME worker[v].pc = "leaving", worker[v].why = "refused", NEW j \in worker[v].made
      PROVE  line'[j] = ClosedLine
  BY <1>1, <1>3 DEF KeepsLines, LinesStay
<1> QED BY <1>2, <1>3 DEF KeepsLines

(* A step that changes lines only.                                          *)
LEMMA LinesOnly ==
    ASSUME WorkersInv, LinesStay, LineTyped', UNCHANGED <<files, worker, nap, past>>
    PROVE  WorkersInv'
<1>1. \A v \in Workers : KeepsLines(v)'
  BY LinesKept
<1>2. FilesTyped' /\ MemoryTyped' /\ PastTyped' /\ MutexOk' /\ OwedOk'
  BY DEF WorkersInv, files, FilesTyped, MemoryTyped, PastTyped, MutexOk, OwedOk
<1>3. ASSUME NEW v \in Workers
      PROVE  MemoryOk(worker[v])' /\ Unnamed(v)' /\ HoldsFile(v)' /\ HearsStop(v)'
  BY DEF WorkersInv, files, MemoryOk, Unnamed, HoldsFile, HearsStop, Registered, Up
<1> QED BY <1>1, <1>2, <1>3 DEF WorkersInv

(* A worker that works on: it stays registered and loses nothing it knows.  *)
LEMMA WorksOn ==
    ASSUME WorkersInv, LinesStay, LineTyped', NEW w \in Workers, MemoryTyped',
           \A v \in Workers \ {w} : worker'[v] = worker[v], Registered(w),
           worker'[w].pc \in Stages \ ({"off", "over", "dead"} \cup Claiming),
           MemoryOk(worker'[w]), worker[w].drain => worker'[w].drain,
           worker[w].now => worker'[w].now,
           past.slept[w] < 2 => ~worker'[w].retired /\ worker'[w].why # "lost",
           nap' = nap \/ nap' = [nap EXCEPT ![w] = 0], unchanged' \in BOOLEAN,
           UNCHANGED <<presence, aside, mutex, stop>>, parked' \in BOOLEAN,
           past' \in [slept : {past.slept}, asked : {past.asked}, askedNow : {past.askedNow},
                      owed : BOOLEAN],
           OwedOk', KeepsLines(w)'
    PROVE  WorkersInv'
<1>0. /\ worker[w].pc \in Stages \ ({"off", "over", "dead"} \cup Claiming)
      /\ past'.slept = past.slept /\ past'.asked = past.asked /\ past'.askedNow = past.askedNow
  BY DEF Registered, Up, WorkersInv, MemoryTyped, Memories, Claiming
<1>1. FilesTyped' /\ PastTyped'
  <2>1. FilesTyped'
    BY DEF WorkersInv, FilesTyped
  <2>2. nap' \in [Workers -> 0..2]
    BY DEF WorkersInv, PastTyped
  <2> QED BY <2>1, <2>2 DEF WorkersInv, PastTyped
<1>2. MutexOk'
  <2>1. \A v \in Workers : worker'[v].pc \in Claiming <=> worker[v].pc \in Claiming
    BY <1>0
  <2>2. aside # "none" => mutex \in Workers /\ mutex # w
    BY <1>0 DEF WorkersInv, MutexOk, FilesTyped
  <2> QED BY <2>1, <2>2 DEF WorkersInv, MutexOk
<1>3. \A v \in Workers \ {w} : KeepsLines(v)'
  BY <1>0, LinesKept
<1>4. ASSUME NEW v \in Workers \ {w}
      PROVE  MemoryOk(worker'[v]) /\ Unnamed(v)' /\ HoldsFile(v)' /\ HearsStop(v)'
  <2>1. nap'[v] = nap[v]
    BY DEF WorkersInv, PastTyped
  <2> QED BY <1>0, <2>1 DEF WorkersInv, Unnamed, HoldsFile, HearsStop, Registered, Up
<1>5. Unnamed(w)'
  BY DEF Unnamed
<1>6. HoldsFile(w)'
  <2>1. nap'[w] <= past.slept[w]
    BY DEF WorkersInv, PastTyped, HoldsFile
  <2> QED BY <1>0, <2>1 DEF WorkersInv, HoldsFile, Registered, Up
<1>7. HearsStop(w)'
  BY <1>0 DEF WorkersInv, HearsStop
<1> QED BY <1>1, <1>2, <1>3, <1>4, <1>5, <1>6, <1>7 DEF WorkersInv

(* One line changes, and if it was pending with a worker that keeps up and  *)
(* has not started, it is closed.                                           *)
LEMMA OneLine ==
    ASSUME WorkersInv, NEW j \in Lines, NEW r \in LineRows, line' = [line EXCEPT ![j] = r],
           line[j] # ClosedLine,
           \/ r = ClosedLine
           \/ \A v \in Workers : line[j] = [is |-> "pending", by |-> v] =>
                ~Up(v) \/ nap[v] > 0 \/ worker[v].pc \notin Unstarted
    PROVE  LinesStay /\ LineTyped'
<1>1. LineTyped'
  BY DEF WorkersInv, LineTyped
<1>2. line'[j] = r /\ \A k \in Lines : k # j => line'[k] = line[k]
  BY DEF WorkersInv, LineTyped
<1> QED BY <1>1, <1>2 DEF LinesStay

(* A row adopted or ended by another process had an owner that fell behind. *)
LEMMA LapsedOwner ==
    ASSUME WorkersInv, NEW j \in Lines, Lapsed(j)
    PROVE  \A v \in Workers : line[j] = [is |-> "pending", by |-> v] => ~Up(v) \/ nap[v] > 0
BY DEF Lapsed, WorkersInv, PastTyped

(* The steps of rows: claims, runs, ends, adoptions and cancellations.      *)
LEMMA LineStep ==
    ASSUME WorkersInv
    PROVE  /\ \A w \in Workers, j \in Lines :
                (\/ AdoptLine(w, j) \/ StartJob(w, j) \/ JobStarts(w, j) \/ JobFinishes(w, j)
                 \/ JobStops(w, j) \/ CancelLine(w, j) \/ Interrupt(w, j)) => WorkersInv'
           /\ \A j \in Lines : AddLine(j) \/ BridgeTakes(j) => WorkersInv'
           /\ AddEnds \/ CancelPending => WorkersInv'
<1>0. /\ line \in [Lines -> LineRows] /\ ClosedLine \in LineRows
      /\ \A s \in {"pending", "starting", "running", "stopping"}, b \in Workers \cup {"none"} :
           [is |-> s, by |-> b] \in LineRows
  BY DEF WorkersInv, LineTyped, LineRows, Lineage
<1>1. ASSUME NEW w \in Workers, NEW j \in Lines, AdoptLine(w, j) PROVE WorkersInv'
  <2>1. /\ line' = [line EXCEPT ![j] = [is |-> "pending", by |-> w]] /\ line[j] # ClosedLine
        /\ Lapsed(j) /\ UNCHANGED <<files, worker, nap, past>>
    BY <1>1 DEF AdoptLine, others, ClosedLine
  <2>2. LinesStay /\ LineTyped'
    BY <1>0, <2>1, LapsedOwner, OneLine
  <2> QED BY <2>1, <2>2, LinesOnly
<1>2. ASSUME NEW w \in Workers, NEW j \in Lines, StartJob(w, j) PROVE WorkersInv'
  <2>0. [line[j] EXCEPT !.is = "starting"] = [is |-> "starting", by |-> w]
    BY <1>2 DEF StartJob
  <2>1. /\ line' = [line EXCEPT ![j] = [is |-> "starting", by |-> w]]
        /\ line[j] = [is |-> "pending", by |-> w] /\ line[j] # ClosedLine
        /\ UNCHANGED <<files, worker, nap, past>>
    <3>1. line' = [line EXCEPT ![j] = [line[j] EXCEPT !.is = "starting"]]
      BY <1>2 DEF StartJob
    <3>2. line' = [line EXCEPT ![j] = [is |-> "starting", by |-> w]]
      BY <2>0, <3>1, Zenon
    <3>3. /\ line[j] = [is |-> "pending", by |-> w] /\ line[j] # ClosedLine
          /\ UNCHANGED <<files, worker, nap, past>>
      BY <1>2 DEF StartJob, others, ClosedLine
    <3> QED BY <3>2, <3>3, Zenon
  <2>2. \A v \in Workers : line[j] = [is |-> "pending", by |-> v] => worker[v].pc \notin Unstarted
    BY <1>2, <2>1 DEF StartJob, Unstarted
  <2>3. LinesStay /\ LineTyped'
    BY <1>0, <2>1, <2>2, OneLine
  <2> QED BY <2>1, <2>3, LinesOnly
<1>3. ASSUME NEW w \in Workers, NEW j \in Lines, JobStarts(w, j) PROVE WorkersInv'
  <2>0. [line[j] EXCEPT !.is = "running"] = [is |-> "running", by |-> w]
    BY <1>3 DEF JobStarts
  <2>1. /\ line' = [line EXCEPT ![j] = [is |-> "running", by |-> w]]
        /\ line[j].is = "starting" /\ line[j] # ClosedLine
        /\ UNCHANGED <<files, worker, nap, past>>
    <3>1. line' = [line EXCEPT ![j] = [line[j] EXCEPT !.is = "running"]]
      BY <1>3 DEF JobStarts
    <3>2. line' = [line EXCEPT ![j] = [is |-> "running", by |-> w]]
      BY <2>0, <3>1, Zenon
    <3>3. /\ line[j].is = "starting" /\ line[j] # ClosedLine
          /\ UNCHANGED <<files, worker, nap, past>>
      BY <1>3 DEF JobStarts, others, ClosedLine
    <3> QED BY <3>2, <3>3, Zenon
  <2>2. LinesStay /\ LineTyped'
    <3>1. [is |-> "running", by |-> w] \in LineRows
      BY <1>0
    <3>2. \A v \in Workers : line[j] # [is |-> "pending", by |-> v]
      BY <2>1
    <3> QED BY <2>1, <3>1, <3>2, OneLine
  <2> QED BY <2>1, <2>2, LinesOnly
<1>4. ASSUME NEW j \in Lines, line[j] # ClosedLine, line' = [line EXCEPT ![j] = ClosedLine],
             UNCHANGED <<files, worker, nap, past>>
      PROVE  WorkersInv'
  BY <1>0, <1>4, OneLine, LinesOnly
<1>5. ASSUME NEW w \in Workers, NEW j \in Lines,
             JobFinishes(w, j) \/ JobStops(w, j) \/ CancelLine(w, j) \/ Interrupt(w, j)
      PROVE  WorkersInv'
  BY <1>4, <1>5 DEF JobFinishes, JobStops, CancelLine, Interrupt, others, ClosedLine
<1>6. ASSUME NEW j \in Lines, AddLine(j) PROVE WorkersInv'
  <2>1. line[j] = NoLine
    BY <1>0, <1>6 DEF AddLine, LineRows, Lineage, ClosedLine
  <2>2. [line[j] EXCEPT !.is = "pending"] = [is |-> "pending", by |-> "none"]
    BY <2>1 DEF NoLine
  <2>3. /\ line[j].is = "none" /\ line[j] # ClosedLine
        /\ line' = [line EXCEPT ![j] = [is |-> "pending", by |-> "none"]]
        /\ UNCHANGED <<files, worker, nap, past>>
    <3>1. line' = [line EXCEPT ![j] = [line[j] EXCEPT !.is = "pending"]]
      BY <1>6 DEF AddLine
    <3>2. line' = [line EXCEPT ![j] = [is |-> "pending", by |-> "none"]]
      BY <2>2, <3>1, Zenon
    <3>3. /\ line[j].is = "none" /\ line[j] # ClosedLine
          /\ UNCHANGED <<files, worker, nap, past>>
      BY <1>6 DEF AddLine, ClosedLine
    <3> QED BY <3>2, <3>3, Zenon
  <2>4. LinesStay /\ LineTyped'
    <3>1. [is |-> "pending", by |-> "none"] \in LineRows
      BY <1>0
    <3>2. \A v \in Workers : line[j] # [is |-> "pending", by |-> v]
      BY <2>3
    <3> QED BY <2>3, <3>1, <3>2, OneLine
  <2> QED BY <2>3, <2>4, LinesOnly
<1>7. ASSUME NEW j \in Lines, BridgeTakes(j) PROVE WorkersInv'
  BY <1>4, <1>7 DEF BridgeTakes, LineOpen
<1>8. ASSUME NEW j \in Lines
      PROVE  /\ Cancelled(j) \in LineRows
             /\ Cancelled(j) # line[j] =>
                  /\ line[j] # ClosedLine
                  /\ Cancelled(j) = ClosedLine \/ line[j].is # "pending"
  BY <1>0 DEF Cancelled, LineRows, Lineage, ClosedLine, NoLine
<1>9. ASSUME NEW K \in SUBSET Lines, UNCHANGED <<files, worker, nap, past>>,
             line' = [j \in Lines |-> IF j \in K THEN Cancelled(j) ELSE line[j]]
      PROVE  WorkersInv'
  <2>1. LineTyped'
    BY <1>0, <1>8, <1>9 DEF LineTyped
  <2>2. LinesStay
    BY <1>8, <1>9 DEF LinesStay
  <2> QED BY <1>9, <2>1, <2>2, LinesOnly
<1>10. ASSUME AddEnds PROVE WorkersInv'
  <2>1. CASE UNCHANGED line
    <3>1. LinesStay /\ LineTyped'
      BY <1>0, <2>1 DEF LinesStay, LineTyped
    <3> QED BY <1>10, <3>1, LinesOnly DEF AddEnds
  <2>2. CASE line' = [j \in Lines |-> IF j \in cli.made THEN Cancelled(j) ELSE line[j]]
    <3> DEFINE K == {j \in Lines : j \in cli.made}
    <3>1. line' = [j \in Lines |-> IF j \in K THEN Cancelled(j) ELSE line[j]]
      BY <2>2
    <3> QED BY <1>9, <1>10, <3>1 DEF AddEnds
  <2> QED BY <1>10, <2>1, <2>2 DEF AddEnds
<1>11. ASSUME CancelPending PROVE WorkersInv'
  <2>1. PICK K \in SUBSET {j \in Lines : line[j].is \in {"pending", "starting"}} :
          line' = [j \in Lines |-> IF j \in K THEN Cancelled(j) ELSE line[j]]
    BY <1>11 DEF CancelPending
  <2> QED BY <1>9, <1>11, <2>1 DEF CancelPending
<1> QED BY <1>1, <1>2, <1>3, <1>5, <1>6, <1>7, <1>10, <1>11

(* A worker that works on and leaves the lines alone.                       *)
LEMMA WorksQuietly ==
    ASSUME WorkersInv, UNCHANGED line, NEW w \in Workers, MemoryTyped',
           \A v \in Workers \ {w} : worker'[v] = worker[v],
           Registered(w), worker[w].pc # "ending",
           worker'[w].pc \in Stages \ ({"off", "over", "dead"} \cup Claiming),
           MemoryOk(worker'[w]), worker[w].drain => worker'[w].drain,
           worker[w].now => worker'[w].now,
           past.slept[w] < 2 => ~worker'[w].retired /\ worker'[w].why # "lost",
           worker'[w].made = worker[w].made,
           worker'[w].pc \in Unstarted => worker[w].pc \in Unstarted \/ worker[w].made = {},
           worker'[w].pc = "leaving" /\ worker'[w].why = "refused" /\ past.slept[w] = 0 =>
             \A j \in worker[w].made : line[j] = ClosedLine,
           nap' = nap \/ nap' = [nap EXCEPT ![w] = 0], unchanged' \in BOOLEAN,
           UNCHANGED <<presence, aside, mutex, stop, parked, past>>
    PROVE  WorkersInv'
<1>1. LinesStay /\ LineTyped'
  BY DEF LinesStay, WorkersInv, LineTyped
<1>2. KeepsLines(w)'
  BY DEF KeepsLines, WorkersInv
<1>3. OwedOk'
  BY DEF OwedOk, WorkersInv
<1>4. /\ parked' \in BOOLEAN
      /\ past' \in [slept : {past.slept}, asked : {past.asked}, askedNow : {past.askedNow},
                    owed : BOOLEAN]
  BY DEF WorkersInv, FilesTyped, PastTyped
<1> QED BY <1>1, <1>2, <1>3, <1>4, WorksOn

(* A worker that goes from one place to another, and nothing else.          *)
LEMMA GoesTo ==
    ASSUME WorkersInv, NEW w \in Workers, Registered(w), worker[w].pc \notin {"ending", "leaving"},
           ~worker[w].fd, NEW pc \in {"first", "undo", "last", "run", "leaving"}, Goes(w, pc),
           UNCHANGED <<files, line, nap, past>>, pc = "first" => worker[w].made = {},
           pc \in Unstarted => worker[w].pc \in Unstarted
    PROVE  WorkersInv'
<1>0. /\ worker \in [Workers -> Memories] /\ worker[w] \in Memories /\ MemoryOk(worker[w])
      /\ past.slept[w] < 2 => ~worker[w].retired /\ worker[w].why # "lost"
      /\ unchanged \in BOOLEAN /\ KeepsLines(w)
  BY DEF WorkersInv, MemoryTyped, HoldsFile, FilesTyped
<1>1. worker' = [worker EXCEPT ![w].pc = pc] /\ pc \in Stages
  BY DEF Goes, Stages
<1>2. MemoryTyped' /\ \A v \in Workers \ {w} : worker'[v] = worker[v]
  BY <1>0, <1>1 DEF MemoryTyped, Memories
<1>3. /\ worker'[w].pc = pc /\ worker'[w].fd = worker[w].fd /\ worker'[w].made = worker[w].made
      /\ worker'[w].left = worker[w].left /\ worker'[w].why = worker[w].why
      /\ worker'[w].drain = worker[w].drain /\ worker'[w].now = worker[w].now
      /\ worker'[w].retired = worker[w].retired
  BY <1>0, <1>1 DEF Memories
<1>4. worker[w].why # "refused"
  BY <1>0 DEF MemoryOk
<1>5. MemoryOk(worker'[w])
  BY <1>0, <1>3, <1>4 DEF MemoryOk, Claiming
<1>6. worker'[w].pc \in Stages \ ({"off", "over", "dead"} \cup Claiming)
  BY <1>3 DEF Stages, Claiming
<1>7. UNCHANGED <<presence, aside, mutex, stop, parked, unchanged>>
  BY DEF files
<1> QED BY <1>0, <1>2, <1>3, <1>4, <1>5, <1>6, <1>7, WorksQuietly

(* The start of a worker up to the release of its starts.                   *)
LEMMA StartStep ==
    ASSUME WorkersInv, NEW w \in Workers,
           \/ StartWorkerMode(w) \/ (\E j \in Lines : EnqueueLine(w, j)) \/ Enqueued(w)
           \/ RefuseFile(w) \/ FileRefused(w)
    PROVE  WorkersInv'
<1>0. /\ worker \in [Workers -> Memories] /\ worker[w] \in Memories /\ MemoryOk(worker[w])
      /\ past.slept[w] < 2 /\ Registered(w) => ~worker[w].retired /\ worker[w].why # "lost"
  BY DEF WorkersInv, MemoryTyped, HoldsFile
<1>1. ASSUME StartWorkerMode(w) PROVE WorkersInv'
  <2>1. worker[w].pc = "starting" /\ UNCHANGED <<files, line, nap, past>>
    BY <1>1 DEF StartWorkerMode, InStep, others
  <2>2. Registered(w) /\ ~worker[w].fd /\ worker[w].made = {}
    BY <1>0, <2>1 DEF MemoryOk, Registered, Up
  <2>3. PICK pc \in {"first", "leaving"} : Goes(w, pc)
    BY <1>1 DEF StartWorkerMode
  <2> QED BY <2>1, <2>2, <2>3, GoesTo DEF Unstarted
<1>2. ASSUME NEW pc \in {"undo", "last"}, Goes(w, pc), worker[w].pc \in {"filing", "going"},
             UNCHANGED <<files, line, others, past>>
      PROVE  WorkersInv'
  <2>1. Registered(w) /\ ~worker[w].fd /\ UNCHANGED <<files, line, nap, past>>
    BY <1>0, <1>2 DEF MemoryOk, Registered, Up, others
  <2> QED BY <1>2, <2>1, GoesTo DEF Unstarted
<1>3. ASSUME Enqueued(w) \/ RefuseFile(w) PROVE WorkersInv'
  BY <1>2, <1>3 DEF Enqueued, RefuseFile, InStep
<1>4. ASSUME FileRefused(w) PROVE WorkersInv'
  <2>1. /\ worker' = [worker EXCEPT ![w].pc = "leaving", ![w].why = "refused"]
        /\ worker[w].pc = "undo" /\ UNCHANGED <<files, line, nap, past>>
    BY <1>4 DEF FileRefused, InStep, others
  <2>2. MemoryTyped' /\ \A v \in Workers \ {w} : worker'[v] = worker[v]
    BY <1>0, <2>1 DEF MemoryTyped, Memories, Stages
  <2>3. /\ worker'[w].pc = "leaving" /\ worker'[w].why = "refused"
        /\ worker'[w].fd = worker[w].fd /\ worker'[w].made = worker[w].made
        /\ worker'[w].left = worker[w].left /\ worker'[w].drain = worker[w].drain
        /\ worker'[w].now = worker[w].now /\ worker'[w].retired = worker[w].retired
    BY <1>0, <2>1 DEF Memories
  <2>4. Registered(w) /\ MemoryOk(worker'[w])
    BY <1>0, <2>1, <2>3 DEF MemoryOk, Claiming, Registered, Up
  <2>5. past.slept[w] = 0 => \A j \in worker[w].made : line[j] = ClosedLine
    BY <1>4 DEF FileRefused, InStep, WorkersInv, KeepsLines, Unstarted
  <2>6. worker'[w].pc \in Stages \ ({"off", "over", "dead"} \cup Claiming \cup Unstarted)
    BY <2>3 DEF Stages, Claiming, Unstarted
  <2>7. UNCHANGED <<presence, aside, mutex, stop, parked, unchanged>> /\ unchanged \in BOOLEAN
    BY <2>1 DEF files, WorkersInv, FilesTyped
  <2> QED BY <1>0, <2>1, <2>2, <2>3, <2>4, <2>5, <2>6, <2>7, WorksQuietly
<1>5. ASSUME NEW j \in Lines, EnqueueLine(w, j) PROVE WorkersInv'
  <2>0. /\ worker[w].pc = "filing" /\ worker[w].pc \in Unstarted /\ Registered(w)
        /\ UNCHANGED <<files, nap, past>>
        /\ UNCHANGED <<presence, aside, mutex, stop, parked, unchanged>> /\ unchanged \in BOOLEAN
    BY <1>5 DEF EnqueueLine, InStep, others, files, WorkersInv, FilesTyped, Registered, Up, Unstarted
  <2>1. CASE line[j].is # "none"
    <3>1. worker' = [worker EXCEPT ![w].left = @ \ {j}] /\ UNCHANGED line
      BY <1>5, <2>1 DEF EnqueueLine
    <3>2. MemoryTyped' /\ \A v \in Workers \ {w} : worker'[v] = worker[v]
      BY <1>0, <3>1 DEF MemoryTyped, Memories
    <3>3. /\ worker'[w].pc = "filing" /\ worker'[w].made = worker[w].made
          /\ worker'[w].left = worker[w].left \ {j} /\ worker'[w].fd = worker[w].fd
          /\ worker'[w].why = worker[w].why /\ worker'[w].drain = worker[w].drain
          /\ worker'[w].now = worker[w].now /\ worker'[w].retired = worker[w].retired
      BY <1>0, <2>0, <3>1 DEF Memories
    <3>4. MemoryOk(worker'[w]) /\ worker'[w].pc \in Stages \ ({"off", "over", "dead"} \cup Claiming)
      BY <1>0, <2>0, <3>3 DEF MemoryOk, Claiming, Stages
    <3> QED BY <1>0, <2>0, <3>1, <3>2, <3>3, <3>4, WorksQuietly
  <2>2. CASE line[j].is = "none"
    <3> DEFINE r == [is |-> "pending", by |-> w]
    <3>1. /\ worker' = [worker EXCEPT ![w].left = @ \ {j}, ![w].made = @ \cup {j}]
          /\ line' = [line EXCEPT ![j] = r]
      BY <1>5, <2>2 DEF EnqueueLine
    <3>2. MemoryTyped' /\ \A v \in Workers \ {w} : worker'[v] = worker[v]
      BY <1>0, <3>1 DEF MemoryTyped, Memories
    <3>3. /\ worker'[w].pc = "filing" /\ worker'[w].made = worker[w].made \cup {j}
          /\ worker'[w].left = worker[w].left \ {j} /\ worker'[w].fd = worker[w].fd
          /\ worker'[w].why = worker[w].why /\ worker'[w].drain = worker[w].drain
          /\ worker'[w].now = worker[w].now /\ worker'[w].retired = worker[w].retired
      BY <1>0, <2>0, <3>1 DEF Memories
    <3>4. MemoryOk(worker'[w]) /\ worker'[w].pc \in Stages \ ({"off", "over", "dead"} \cup Claiming)
      BY <1>0, <2>0, <3>3 DEF MemoryOk, Claiming, Stages
    <3>5. LinesStay /\ LineTyped'
      <4>1. line[j] # ClosedLine /\ \A v \in Workers : line[j] # [is |-> "pending", by |-> v]
        BY <2>2 DEF ClosedLine
      <4>2. r \in LineRows
        BY DEF LineRows, Lineage
      <4> HIDE DEF r
      <4> QED BY <3>1, <4>1, <4>2, OneLine
    <3>6. KeepsLines(w)'
      <4>1. line \in [Lines -> LineRows] /\ worker[w].made \subseteq Lines
        BY <1>0 DEF WorkersInv, LineTyped, Memories
      <4>2. line'[j] = r /\ \A k \in worker[w].made \ {j} : line'[k] = line[k]
        BY <3>1, <4>1
      <4> QED BY <2>0, <3>3, <4>2 DEF KeepsLines, WorkersInv, Unstarted
    <3>7. /\ OwedOk' /\ parked' \in BOOLEAN
          /\ past' \in [slept : {past.slept}, asked : {past.asked}, askedNow : {past.askedNow},
                        owed : BOOLEAN]
      <4>1. \A v \in Workers : worker[v].pc = "ending" => worker'[v] = worker[v]
        BY <2>0, <3>2
      <4>2. parked \in BOOLEAN /\ OwedOk /\ PastTyped
        BY DEF WorkersInv, FilesTyped
      <4>3. OwedOk'
        BY <2>0, <4>1, <4>2 DEF OwedOk
      <4> QED BY <2>0, <4>2, <4>3 DEF PastTyped
    <3> QED BY <1>0, <2>0, <3>2, <3>3, <3>4, <3>5, <3>6, <3>7, WorksOn
  <2> QED BY <2>1, <2>2
<1> QED BY <1>1, <1>3, <1>4, <1>5

(* A worker in a refresh, which ends or finds its presence gone.            *)
LEMMA RefreshEnds ==
    ASSUME WorkersInv, NEW w \in Workers, Refreshing(w), RefreshDone(w)
    PROVE  /\ MemoryTyped' /\ \A v \in Workers \ {w} : worker'[v] = worker[v]
           /\ MemoryOk(worker'[w]) /\ worker'[w].made = worker[w].made
           /\ worker'[w].drain = worker[w].drain /\ worker'[w].now = worker[w].now
           /\ worker'[w].retired = worker[w].retired /\ worker'[w].why = worker[w].why
           /\ worker'[w].pc \in {"filing", "going", "check"}
           /\ worker'[w].pc \in Unstarted => worker[w].pc \in Unstarted \/ worker[w].made = {}
<1>0. worker \in [Workers -> Memories] /\ worker[w] \in Memories /\ MemoryOk(worker[w])
  BY DEF WorkersInv, MemoryTyped
<1>1. worker[w].pc \in {"first", "last", "tick"}
  BY DEF Refreshing
<1> DEFINE next == CASE worker[w].pc = "first" -> "filing" [] worker[w].pc = "last" -> "going"
                     [] OTHER -> "check"
<1>2. /\ next \in {"filing", "going", "check"} /\ next \in Stages
      /\ next = "filing" <=> worker[w].pc = "first"
      /\ next = "going" <=> worker[w].pc = "last"
  BY <1>1 DEF Stages
<1>3. worker' = [worker EXCEPT ![w].fd = FALSE, ![w].pc = next]
  BY DEF RefreshDone
<1> HIDE DEF next
<1>4. MemoryTyped' /\ \A v \in Workers \ {w} : worker'[v] = worker[v]
  BY <1>0, <1>2, <1>3 DEF MemoryTyped, Memories
<1>5. /\ worker'[w].pc = next /\ worker'[w].fd = FALSE /\ worker'[w].made = worker[w].made
      /\ worker'[w].left = worker[w].left /\ worker'[w].why = worker[w].why
      /\ worker'[w].drain = worker[w].drain /\ worker'[w].now = worker[w].now
      /\ worker'[w].retired = worker[w].retired
  BY <1>0, <1>3 DEF Memories
<1>6. MemoryOk(worker'[w])
  BY <1>0, <1>1, <1>2, <1>5 DEF MemoryOk, Claiming
<1>7. next \in Unstarted => worker[w].pc \in Unstarted \/ worker[w].made = {}
  BY <1>0, <1>1, <1>2 DEF MemoryOk, Unstarted
<1> QED BY <1>2, <1>4, <1>5, <1>6, <1>7

LEMMA LossFound ==
    ASSUME WorkersInv, NEW w \in Workers, Refreshing(w), NEW forGood \in BOOLEAN,
           PresenceLost(w, forGood)
    PROVE  /\ MemoryTyped' /\ \A v \in Workers \ {w} : worker'[v] = worker[v]
           /\ MemoryOk(worker'[w]) /\ worker'[w].made = worker[w].made
           /\ worker'[w].drain /\ worker'[w].now = worker[w].now /\ worker'[w].why = "lost"
           /\ worker'[w].pc \in {"leaving", "check"}
<1>0. worker \in [Workers -> Memories] /\ worker[w] \in Memories /\ MemoryOk(worker[w])
  BY DEF WorkersInv, MemoryTyped
<1>1. worker[w].pc \in {"first", "last", "tick"}
  BY DEF Refreshing
<1> DEFINE next == IF worker[w].pc = "tick" THEN "check" ELSE "leaving"
           m == [worker[w] EXCEPT !.fd = FALSE, !.drain = TRUE, !.why = "lost",
                   !.retired = @ \/ forGood, !.pc = next]
<1>2. next \in {"leaving", "check"} /\ next \in Stages
  BY DEF Stages
<1>3. worker' = [worker EXCEPT ![w] = m]
  BY DEF PresenceLost
<1> HIDE DEF next
<1>4. m \in Memories
  BY <1>0, <1>2 DEF Memories
<1>5. /\ m.pc = next /\ m.fd = FALSE /\ m.made = worker[w].made /\ m.left = worker[w].left
      /\ m.why = "lost" /\ m.drain = TRUE /\ m.now = worker[w].now
  BY <1>0 DEF Memories
<1> HIDE DEF m
<1>6. worker'[w] = m /\ MemoryTyped' /\ \A v \in Workers \ {w} : worker'[v] = worker[v]
  BY <1>0, <1>3, <1>4 DEF MemoryTyped
<1>7. MemoryOk(m)
  BY <1>0, <1>2, <1>5 DEF MemoryOk, Claiming
<1> QED BY <1>2, <1>5, <1>6, <1>7

LEMMA RefreshStep ==
    ASSUME WorkersInv, NEW w \in Workers, RefreshOpens(w) \/ RefreshWrites(w) \/ RefreshFails(w)
    PROVE  WorkersInv'
<1>0. /\ worker \in [Workers -> Memories] /\ worker[w] \in Memories /\ MemoryOk(worker[w])
      /\ HoldsFile(w) /\ unchanged \in BOOLEAN
  BY DEF WorkersInv, MemoryTyped, FilesTyped
<1>1. Refreshing(w) /\ worker[w].pc \in {"first", "last", "tick"} /\ Registered(w)
  BY DEF RefreshOpens, RefreshWrites, RefreshFails, Refreshing, Registered, Up
<1>2. \A pc \in {"first", "last", "tick", "filing", "going", "check", "leaving"} :
        pc \in Stages \ ({"off", "over", "dead"} \cup Claiming)
  BY DEF Stages, Claiming
<1>3. past.slept[w] < 2 => presence = w /\ ~worker[w].retired /\ worker[w].why # "lost" /\ mutex = "none"
  BY <1>0, <1>1 DEF HoldsFile
<1>4. ASSUME RefreshOpens(w) PROVE WorkersInv'
  <2>1. worker' = [worker EXCEPT ![w].fd = TRUE] /\ UNCHANGED <<files, line, nap, past>>
    BY <1>4 DEF RefreshOpens, others
  <2>2. MemoryTyped' /\ \A v \in Workers \ {w} : worker'[v] = worker[v]
    BY <1>0, <2>1 DEF MemoryTyped, Memories
  <2>3. /\ worker'[w].pc = worker[w].pc /\ worker'[w].made = worker[w].made
        /\ worker'[w].left = worker[w].left /\ worker'[w].why = worker[w].why
        /\ worker'[w].drain = worker[w].drain /\ worker'[w].now = worker[w].now
        /\ worker'[w].retired = worker[w].retired
    BY <1>0, <2>1 DEF Memories
  <2>4. MemoryOk(worker'[w])
    BY <1>0, <1>1, <2>3 DEF MemoryOk
  <2>5. /\ worker'[w].pc \in Stages \ ({"off", "over", "dead"} \cup Claiming)
        /\ worker'[w].pc # "leaving" /\ worker[w].pc # "ending"
    BY <1>1, <1>2, <2>3
  <2>6. UNCHANGED <<presence, aside, mutex, stop, parked, unchanged>>
    BY <2>1 DEF files
  <2> QED BY <1>0, <1>1, <1>3, <2>1, <2>2, <2>3, <2>4, <2>5, <2>6, WorksQuietly
<1>5. ASSUME RefreshDone(w), nap' = [nap EXCEPT ![w] = 0], unchanged' \in BOOLEAN,
             UNCHANGED <<presence, aside, mutex, stop, parked, line, past>>
      PROVE  WorkersInv'
  <2>1. /\ MemoryTyped' /\ \A v \in Workers \ {w} : worker'[v] = worker[v]
        /\ MemoryOk(worker'[w]) /\ worker'[w].made = worker[w].made
        /\ worker'[w].drain = worker[w].drain /\ worker'[w].now = worker[w].now
        /\ worker'[w].retired = worker[w].retired /\ worker'[w].why = worker[w].why
        /\ worker'[w].pc \in {"filing", "going", "check"}
        /\ worker'[w].pc \in Unstarted => worker[w].pc \in Unstarted \/ worker[w].made = {}
    BY <1>1, <1>5, RefreshEnds
  <2>2. /\ worker'[w].pc \in Stages \ ({"off", "over", "dead"} \cup Claiming)
        /\ worker'[w].pc # "leaving" /\ worker[w].pc # "ending"
    BY <1>1, <1>2, <2>1
  <2> QED BY <1>1, <1>3, <1>5, <2>1, <2>2, WorksQuietly
<1>6. ASSUME NEW forGood \in BOOLEAN, PresenceLost(w, forGood), nap' = [nap EXCEPT ![w] = 0],
             unchanged' \in BOOLEAN, ~(past.slept[w] < 2),
             UNCHANGED <<presence, aside, mutex, stop, parked, line, past>>
      PROVE  WorkersInv'
  <2>1. /\ MemoryTyped' /\ \A v \in Workers \ {w} : worker'[v] = worker[v]
        /\ MemoryOk(worker'[w]) /\ worker'[w].made = worker[w].made
        /\ worker'[w].drain /\ worker'[w].now = worker[w].now /\ worker'[w].why = "lost"
        /\ worker'[w].pc \in {"leaving", "check"}
    BY <1>1, <1>6, LossFound
  <2>2. /\ worker'[w].pc \in Stages \ ({"off", "over", "dead"} \cup Claiming)
        /\ worker[w].pc # "ending" /\ worker'[w].pc \notin Unstarted /\ worker'[w].why # "refused"
    BY <1>1, <1>2, <2>1 DEF Unstarted
  <2> QED BY <1>1, <1>6, <2>1, <2>2, WorksQuietly
<1>7. ASSUME RefreshWrites(w) PROVE WorkersInv'
  <2>1. /\ nap' = [nap EXCEPT ![w] = 0]
        /\ UNCHANGED <<presence, aside, mutex, stop, parked, line, past>>
    BY <1>7 DEF RefreshWrites, Awake
  <2>2. unchanged' \in BOOLEAN
    BY <1>0, <1>7 DEF RefreshWrites
  <2>3. CASE presence = w
    BY <1>5, <1>7, <2>1, <2>2, <2>3 DEF RefreshWrites
  <2>4. CASE presence # w
    BY <1>3, <1>6, <1>7, <2>1, <2>2, <2>4 DEF RefreshWrites
  <2> QED BY <2>3, <2>4
<1>8. ASSUME RefreshFails(w) PROVE WorkersInv'
  <2>1. /\ nap' = [nap EXCEPT ![w] = 0] /\ unchanged' \in BOOLEAN
        /\ UNCHANGED <<presence, aside, mutex, stop, parked, line, past>>
    BY <1>0, <1>8 DEF RefreshFails, Awake, files
  <2>2. ~(past.slept[w] < 2)
    BY <1>3, <1>8 DEF RefreshFails, WorkersInv, FilesTyped
  <2>3. PresenceLost(w, presence # "none") /\ (presence # "none") \in BOOLEAN
    BY <1>8 DEF RefreshFails
  <2> QED BY <1>6, <2>1, <2>2, <2>3
<1> QED BY <1>4, <1>7, <1>8

(* The check for a stop; what runs is told to stop, which closes no line.   *)
LEMMA CheckStopStep ==
    ASSUME WorkersInv, NEW w \in Workers, CheckStop(w)
    PROVE  WorkersInv'
<1> DEFINE own == presence = w /\ ~worker[w].retired
           heard == own /\ stop.for \in {w, "none"}
           now == heard /\ stop.now
           why == IF (now /\ ~worker[w].now) \/ (heard /\ ~worker[w].drain) THEN "stop"
                  ELSE worker[w].why
           empty == \A j \in Lines : ~LineOpen(j)
           drains == worker[w].drain \/ heard
           hurries == worker[w].now \/ now
           retires == worker[w].retired \/ (~own /\ stop.for # "")
           m == [worker[w] EXCEPT !.pc = "tick", !.drain = drains, !.why = why, !.now = hurries,
                   !.retired = retires, !.empty = empty]
<1>0. /\ worker \in [Workers -> Memories] /\ worker[w] \in Memories /\ MemoryOk(worker[w])
      /\ HoldsFile(w) /\ unchanged \in BOOLEAN /\ line \in [Lines -> LineRows] /\ OwedOk /\ PastTyped
      /\ parked \in BOOLEAN /\ stop.now \in BOOLEAN
  BY DEF WorkersInv, MemoryTyped, FilesTyped, LineTyped
<1>1. /\ worker[w].pc = "run" /\ worker' = [worker EXCEPT ![w] = m]
      /\ AbortRunning(w) \/ UNCHANGED line
      /\ UNCHANGED <<files, nap, past>>
  BY DEF CheckStop, InStep, others
<1>2. drains \in BOOLEAN /\ hurries \in BOOLEAN /\ retires \in BOOLEAN /\ empty \in BOOLEAN
  OBVIOUS
<1>3. /\ why \in {"stop", worker[w].why} /\ worker[w].why # "refused"
      /\ past.slept[w] < 2 => ~retires /\ worker[w].why # "lost"
      /\ worker[w].drain => drains
      /\ worker[w].now => hurries
  BY <1>0, <1>1 DEF HoldsFile, Registered, Up, MemoryOk
<1> HIDE DEF own, heard, now, why, empty, drains, hurries, retires
<1>4. m \in Memories
  <2>1. "tick" \in Stages /\ why \in {"", "stop", "lost", "empty", "refused"}
    BY <1>0, <1>3 DEF Memories, Stages
  <2> QED BY <1>0, <1>2, <2>1 DEF Memories
<1>5. /\ m.pc = "tick" /\ m.fd = worker[w].fd /\ m.made = worker[w].made
      /\ m.left = worker[w].left /\ m.why = why /\ m.drain = drains /\ m.now = hurries
      /\ m.retired = retires
  BY <1>0 DEF Memories
<1> HIDE DEF m
<1>6. worker'[w] = m /\ MemoryTyped' /\ \A v \in Workers \ {w} : worker'[v] = worker[v]
  BY <1>0, <1>1, <1>4 DEF MemoryTyped
<1>7. MemoryOk(m)
  <2>1. ~worker[w].fd /\ worker[w].made \cap worker[w].left = {}
    BY <1>0, <1>1 DEF MemoryOk
  <2> QED BY <1>3, <1>5, <2>1 DEF MemoryOk, Claiming
<1>8. LinesStay /\ LineTyped'
  <2>1. CASE UNCHANGED line
    BY <1>0, <2>1 DEF LinesStay, LineTyped
  <2>2. CASE AbortRunning(w)
    <3>1. \A j \in RunningOf(w) : /\ line[j].is \in {"running", "stopping"}
                                  /\ line[j] # ClosedLine /\ line[j] \in Lineage
      BY <1>0 DEF RunningOf, ClosedLine, LineRows, NoLine
    <3>2. \A j \in RunningOf(w) : [line[j] EXCEPT !.is = "stopping"] \in LineRows
      BY <3>1 DEF LineRows, Lineage
    <3>3. LineTyped'
      BY <1>0, <2>2, <3>2 DEF AbortRunning, LineTyped
    <3>4. LinesStay
      <4>1. \A j \in Lines : line'[j] # line[j] => j \in RunningOf(w)
        BY <2>2 DEF AbortRunning
      <4>2. \A j \in RunningOf(w), v \in Workers : line[j] # [is |-> "pending", by |-> v]
        BY <3>1
      <4> QED BY <3>1, <4>1, <4>2 DEF LinesStay
    <3> QED BY <3>3, <3>4
  <2> QED BY <1>1, <2>1, <2>2
<1>9. Registered(w) /\ KeepsLines(w)'
  BY <1>1, <1>5, <1>6 DEF Registered, Up, KeepsLines, Unstarted
<1>10. OwedOk'
  <2>1. \A v \in Workers : worker[v].pc = "ending" => worker'[v] = worker[v]
    BY <1>1, <1>6
  <2> QED BY <1>0, <1>1, <2>1 DEF OwedOk, files
<1>11. /\ parked' \in BOOLEAN /\ unchanged' \in BOOLEAN
       /\ UNCHANGED <<presence, aside, mutex, stop, nap>>
       /\ past' \in [slept : {past.slept}, asked : {past.asked}, askedNow : {past.askedNow},
                     owed : BOOLEAN]
  BY <1>0, <1>1 DEF files, PastTyped
<1>12. /\ worker'[w].pc \in Stages \ ({"off", "over", "dead"} \cup Claiming)
       /\ past.slept[w] < 2 => ~worker'[w].retired /\ worker'[w].why # "lost"
       /\ worker[w].drain => worker'[w].drain
       /\ worker[w].now => worker'[w].now
       /\ MemoryOk(worker'[w])
  BY <1>3, <1>5, <1>6, <1>7 DEF Stages, Claiming
<1> QED BY <1>5, <1>6, <1>7, <1>8, <1>9, <1>10, <1>11, <1>12, WorksOn

(* A worker that goes on, alone, from the end of its start, from the end of *)
(* a tick or from its end, with what the queue owes changed as it goes.     *)
LEMMA TurnStep ==
    ASSUME WorkersInv, NEW w \in Workers, FinishTick(w) \/ Park(w) \/ ReleaseStarts(w)
    PROVE  WorkersInv'
<1>0. /\ worker \in [Workers -> Memories] /\ worker[w] \in Memories /\ MemoryOk(worker[w])
      /\ HoldsFile(w) /\ unchanged \in BOOLEAN /\ OwedOk /\ PastTyped /\ parked \in BOOLEAN
  BY DEF WorkersInv, MemoryTyped, FilesTyped
<1>1. LinesStay /\ LineTyped' /\ UNCHANGED <<line, presence, aside, mutex, stop, nap, unchanged>>
  BY DEF FinishTick, Park, ReleaseStarts, others, files, LinesStay, WorkersInv, LineTyped
<1>2. worker[w].pc \in {"check", "ending", "going"} /\ Registered(w)
  BY DEF FinishTick, Park, ReleaseStarts, InStep, Registered, Up
<1>3. /\ past.slept[w] < 2 => ~worker[w].retired /\ worker[w].why # "lost"
      /\ ~worker[w].fd /\ worker[w].why # "refused"
  BY <1>0, <1>2 DEF HoldsFile, MemoryOk
<1>4. ASSUME NEW pc \in {"ending", "run", "leaving"}, NEW made \in {worker[w].made, {}},
             NEW why \in {worker[w].why, "empty"},
             worker' = [worker EXCEPT ![w].pc = pc, ![w].made = made, ![w].why = why],
             parked' \in BOOLEAN, NEW owed \in BOOLEAN, past' = [past EXCEPT !.owed = owed], OwedOk'
      PROVE  WorkersInv'
  <2>1. pc \in Stages /\ pc \notin {"off", "over", "dead"} \cup Claiming \cup Unstarted
    BY DEF Stages, Claiming, Unstarted
  <2>2. MemoryTyped' /\ \A v \in Workers \ {w} : worker'[v] = worker[v]
    BY <1>0, <1>4, <2>1 DEF MemoryTyped, Memories
  <2>3. /\ worker'[w].pc = pc /\ worker'[w].fd = worker[w].fd /\ worker'[w].made = made
        /\ worker'[w].left = worker[w].left /\ worker'[w].why = why
        /\ worker'[w].drain = worker[w].drain /\ worker'[w].now = worker[w].now
        /\ worker'[w].retired = worker[w].retired
    BY <1>0, <1>4 DEF Memories
  <2>4. MemoryOk(worker'[w])
    BY <1>0, <1>3, <1>4, <2>3 DEF MemoryOk, Claiming
  <2>5. KeepsLines(w)'
    BY <1>3, <2>1, <2>3 DEF KeepsLines
  <2>6. past' \in [slept : {past.slept}, asked : {past.asked}, askedNow : {past.askedNow},
                   owed : BOOLEAN]
    BY <1>0, <1>4 DEF PastTyped
  <2>7. /\ worker'[w].pc \in Stages \ ({"off", "over", "dead"} \cup Claiming)
        /\ past.slept[w] < 2 => ~worker'[w].retired /\ worker'[w].why # "lost"
        /\ unchanged' \in BOOLEAN
    BY <1>0, <1>1, <1>3, <2>1, <2>3
  <2> QED BY <1>1, <1>2, <1>4, <2>2, <2>3, <2>4, <2>5, <2>6, <2>7, WorksOn
<1>5. ASSUME FinishTick(w) PROVE WorkersInv'
  <2>1. worker[w].pc = "check" /\ UNCHANGED files
    BY <1>5 DEF FinishTick, InStep
  <2>2. \A pc \in {"ending", "run"}, why \in {worker[w].why, "empty"}, owed \in BOOLEAN :
          /\ worker' = [worker EXCEPT ![w].pc = pc, ![w].made = worker[w].made, ![w].why = why]
          /\ past' = [past EXCEPT !.owed = owed]
          /\ owed => past.owed \/ (pc = "ending" /\ why = "stop" /\ past.slept[w] = 0)
          => WorkersInv'
    <3> TAKE pc \in {"ending", "run"}, why \in {worker[w].why, "empty"}, owed \in BOOLEAN
    <3> HAVE /\ worker' = [worker EXCEPT ![w].pc = pc, ![w].made = worker[w].made, ![w].why = why]
             /\ past' = [past EXCEPT !.owed = owed]
             /\ owed => past.owed \/ (pc = "ending" /\ why = "stop" /\ past.slept[w] = 0)
    <3>1. parked' = parked /\ past'.owed = owed /\ past'.slept = past.slept
      BY <1>0, <2>1 DEF files, PastTyped
    <3>2. /\ worker'[w].pc = pc /\ worker'[w].why = why
          /\ \A v \in Workers \ {w} : worker'[v] = worker[v]
      BY <1>0 DEF Memories
    <3>3. OwedOk'
      BY <1>0, <2>1, <3>1, <3>2 DEF OwedOk
    <3> QED BY <1>0, <1>4, <3>1, <3>3
  <2> DEFINE owed == past.owed \/ ( /\ worker[w].why = "stop" /\ past.slept[w] = 0
                                   /\ \E j \in Lines : LineOpen(j))
  <2>3. CASE Goes(w, "ending") /\ past' = [past EXCEPT !.owed = owed]
    <3>1. owed \in BOOLEAN /\ (owed => past.owed \/ (worker[w].why = "stop" /\ past.slept[w] = 0))
      OBVIOUS
    <3>2. worker' = [worker EXCEPT ![w].pc = "ending", ![w].made = worker[w].made,
                                   ![w].why = worker[w].why]
      BY <1>0, <2>3 DEF Goes, Memories
    <3> HIDE DEF owed
    <3> QED BY <2>2, <2>3, <3>1, <3>2
  <2>4. past = [past EXCEPT !.owed = past.owed] /\ past.owed \in BOOLEAN
    BY <1>0 DEF PastTyped
  <2>5. CASE worker' = [worker EXCEPT ![w].pc = "ending", ![w].why = "empty"] /\ UNCHANGED past
    <3>1. worker' = [worker EXCEPT ![w].pc = "ending", ![w].made = worker[w].made,
                                   ![w].why = "empty"]
      BY <1>0, <2>5 DEF Memories
    <3> QED BY <2>2, <2>4, <2>5, <3>1
  <2>6. CASE Goes(w, "run") /\ UNCHANGED past
    <3>1. worker' = [worker EXCEPT ![w].pc = "run", ![w].made = worker[w].made,
                                   ![w].why = worker[w].why]
      BY <1>0, <2>6 DEF Goes, Memories
    <3> QED BY <2>2, <2>4, <2>6, <3>1
  <2> QED BY <1>5, <2>3, <2>5, <2>6 DEF FinishTick
<1>6. ASSUME Park(w) PROVE WorkersInv'
  <2> DEFINE open == \E j \in Lines : LineOpen(j)
             owed == past.owed /\ open
  <2>1. /\ worker[w].pc = "ending" /\ past' = [past EXCEPT !.owed = owed]
        /\ parked' = (parked \/ (worker[w].why = "stop" /\ open))
    BY <1>6 DEF Park, InStep
  <2>2. owed \in BOOLEAN /\ parked' \in BOOLEAN
    BY <2>1
  <2>3. worker' = [worker EXCEPT ![w].pc = "leaving", ![w].made = worker[w].made,
                                 ![w].why = worker[w].why]
    BY <1>0, <1>6 DEF Park, Goes, Memories
  <2>4. OwedOk'
    <3>1. past'.owed = owed /\ past'.slept = past.slept
      BY <1>0, <2>1 DEF PastTyped
    <3>2. \A v \in Workers \ {w} : worker'[v] = worker[v]
      BY <1>0, <2>3
    <3> QED BY <1>0, <2>1, <3>1, <3>2 DEF OwedOk
  <2> HIDE DEF owed
  <2> QED BY <1>4, <2>1, <2>2, <2>3, <2>4
<1>7. ASSUME ReleaseStarts(w) PROVE WorkersInv'
  <2>1. /\ parked' = FALSE /\ past' = [past EXCEPT !.owed = FALSE]
        /\ worker' = [worker EXCEPT ![w].pc = "run", ![w].made = {}]
    BY <1>7 DEF ReleaseStarts
  <2>2. worker' = [worker EXCEPT ![w].pc = "run", ![w].made = {}, ![w].why = worker[w].why]
    BY <1>0, <2>1 DEF Memories
  <2>3. OwedOk'
    BY <1>0, <2>1 DEF OwedOk, PastTyped
  <2> QED BY <1>4, <2>1, <2>2, <2>3
<1> QED BY <1>5, <1>6, <1>7

(* An accepted stop is for the worker of the presence file, which is the    *)
(* only one that can be waiting for one.                                    *)
LEMMA StopWritten ==
    ASSUME WorkersInv, NEW now \in BOOLEAN, StopWritable, WriteStop(now),
           UNCHANGED <<presence, aside, mutex, unchanged, parked, worker, line, nap>>
    PROVE  WorkersInv'
<1>0. FilesTyped /\ PastTyped /\ MemoryTyped /\ LineTyped /\ MutexOk /\ OwedOk
  BY DEF WorkersInv
<1> DEFINE stays == stop.for \in {"none", presence} /\ stop.now
           asked == past.asked \cup ({presence} \ {"none"})
           askedNow == IF now THEN past.askedNow \cup ({presence} \ {"none"}) ELSE past.askedNow
<1>1. /\ stop'.for = presence /\ stop'.now = (now \/ stays)
      /\ stop' = [for |-> presence, now |-> now \/ stays]
      /\ past' = [past EXCEPT !.asked = asked, !.askedNow = askedNow]
  BY DEF WriteStop
<1>2. /\ past'.slept = past.slept /\ past'.owed = past.owed
      /\ past'.asked = asked /\ past'.askedNow = askedNow
      /\ asked \subseteq Workers /\ askedNow \subseteq asked
  BY <1>0, <1>1 DEF PastTyped, FilesTyped
<1>3. FilesTyped' /\ PastTyped' /\ MemoryTyped' /\ LineTyped' /\ MutexOk' /\ OwedOk'
  <2>1. FilesTyped'
    BY <1>0, <1>1 DEF FilesTyped
  <2>2. PastTyped'
    BY <1>0, <1>1, <1>2 DEF PastTyped
  <2> QED BY <1>0, <1>2, <2>1, <2>2 DEF MemoryTyped, LineTyped, MutexOk, OwedOk
<1>4. ASSUME NEW v \in Workers
      PROVE  MemoryOk(worker[v])' /\ Unnamed(v)' /\ HoldsFile(v)' /\ HearsStop(v)' /\ KeepsLines(v)'
  <2>1. MemoryOk(worker[v]) /\ Unnamed(v) /\ HoldsFile(v) /\ HearsStop(v) /\ KeepsLines(v)
    BY DEF WorkersInv
  <2>2. Unnamed(v)'
    BY <1>2, <2>1 DEF Unnamed
  <2>3. HearsStop(v)'
    <3> SUFFICES ASSUME v \in past'.asked, Registered(v)', past'.slept[v] < 2
                 PROVE  /\ ~worker[v].drain => stop'.for = v
                        /\ v \in past'.askedNow /\ ~worker[v].now => stop' = [for |-> v, now |-> TRUE]
      BY DEF HearsStop
    <3>1. presence = v /\ Registered(v) /\ past.slept[v] < 2
      BY <1>2, <2>1 DEF HoldsFile, Registered, Up
    <3>2. ASSUME v \in past'.askedNow, ~worker[v].now PROVE now \/ stays
      <4>1. CASE v \in past.askedNow
        <5>1. v \in past.asked
          BY <1>0, <4>1 DEF PastTyped
        <5>2. stop = [for |-> v, now |-> TRUE]
          BY <2>1, <3>1, <3>2, <4>1, <5>1 DEF HearsStop
        <5> QED BY <3>1, <5>2
      <4>2. CASE v \notin past.askedNow
        BY <1>2, <3>2, <4>2
      <4> QED BY <4>1, <4>2
    <3> HIDE DEF stays
    <3> QED BY <1>1, <3>1, <3>2
  <2> QED BY <1>2, <2>1, <2>2, <2>3 DEF HoldsFile, KeepsLines, Registered, Up
<1> QED BY <1>3, <1>4 DEF WorkersInv

LEMMA SignalStep ==
    ASSUME WorkersInv, NEW w \in Workers, Signal(w)
    PROVE  WorkersInv'
<1>0. /\ worker \in [Workers -> Memories] /\ worker[w] \in Memories /\ MemoryOk(worker[w])
      /\ past.slept[w] < 2 /\ Registered(w) => ~worker[w].retired /\ worker[w].why # "lost"
      /\ unchanged \in BOOLEAN
  BY DEF WorkersInv, MemoryTyped, HoldsFile, FilesTyped
<1>1. /\ worker[w].pc \in {"run", "tick"} /\ ~worker[w].fd
      /\ UNCHANGED <<presence, aside, mutex, unchanged, parked, line, nap>>
  BY DEF Signal
<1>2. PICK now \in BOOLEAN :
        IF StopWritable THEN WriteStop(now) /\ UNCHANGED worker
        ELSE worker' = [worker EXCEPT ![w].drain = TRUE] /\ UNCHANGED <<stop, past>>
  BY DEF Signal
<1>3. CASE StopWritable
  BY <1>1, <1>2, <1>3, StopWritten
<1>4. CASE ~StopWritable
  <2>1. worker' = [worker EXCEPT ![w].drain = TRUE] /\ UNCHANGED <<stop, past>>
    BY <1>2, <1>4
  <2>2. MemoryTyped' /\ \A v \in Workers \ {w} : worker'[v] = worker[v]
    BY <1>0, <2>1 DEF MemoryTyped, Memories
  <2>3. /\ worker'[w].pc = worker[w].pc /\ worker'[w].made = worker[w].made
        /\ worker'[w].left = worker[w].left /\ worker'[w].why = worker[w].why
        /\ worker'[w].drain /\ worker'[w].now = worker[w].now /\ worker'[w].fd = worker[w].fd
        /\ worker'[w].retired = worker[w].retired
    BY <1>0, <2>1 DEF Memories
  <2>4. MemoryOk(worker'[w])
    BY <1>0, <1>1, <2>3 DEF MemoryOk
  <2>5. /\ worker'[w].pc \in Stages \ ({"off", "over", "dead"} \cup Claiming)
        /\ worker'[w].pc # "leaving" /\ worker[w].pc # "ending" /\ Registered(w)
    BY <1>1, <2>3 DEF Stages, Claiming, Registered, Up
  <2> QED BY <1>0, <1>1, <2>1, <2>2, <2>3, <2>4, <2>5, WorksQuietly
<1> QED BY <1>3, <1>4

(* The commands, the looks of a bridge, and a release of a parked queue.    *)
LEMMA OperatorStep ==
    ASSUME WorkersInv, Command \/ RequestStop \/ ReleaseParked \/ BridgeLooks \/ BridgeEnds
    PROVE  WorkersInv'
<1>1. ASSUME UNCHANGED <<files, worker, line, nap, past>> PROVE WorkersInv'
  <2>1. LinesStay /\ LineTyped'
    BY <1>1 DEF LinesStay, WorkersInv, LineTyped
  <2> QED BY <1>1, <2>1, LinesOnly
<1>2. ASSUME Command \/ BridgeLooks \/ BridgeEnds PROVE WorkersInv'
  BY <1>1, <1>2 DEF Command, BridgeLooks, BridgeEnds
<1>3. ASSUME RequestStop PROVE WorkersInv'
  <2>1. CASE StopWritable
    <3>1. (cli.op = "now") \in BOOLEAN
      OBVIOUS
    <3>2. WriteStop(cli.op = "now") /\ UNCHANGED <<presence, aside, mutex, unchanged, parked, worker,
                                                  line, nap>>
      BY <1>3, <2>1 DEF RequestStop
    <3> QED BY <2>1, <3>1, <3>2, StopWritten
  <2>2. CASE ~StopWritable
    BY <1>1, <1>3, <2>2 DEF RequestStop, files
  <2> QED BY <2>1, <2>2
<1>4. ASSUME ReleaseParked PROVE WorkersInv'
  <2>1. /\ parked' = FALSE /\ past' = [past EXCEPT !.owed = FALSE]
        /\ UNCHANGED <<presence, aside, mutex, unchanged, stop, worker, line, nap>>
    BY <1>4 DEF ReleaseParked
  <2>2. /\ ~past'.owed /\ past'.slept = past.slept /\ past'.asked = past.asked
        /\ past'.askedNow = past.askedNow
    BY <2>1 DEF WorkersInv, PastTyped
  <2>3. PastTyped' /\ OwedOk'
    BY <2>1, <2>2 DEF WorkersInv, PastTyped, OwedOk
  <2>4. FilesTyped' /\ MemoryTyped' /\ LineTyped' /\ MutexOk'
    BY <2>1 DEF WorkersInv, FilesTyped, MemoryTyped, LineTyped, MutexOk
  <2>5. ASSUME NEW v \in Workers
        PROVE  MemoryOk(worker[v])' /\ Unnamed(v)' /\ HoldsFile(v)' /\ HearsStop(v)' /\ KeepsLines(v)'
    <3>1. MemoryOk(worker[v]) /\ Unnamed(v) /\ HoldsFile(v) /\ HearsStop(v) /\ KeepsLines(v)
      BY DEF WorkersInv
    <3> QED BY <2>1, <2>2, <3>1 DEF Unnamed, HoldsFile, HearsStop, KeepsLines, Registered, Up
  <2> QED BY <2>3, <2>4, <2>5 DEF WorkersInv
<1> QED BY <1>2, <1>3, <1>4

(* A worker falls behind, which is remembered.                              *)
LEMMA NapStep ==
    ASSUME WorkersInv, NEW w \in Workers, Nap(w)
    PROVE  WorkersInv'
<1>0. FilesTyped /\ PastTyped /\ MemoryTyped /\ LineTyped /\ MutexOk /\ OwedOk
  BY DEF WorkersInv
<1>1. PICK n \in nap[w] + 1..2 :
        /\ nap' = [nap EXCEPT ![w] = n]
        /\ past' = [past EXCEPT !.slept[w] = IF @ < n THEN n ELSE @,
                                !.owed = @ /\ ~InStep(w, "ending")]
  BY DEF Nap
<1> DEFINE s == IF past.slept[w] < n THEN n ELSE past.slept[w]
           owed == past.owed /\ worker[w].pc # "ending"
<1>2. n \in 1..2 /\ s \in 1..2 /\ n <= s /\ past.slept[w] <= s /\ owed \in BOOLEAN
  BY <1>0, <1>1 DEF PastTyped
<1>3. past' = [past EXCEPT !.slept = [past.slept EXCEPT ![w] = s], !.owed = owed]
  BY <1>0, <1>1 DEF PastTyped, InStep
<1> HIDE DEF s, owed
<1>4. /\ past'.slept = [past.slept EXCEPT ![w] = s] /\ past'.owed = owed
      /\ past'.asked = past.asked /\ past'.askedNow = past.askedNow
      /\ UNCHANGED <<presence, aside, mutex, unchanged, stop, parked, worker, line>>
  BY <1>0, <1>3 DEF PastTyped, Nap, files
<1>5. PastTyped'
  <2>1. past'.slept \in [Workers -> 0..2] /\ nap' \in [Workers -> 0..2]
    BY <1>0, <1>1, <1>2, <1>4 DEF PastTyped
  <2> QED BY <1>0, <1>2, <1>3, <1>4, <2>1 DEF PastTyped
<1>6. /\ \A v \in Workers : past.slept[v] <= past'.slept[v] /\ nap'[v] <= past'.slept[v]
      /\ past'.slept[w] > 0 /\ \A v \in Workers \ {w} : past'.slept[v] = past.slept[v]
      /\ past.slept \in [Workers -> 0..2] /\ past'.slept \in [Workers -> 0..2]
  BY <1>0, <1>1, <1>2, <1>4 DEF PastTyped, WorkersInv, HoldsFile
<1>7. OwedOk'
  BY <1>0, <1>4, <1>6 DEF OwedOk, owed
<1>8. FilesTyped' /\ MemoryTyped' /\ LineTyped' /\ MutexOk'
  BY <1>0, <1>4 DEF FilesTyped, MemoryTyped, LineTyped, MutexOk
<1>9. ASSUME NEW v \in Workers
      PROVE  MemoryOk(worker[v])' /\ Unnamed(v)' /\ HoldsFile(v)' /\ HearsStop(v)' /\ KeepsLines(v)'
  <2>1. MemoryOk(worker[v]) /\ Unnamed(v) /\ HoldsFile(v) /\ HearsStop(v) /\ KeepsLines(v)
    BY DEF WorkersInv
  <2>2. past.slept[v] \in 0..2 /\ past'.slept[v] \in 0..2 /\ past.slept[v] <= past'.slept[v]
        /\ nap'[v] <= past'.slept[v] /\ (past'.slept[v] = 0 => past.slept[v] = 0)
    BY <1>6
  <2>3. HoldsFile(v)'
    BY <1>4, <2>1, <2>2 DEF HoldsFile, Registered, Up
  <2>4. HearsStop(v)' /\ KeepsLines(v)' /\ Unnamed(v)'
    BY <1>4, <2>1, <2>2 DEF HearsStop, KeepsLines, Unnamed, Registered, Up
  <2> QED BY <1>4, <2>1, <2>3, <2>4
<1> QED BY <1>5, <1>7, <1>8, <1>9 DEF WorkersInv

(* A step of one worker that touches the files only when no other worker    *)
(* can hold them.                                                           *)
LEMMA FilesStep ==
    ASSUME WorkersInv, NEW w \in Workers, FilesTyped', MemoryTyped', PastTyped', MutexOk', OwedOk',
           UNCHANGED line, \A v \in Workers \ {w} : worker'[v] = worker[v] /\ nap'[v] = nap[v],
           \A v \in Workers \ {w} :
             /\ past'.slept[v] = past.slept[v]
             /\ v \in past'.asked => v \in past.asked
             /\ v \in past'.askedNow => v \in past.askedNow,
           \A v \in Workers \ {w} : Registered(v) /\ past.slept[v] < 2 =>
             UNCHANGED <<presence, stop>> /\ mutex' = "none",
           presence' \in {presence, aside, w, "none"}, aside' \in {presence, aside, "none"},
           MemoryOk(worker'[w]), Unnamed(w)', HoldsFile(w)', HearsStop(w)', KeepsLines(w)'
    PROVE  WorkersInv'
<1>1. LineTyped' /\ LinesStay
  BY DEF WorkersInv, LineTyped, LinesStay
<1>2. ASSUME NEW v \in Workers \ {w}
      PROVE  MemoryOk(worker[v])' /\ Unnamed(v)' /\ HoldsFile(v)' /\ HearsStop(v)' /\ KeepsLines(v)'
  <2>1. /\ MemoryOk(worker[v]) /\ Unnamed(v) /\ HoldsFile(v) /\ HearsStop(v) /\ PastTyped
        /\ worker'[v] = worker[v] /\ nap'[v] = nap[v] /\ past'.slept[v] = past.slept[v]
        /\ v \in past'.asked => v \in past.asked
        /\ v \in past'.askedNow => v \in past.askedNow
    BY DEF WorkersInv
  <2>2. Registered(v)' <=> Registered(v)
    BY <2>1 DEF Registered, Up
  <2>3. Unnamed(v)'
    BY <2>1, QueueWorkersAssumption DEF Unnamed
  <2>4. past.slept[v] \in 0..2
    BY <2>1 DEF PastTyped
  <2>5. HoldsFile(v)'
    BY <2>1, <2>2, <2>4 DEF HoldsFile
  <2>6. HearsStop(v)'
    BY <2>1, <2>2 DEF HearsStop
  <2>7. KeepsLines(v)'
    BY <1>1, <2>1, LinesKept
  <2> QED BY <2>1, <2>3, <2>5, <2>6, <2>7
<1> QED BY <1>1, <1>2 DEF WorkersInv

(* A worker that is gone, and takes at most its own files with it.          *)
LEMMA GoneStep ==
    ASSUME WorkersInv, NEW w \in Workers, NEW pc \in {"over", "dead"}, Forget(w, pc),
           UNCHANGED <<line, parked>>,
           unchanged' \in BOOLEAN, aside' \in {aside, "none"}, mutex' \in {mutex, "none"},
           mutex' = "none" <=> mutex \in {w, "none"}, mutex = w => aside' = "none",
           mutex # w => UNCHANGED aside,
           \/ UNCHANGED <<presence, stop>>
           \/ presence = w /\ presence' = "none" /\ stop' \in {stop, NoStop}
    PROVE  WorkersInv'
<1>0. FilesTyped /\ PastTyped /\ MemoryTyped /\ LineTyped /\ MutexOk /\ OwedOk
  BY DEF WorkersInv
<1> DEFINE m == [Idle EXCEPT !.pc = pc]
           owed == past.owed /\ worker[w].pc # "ending"
           slept == [past.slept EXCEPT ![w] = 0]
<1>1. /\ m \in Memories /\ m.pc = pc /\ m.made = {} /\ m.left = {} /\ m.fd = FALSE /\ m.why = ""
  BY DEF Idle, Memories, Stages
<1>2. /\ worker' = [worker EXCEPT ![w] = m] /\ nap' = [nap EXCEPT ![w] = 0]
      /\ past' = [past EXCEPT !.slept = slept, !.asked = past.asked \ {w},
                              !.askedNow = past.askedNow \ {w}, !.owed = owed]
  BY <1>0 DEF Forget, InStep, PastTyped
<1>3. owed \in BOOLEAN /\ slept \in [Workers -> 0..2]
  BY <1>0 DEF PastTyped
<1> HIDE DEF m, owed, slept
<1>4. /\ MemoryTyped' /\ worker'[w] = m
      /\ \A v \in Workers \ {w} : worker'[v] = worker[v] /\ nap'[v] = nap[v]
      /\ nap'[w] = 0
  BY <1>0, <1>1, <1>2 DEF MemoryTyped, PastTyped
<1>5. /\ past'.slept = slept /\ past'.asked = past.asked \ {w}
      /\ past'.askedNow = past.askedNow \ {w} /\ past'.owed = owed
  BY <1>0, <1>2 DEF PastTyped
<1>6. slept[w] = 0 /\ \A v \in Workers \ {w} : slept[v] = past.slept[v]
  BY <1>0 DEF PastTyped, slept
<1>7. PastTyped'
  <2>1. nap' \in [Workers -> 0..2]
    BY <1>0, <1>2 DEF PastTyped
  <2> QED BY <1>0, <1>2, <1>3, <1>5, <2>1 DEF PastTyped
<1>8. FilesTyped'
  <2>1. NoStop \in [for : Workers \cup {"none", ""}, now : BOOLEAN]
    BY DEF NoStop
  <2>2. stop' \in {stop, NoStop} /\ presence' \in {presence, "none"}
    OBVIOUS
  <2> QED BY <1>0, <2>1, <2>2 DEF FilesTyped
<1>9. MutexOk'
  <2>1. pc \notin Claiming
    BY DEF Claiming
  <2>2. w # "none"
    BY QueueWorkersAssumption
  <2>3. mutex' # w /\ (mutex' = "none" \/ (mutex' = mutex /\ mutex # w))
    BY <2>2
  <2>4. \A v \in Workers : mutex' = v <=> worker'[v].pc \in Claiming
    <3>1. ASSUME NEW v \in Workers \ {w} PROVE mutex' = v <=> worker[v].pc \in Claiming
      <4>1. mutex = v <=> worker[v].pc \in Claiming
        BY <1>0 DEF MutexOk
      <4>2. v # "none"
        BY QueueWorkersAssumption
      <4> QED BY <4>1, <4>2, <2>2
    <3> QED BY <1>1, <1>4, <2>1, <2>3, <3>1
  <2>5. aside' # "none" => mutex' # "none" /\ worker'[mutex'].pc = "aside"
    BY <1>0, <1>4 DEF MutexOk, FilesTyped
  <2> QED BY <2>4, <2>5 DEF MutexOk
<1>10. OwedOk'
  BY <1>0, <1>4, <1>5, <1>6 DEF OwedOk, owed
<1>11. \A v \in Workers \ {w} : Registered(v) /\ past.slept[v] < 2 =>
         UNCHANGED <<presence, stop>> /\ mutex' = "none"
  BY DEF WorkersInv, HoldsFile
<1>12. /\ MemoryOk(worker'[w]) /\ Unnamed(w)' /\ HoldsFile(w)' /\ HearsStop(w)' /\ KeepsLines(w)'
  <2>1. MemoryOk(m)
    BY <1>1 DEF MemoryOk, Claiming
  <2>2. worker'[w].pc \notin {"off", "leaving"} \cup Claiming \cup Unstarted /\ ~Registered(w)'
    BY <1>1, <1>4 DEF Registered, Up, Claiming, Unstarted
  <2> QED BY <1>4, <1>5, <1>6, <2>1, <2>2 DEF Unnamed, HoldsFile, HearsStop, KeepsLines
<1>13. /\ presence' \in {presence, aside, w, "none"} /\ aside' \in {presence, aside, "none"}
       /\ \A v \in Workers \ {w} :
             /\ past'.slept[v] = past.slept[v]
             /\ v \in past'.asked => v \in past.asked
             /\ v \in past'.askedNow => v \in past.askedNow
  BY <1>5, <1>6
<1> QED BY <1>4, <1>7, <1>8, <1>9, <1>10, <1>11, <1>12, <1>13, FilesStep

LEMMA ExitStep ==
    ASSUME WorkersInv, NEW w \in Workers, Leave(w) \/ Kill(w) \/ ForcedExit(w)
    PROVE  WorkersInv'
<1>0. /\ FilesTyped /\ MutexOk /\ w # "none"
      /\ \A v \in Workers : mutex = v <=> worker[v].pc \in Claiming
  BY QueueWorkersAssumption DEF WorkersInv, MutexOk
<1>1. ASSUME ReleaseFiles(w)
      PROVE  \/ UNCHANGED <<presence, stop>>
             \/ presence = w /\ presence' = "none" /\ stop' \in {stop, NoStop}
  BY <1>1 DEF ReleaseFiles
<1>2. ASSUME Leave(w) \/ ForcedExit(w) PROVE WorkersInv'
  <2>1. worker[w].pc \notin Claiming /\ mutex # w
    BY <1>0, <1>2 DEF Leave, ForcedExit, InStep, Registered, Claiming
  <2>2. PICK pc \in {"over", "dead"} : Forget(w, pc)
    BY <1>2 DEF Leave, ForcedExit, Dies
  <2>3. ReleaseFiles(w) /\ UNCHANGED <<line, parked, unchanged, aside, mutex>> /\ unchanged \in BOOLEAN
    BY <1>0, <1>2 DEF Leave, ForcedExit, Dies, FilesTyped
  <2> QED BY <1>1, <2>1, <2>2, <2>3, GoneStep
<1>3. ASSUME Kill(w) PROVE WorkersInv'
  <2>1. Forget(w, "dead") /\ UNCHANGED <<line, parked, unchanged, presence, stop>> /\ unchanged \in BOOLEAN
    BY <1>0, <1>3 DEF Kill, Dies, FilesTyped
  <2>2. /\ mutex' = (IF mutex = w THEN "none" ELSE mutex)
        /\ aside' = (IF mutex = w THEN "none" ELSE aside)
    BY <1>3 DEF Kill
  <2> QED BY <1>0, <2>1, <2>2, GoneStep
<1> QED BY <1>2, <1>3

(* Nobody holds the file while a transition runs, without a file, or beside *)
(* one whose worker is not live.                                            *)
LEMMA NobodyHolds ==
    ASSUME WorkersInv, mutex # "none" \/ presence = "none" \/ ~Live, NEW v \in Workers, Registered(v)
    PROVE  ~(past.slept[v] < 2)
<1>1. HoldsFile(v) /\ PastTyped /\ v # "none"
  BY QueueWorkersAssumption DEF WorkersInv
<1>2. Up(v) /\ nap[v] \in 0..2 /\ past.slept[v] \in 0..2 /\ nap[v] <= past.slept[v]
  BY <1>1 DEF PastTyped, Registered, HoldsFile
<1> QED BY <1>1, <1>2 DEF HoldsFile, Live

(* A worker between its claim and the creation of its file, or out of it.   *)
LEMMA ClaimGoesOn ==
    ASSUME WorkersInv, NEW w \in Workers, worker[w].pc \in {"off"} \cup Claiming,
           NEW pc \in Claiming \cup {"over"}, NEW rest \in {{}, worker[w].left},
           NEW prev \in Workers \cup {"none"},
           worker' = [worker EXCEPT ![w].pc = pc, ![w].left = rest, ![w].prev = prev],
           UNCHANGED <<stop, parked, line, nap, past>>, unchanged' \in BOOLEAN,
           mutex' = (IF pc # "over" THEN w ELSE IF worker[w].pc = "off" THEN mutex ELSE "none"),
           worker[w].pc = "off" /\ pc # "over" => mutex = "none" /\ ~Live,
           aside' # "none" => (aside' = aside /\ mutex # w /\ mutex' = mutex) \/ pc = "aside",
           presence' = presence \/ (mutex = w /\ presence' \in {aside, "none"}),
           aside' \in {presence, aside, "none"}
    PROVE  WorkersInv'
<1>0. /\ FilesTyped /\ PastTyped /\ MemoryTyped /\ LineTyped /\ MutexOk /\ OwedOk
      /\ Unnamed(w) /\ HoldsFile(w) /\ w # "none" /\ MemoryOk(worker[w])
      /\ worker \in [Workers -> Memories] /\ worker[w] \in Memories
  BY QueueWorkersAssumption DEF WorkersInv, MemoryTyped
<1>1. pc \in Stages /\ rest \in SUBSET Lines
  BY <1>0 DEF Stages, Claiming, Memories
<1>2. MemoryTyped' /\ \A v \in Workers \ {w} : worker'[v] = worker[v] /\ nap'[v] = nap[v]
  BY <1>0, <1>1 DEF MemoryTyped, Memories
<1>3. /\ worker'[w].pc = pc /\ worker'[w].made = worker[w].made /\ worker'[w].fd = worker[w].fd
      /\ worker'[w].why = worker[w].why /\ worker'[w].retired = worker[w].retired
  BY <1>0 DEF Memories
<1>4. MemoryOk(worker'[w])
  BY <1>0, <1>3 DEF MemoryOk, Claiming
<1>5. FilesTyped' /\ PastTyped'
  BY <1>0 DEF FilesTyped, PastTyped
<1>6. \A v \in Workers : mutex = v <=> worker[v].pc \in Claiming
  BY <1>0 DEF MutexOk
<1>7. /\ mutex = w <=> worker[w].pc # "off"
      /\ pc \in Claiming <=> pc # "over"
  BY <1>6 DEF Claiming
<1>8. MutexOk'
  <2>1. ASSUME NEW v \in Workers PROVE mutex' = v <=> worker'[v].pc \in Claiming
    <3>1. v # "none"
      BY QueueWorkersAssumption
    <3>2. CASE v = w
      <4>1. pc # "over" => mutex' = w
        OBVIOUS
      <4>2. pc = "over" => mutex' # w
        BY <1>0, <1>7
      <4> QED BY <1>3, <1>7, <3>2, <4>1, <4>2
    <3>3. CASE v # w
      <4>1. mutex = v => mutex' = v
        BY <1>7, <3>1, <3>3
      <4>2. mutex' = v => mutex = v
        BY <3>1, <3>3
      <4> QED BY <1>2, <1>6, <3>3, <4>1, <4>2
    <3> QED BY <3>2, <3>3
  <2>2. aside' # "none" => mutex' # "none" /\ worker'[mutex'].pc = "aside"
    <3>1. CASE pc = "aside"
      BY <1>0, <1>3, <3>1
    <3>2. CASE aside' = aside /\ mutex # w /\ mutex' = mutex
      BY <1>0, <1>2, <3>2 DEF MutexOk, FilesTyped
    <3> QED BY <3>1, <3>2
  <2> QED BY <2>1, <2>2 DEF MutexOk
<1>9. OwedOk'
  <2>1. worker[w].pc # "ending"
    BY DEF Claiming
  <2> QED BY <1>0, <1>2, <2>1 DEF OwedOk
<1>10. ASSUME NEW v \in Workers \ {w}, Registered(v) /\ past.slept[v] < 2
       PROVE  UNCHANGED <<presence, stop>> /\ mutex' = "none"
  <2>1. mutex = "none" /\ Live
    BY <1>10, NobodyHolds
  <2>2. mutex # w /\ pc = "over"
    BY <1>0, <1>7, <2>1
  <2> QED BY <1>7, <2>1, <2>2
<1>11. Unnamed(w)'
  <2>1. presence # w /\ aside # w /\ w \notin past.asked
    BY <1>0 DEF Unnamed
  <2> QED BY <1>0, <2>1 DEF Unnamed
<1>12. HoldsFile(w)' /\ HearsStop(w)' /\ KeepsLines(w)'
  <2>1. ~Registered(w)' /\ pc \notin Unstarted \cup {"leaving"}
    BY <1>3 DEF Registered, Up, Claiming, Unstarted
  <2>2. nap[w] <= past.slept[w]
    BY <1>0 DEF HoldsFile
  <2> QED BY <1>3, <2>1, <2>2 DEF HoldsFile, HearsStop, KeepsLines
<1>13. /\ presence' \in {presence, aside, w, "none"}
       /\ \A v \in Workers \ {w} :
             /\ past'.slept[v] = past.slept[v]
             /\ v \in past'.asked => v \in past.asked
             /\ v \in past'.askedNow => v \in past.askedNow
  OBVIOUS
<1> QED BY <1>2, <1>4, <1>5, <1>8, <1>9, <1>10, <1>11, <1>12, <1>13, FilesStep

LEMMA PresenceClaimed ==
    ASSUME WorkersInv, NEW w \in Workers, ClaimPresence(w) \/ MoveAside(w) \/ TakeOver(w)
    PROVE  WorkersInv'
<1>0. /\ FilesTyped /\ MutexOk /\ w # "none" /\ worker \in [Workers -> Memories]
      /\ worker[w] \in Memories /\ worker[w].pc \in {"off"} \cup Claiming
      /\ UNCHANGED <<stop, parked, line, nap, past>>
  BY QueueWorkersAssumption
     DEF WorkersInv, MemoryTyped, ClaimPresence, MoveAside, TakeOver, InStep, Claiming, others
<1>1. mutex = w <=> worker[w].pc \in Claiming
  BY <1>0 DEF MutexOk
<1>2. /\ worker[w].prev \in Workers \cup {"none"}
      /\ {"judged", "aside", "creating"} \subseteq Claiming
  BY <1>0 DEF Memories, Claiming
<1>3. ASSUME ClaimPresence(w) PROVE WorkersInv'
  <2>1. /\ worker[w].pc = "off" /\ UNCHANGED <<presence, aside>> /\ unchanged' \in BOOLEAN
        /\ mutex # w
    BY <1>0, <1>1, <1>3 DEF ClaimPresence, InStep, Claiming, FilesTyped
  <2>2. CASE worker' = [worker EXCEPT ![w].pc = "over", ![w].left = {}] /\ UNCHANGED mutex
    <3>1. worker' = [worker EXCEPT ![w].pc = "over", ![w].left = {}, ![w].prev = worker[w].prev]
      BY <1>0, <2>2 DEF Memories
    <3> QED BY <1>0, <1>2, <2>1, <2>2, <3>1, ClaimGoesOn
  <2>3. ASSUME NEW pc \in {"creating", "judged"}, mutex = "none", ~Live, mutex' = w, Goes(w, pc)
        PROVE  WorkersInv'
    <3>1. worker' = [worker EXCEPT ![w].pc = pc, ![w].left = worker[w].left, ![w].prev = worker[w].prev]
      BY <1>0, <2>3 DEF Memories, Goes
    <3>2. pc \in Claiming /\ pc # "over" /\ aside = "none"
      BY <1>0, <2>3 DEF Claiming, MutexOk
    <3> QED BY <1>0, <1>2, <2>1, <2>3, <3>1, <3>2, ClaimGoesOn
  <2> QED BY <1>3, <2>2, <2>3 DEF ClaimPresence
<1>4. ASSUME MoveAside(w) PROVE WorkersInv'
  <2>1. /\ worker[w].pc = "judged" /\ aside' = presence /\ presence' = "none"
        /\ UNCHANGED mutex /\ unchanged' \in BOOLEAN /\ mutex = w
    BY <1>0, <1>1, <1>4 DEF MoveAside, InStep, Claiming, FilesTyped
  <2>2. worker' = [worker EXCEPT ![w].pc = "aside", ![w].left = worker[w].left,
                                 ![w].prev = worker[w].prev]
    BY <1>0, <1>4 DEF MoveAside, Goes, Memories
  <2>3. /\ "aside" \in Claiming \cup {"over"} /\ worker[w].left \in {{}, worker[w].left}
        /\ mutex' = w /\ worker[w].pc # "off" /\ presence' \in {aside, "none"}
        /\ aside' \in {presence, aside, "none"}
    BY <1>2, <2>1
  <2> QED BY <1>0, <1>2, <2>1, <2>2, <2>3, ClaimGoesOn
<1>5. ASSUME TakeOver(w) PROVE WorkersInv'
  <2>1. /\ worker[w].pc = "aside" /\ aside' = "none" /\ unchanged' \in BOOLEAN /\ mutex = w
        /\ aside \in Workers \cup {"none"}
    BY <1>0, <1>1, <1>5 DEF TakeOver, InStep, Claiming, FilesTyped
  <2>2. CASE unchanged
    <3>1. /\ worker' = [worker EXCEPT ![w].pc = "creating", ![w].left = worker[w].left,
                                      ![w].prev = aside]
          /\ UNCHANGED <<presence, mutex>>
      BY <1>0, <1>5, <2>2 DEF TakeOver, Memories
    <3>2. /\ "creating" \in Claiming \cup {"over"} /\ worker[w].left \in {{}, worker[w].left}
          /\ mutex' = w /\ worker[w].pc # "off" /\ aside' \in {presence, aside, "none"}
      BY <1>2, <2>1, <3>1
    <3> QED BY <1>0, <1>2, <2>1, <3>1, <3>2, ClaimGoesOn
  <2>3. CASE ~unchanged
    <3>1. /\ worker' = [worker EXCEPT ![w].pc = "over", ![w].left = {}, ![w].prev = worker[w].prev]
          /\ presence' = aside /\ mutex' = "none"
      BY <1>0, <1>5, <2>3 DEF TakeOver, Memories
    <3> QED BY <1>0, <1>2, <2>1, <3>1, ClaimGoesOn
  <2> QED BY <2>2, <2>3
<1> QED BY <1>3, <1>4, <1>5

(* A file created, exclusively by a claim or again by a refresh: it is the  *)
(* creator's, and nobody else held one.                                     *)
LEMMA FileCreated ==
    ASSUME WorkersInv, NEW w \in Workers, MemoryTyped',
           \A v \in Workers \ {w} : worker'[v] = worker[v] /\ nap'[v] = nap[v],
           mutex \in {w, "none"}, mutex = "none" => presence = "none", mutex' = "none", aside' = "none",
           presence' = w, stop' \in {stop, NoStop}, unchanged' \in BOOLEAN,
           UNCHANGED <<parked, line, past>>, nap' \in {nap, [nap EXCEPT ![w] = 0]},
           worker[w].pc # "ending",
           worker'[w].pc \in Stages \ ({"off", "over", "dead", "leaving"} \cup Claiming),
           MemoryOk(worker'[w]), past.slept[w] < 2 => ~worker'[w].retired /\ worker'[w].why # "lost",
           past.slept[w] < 2 => w \notin past.asked,
           past.slept[w] < 2 => worker'[w].pc \notin Unstarted
    PROVE  WorkersInv'
<1>0. /\ FilesTyped /\ PastTyped /\ MemoryTyped /\ LineTyped /\ MutexOk /\ OwedOk
      /\ HoldsFile(w) /\ w # "none" /\ nap[w] \in 0..2 /\ past.slept[w] \in 0..2
  BY QueueWorkersAssumption DEF WorkersInv, PastTyped
<1>1. FilesTyped'
  <2>1. NoStop \in [for : Workers \cup {"none", ""}, now : BOOLEAN]
    BY DEF NoStop
  <2> QED BY <1>0, <2>1 DEF FilesTyped
<1>2. PastTyped'
  BY <1>0 DEF PastTyped
<1>3. MutexOk'
  <2>1. ASSUME NEW v \in Workers PROVE v # "none" /\ worker'[v].pc \notin Claiming
    <3>1. v # "none"
      BY QueueWorkersAssumption
    <3>2. v # w => worker[v].pc \notin Claiming
      BY <3>1 DEF WorkersInv, MutexOk
    <3> QED BY <3>1, <3>2
  <2> QED BY <2>1 DEF MutexOk
<1>4. OwedOk'
  BY <1>0 DEF OwedOk
<1>5. ASSUME NEW v \in Workers \ {w}, Registered(v) /\ past.slept[v] < 2
      PROVE  UNCHANGED <<presence, stop>> /\ mutex' = "none"
  BY <1>0, <1>5, NobodyHolds
<1>6. Unnamed(w)'
  BY DEF Unnamed
<1>7. HoldsFile(w)'
  BY <1>0 DEF HoldsFile, PastTyped
<1>8. HearsStop(w)' /\ KeepsLines(w)'
  BY <1>0 DEF HearsStop, KeepsLines
<1>9. /\ presence' \in {presence, aside, w, "none"} /\ aside' \in {presence, aside, "none"}
      /\ \A v \in Workers \ {w} :
            /\ past'.slept[v] = past.slept[v]
            /\ v \in past'.asked => v \in past.asked
            /\ v \in past'.askedNow => v \in past.askedNow
  OBVIOUS
<1> QED BY <1>1, <1>2, <1>3, <1>4, <1>5, <1>6, <1>7, <1>8, <1>9, FilesStep

LEMMA CreateStep ==
    ASSUME WorkersInv, NEW w \in Workers, CreatePresence(w) \/ RefreshRecreates(w)
    PROVE  WorkersInv'
<1>0. /\ FilesTyped /\ PastTyped /\ MutexOk /\ w # "none" /\ worker \in [Workers -> Memories]
      /\ worker[w] \in Memories /\ MemoryOk(worker[w]) /\ Unnamed(w)
  BY QueueWorkersAssumption DEF WorkersInv, MemoryTyped
<1>1. ASSUME CreatePresence(w) PROVE WorkersInv'
  <2>1. /\ worker[w].pc = "creating" /\ presence' = w /\ mutex' = "none"
        /\ stop' \in {stop, NoStop} /\ UNCHANGED <<aside, unchanged, parked, line, nap, past>>
        /\ worker' = [worker EXCEPT ![w].pc = "starting", ![w].prev = "none"]
    BY <1>1 DEF CreatePresence, InStep, others
  <2>2. mutex = w /\ aside = "none" /\ w \notin past.asked
    BY <1>0, <2>1 DEF MutexOk, Unnamed, Claiming
  <2>3. MemoryTyped' /\ \A v \in Workers \ {w} : worker'[v] = worker[v] /\ nap'[v] = nap[v]
    BY <1>0, <2>1 DEF MemoryTyped, Memories, Stages
  <2>4. /\ worker'[w].pc = "starting" /\ worker'[w].made = worker[w].made
        /\ worker'[w].fd = worker[w].fd /\ worker'[w].why = worker[w].why
        /\ worker'[w].retired = worker[w].retired
    BY <1>0, <2>1 DEF Memories
  <2>5. /\ worker[w].made = {} /\ ~worker[w].fd /\ worker[w].why = "" /\ ~worker[w].retired
    BY <1>0, <2>1 DEF MemoryOk, Claiming
  <2>6. /\ MemoryOk(worker'[w]) /\ worker'[w].pc \notin Unstarted
        /\ worker'[w].pc \in Stages \ ({"off", "over", "dead", "leaving"} \cup Claiming)
    BY <2>4, <2>5 DEF MemoryOk, Claiming, Stages, Unstarted
  <2>7. /\ aside' = "none" /\ unchanged' \in BOOLEAN /\ worker[w].pc # "ending"
    BY <1>0, <2>1, <2>2 DEF FilesTyped
  <2> QED BY <1>0, <2>1, <2>2, <2>3, <2>4, <2>5, <2>6, <2>7, FileCreated
<1>2. ASSUME RefreshRecreates(w) PROVE WorkersInv'
  <2>1. /\ presence = "none" /\ mutex = "none" /\ presence' = w /\ RefreshDone(w) /\ Refreshing(w)
        /\ nap' = [nap EXCEPT ![w] = 0]
        /\ UNCHANGED <<aside, mutex, unchanged, stop, parked, line, past>>
    BY <1>2 DEF RefreshRecreates, Awake
  <2>2. Registered(w) /\ worker[w].pc # "ending" /\ aside = "none" /\ unchanged \in BOOLEAN
    BY <1>0, <2>1 DEF Refreshing, Registered, Up, MutexOk, FilesTyped
  <2>3. ~(past.slept[w] < 2)
    BY <2>1, <2>2, NobodyHolds
  <2>4. /\ MemoryTyped' /\ \A v \in Workers \ {w} : worker'[v] = worker[v]
        /\ MemoryOk(worker'[w]) /\ worker'[w].pc \in {"filing", "going", "check"}
    BY <2>1, RefreshEnds
  <2>5. worker'[w].pc \in Stages \ ({"off", "over", "dead", "leaving"} \cup Claiming)
    BY <2>4 DEF Stages, Claiming
  <2>6. \A v \in Workers \ {w} : nap'[v] = nap[v]
    BY <1>0, <2>1 DEF PastTyped
  <2> QED BY <1>0, <2>1, <2>2, <2>3, <2>4, <2>5, <2>6, FileCreated
<1> QED BY <1>1, <1>2

LEMMA WorkersInitHolds ==
    WorkersInit => WorkersInv
<1> SUFFICES ASSUME WorkersInit PROVE WorkersInv
  OBVIOUS
<1>1. FilesTyped /\ LineTyped /\ PastTyped /\ OwedOk
  <2>1. FilesTyped
    BY DEF WorkersInit, FilesTyped, NoStop
  <2>2. LineTyped
    BY DEF WorkersInit, LineTyped, LineRows
  <2>3. past = [slept |-> [w \in Workers |-> 0], asked |-> {}, askedNow |-> {}, owed |-> FALSE]
    BY DEF WorkersInit
  <2>4. nap \in [Workers -> 0..2] /\ [w \in Workers |-> 0] \in [Workers -> 0..2]
    BY DEF WorkersInit
  <2>5. PastTyped /\ OwedOk
    BY <2>3, <2>4 DEF PastTyped, OwedOk
  <2> QED BY <2>1, <2>2, <2>5
<1>2. ASSUME NEW w \in Workers
      PROVE  /\ worker[w] \in Memories /\ worker[w].pc = "off" /\ MemoryOk(worker[w])
             /\ w # "none"
  <2> DEFINE m == [Idle EXCEPT !.left = FileOf[w]]
  <2>1. FileOf[w] \in SUBSET Lines /\ w # "none"
    BY QueueWorkersAssumption
  <2>2. worker[w] = m
    BY DEF WorkersInit
  <2>3. /\ m \in Memories /\ m.pc = "off" /\ m.made = {} /\ m.fd = FALSE /\ m.why = ""
        /\ m.retired = FALSE
    BY <2>1 DEF Idle, Memories, Stages
  <2> HIDE DEF m
  <2> QED BY <2>1, <2>2, <2>3 DEF MemoryOk
<1>3. MemoryTyped /\ MutexOk
  BY <1>2 DEF MemoryTyped, MutexOk, WorkersInit, Claiming
<1>4. ASSUME NEW w \in Workers
      PROVE  Unnamed(w) /\ HoldsFile(w) /\ HearsStop(w) /\ KeepsLines(w)
  <2>1. ~Registered(w)
    BY <1>2 DEF Registered, Up
  <2> QED BY <1>2, <2>1 DEF Unnamed, HoldsFile, HearsStop, KeepsLines, Unstarted, WorkersInit
<1> QED BY <1>1, <1>2, <1>3, <1>4 DEF WorkersInv

LEMMA WorkersStep ==
    WorkersInv /\ [WorkersNext]_workervars => WorkersInv'
<1> SUFFICES ASSUME WorkersInv, [WorkersNext]_workervars PROVE WorkersInv'
  OBVIOUS
<1>1. ASSUME UNCHANGED workervars PROVE WorkersInv'
  <2>1. UNCHANGED <<files, worker, line, nap, past>>
    BY <1>1 DEF workervars
  <2>2. LinesStay /\ LineTyped'
    BY <2>1 DEF LinesStay, WorkersInv, LineTyped
  <2> QED BY <2>1, <2>2, LinesOnly
<1>2. ASSUME NEW w \in Workers, ClaimPresence(w) \/ StartUp(w) PROVE WorkersInv'
  <2>1. CASE ClaimPresence(w) \/ MoveAside(w) \/ TakeOver(w)
    BY <2>1, PresenceClaimed
  <2>2. CASE CreatePresence(w)
    BY <2>2, CreateStep
  <2>3. CASE \/ StartWorkerMode(w) \/ (\E j \in Lines : EnqueueLine(w, j)) \/ Enqueued(w)
             \/ RefuseFile(w) \/ FileRefused(w)
    BY <2>3, StartStep
  <2>4. CASE \E j \in Lines : CancelLine(w, j)
    BY <2>4, LineStep
  <2>5. CASE ReleaseStarts(w)
    BY <2>5, TurnStep
  <2> QED BY <1>2, <2>1, <2>2, <2>3, <2>4, <2>5 DEF StartUp
<1>3. ASSUME NEW w \in Workers, Tick(w) PROVE WorkersInv'
  BY <1>3, CheckStopStep, RefreshStep, CreateStep, TurnStep, ExitStep DEF Tick
<1>4. ASSUME NEW w \in Workers, Signal(w) \/ Nap(w) \/ Kill(w) \/ ForcedExit(w) PROVE WorkersInv'
  BY <1>4, SignalStep, NapStep, ExitStep
<1>5. ASSUME NEW w \in Workers, NEW j \in Lines,
             \/ AdoptLine(w, j) \/ Interrupt(w, j) \/ StartJob(w, j) \/ JobStarts(w, j)
             \/ JobFinishes(w, j) \/ JobStops(w, j)
      PROVE  WorkersInv'
  BY <1>5, LineStep
<1>6. ASSUME NEW j \in Lines, AddLine(j) \/ BridgeTakes(j) PROVE WorkersInv'
  BY <1>6, LineStep
<1>7. ASSUME \/ Command \/ RequestStop \/ ReleaseParked \/ AddEnds \/ CancelPending
             \/ BridgeLooks \/ BridgeEnds
      PROVE  WorkersInv'
  BY <1>7, LineStep, OperatorStep
<1> QED BY <1>1, <1>2, <1>3, <1>4, <1>5, <1>6, <1>7 DEF WorkersNext

-----------------------------------------------------------------------------
LEMMA WorkersPromise ==
    WorkersInv => WorkersTypeOK /\ PresenceHeld /\ StopHeld /\ RefusedLeavesNothing
<1> SUFFICES ASSUME WorkersInv PROVE WorkersTypeOK /\ PresenceHeld /\ StopHeld /\ RefusedLeavesNothing
  OBVIOUS
<1>0. FilesTyped /\ MemoryTyped /\ LineTyped /\ PastTyped /\ MutexOk
  BY DEF WorkersInv
<1>1. WorkersTypeOK
  <2>1. ASSUME NEW w \in Workers
        PROVE  /\ worker[w].made \cap worker[w].left = {}
               /\ worker[w].pc \in Stages
               /\ worker[w].fd => worker[w].pc \in {"first", "last", "tick", "dead"}
               /\ w # "none"
    <3>1. worker[w] \in Memories /\ MemoryOk(worker[w]) /\ w # "none"
      BY QueueWorkersAssumption DEF WorkersInv, MemoryTyped
    <3> QED BY <3>1 DEF Memories, MemoryOk
  <2>2. mutex # "none" <=> \E w \in Workers : worker[w].pc \in {"judged", "aside", "creating"}
    BY <1>0, <2>1 DEF MutexOk, Claiming, FilesTyped
  <2>3. \A j \in Lines :
         line[j] \in {NoLine, ClosedLine} \cup
           [is : {"pending", "starting", "running", "stopping"}, by : Workers \cup {"none"}]
    BY <1>0 DEF LineTyped, LineRows, Lineage
  <2>4. aside # "none" => mutex # "none"
    BY <1>0 DEF MutexOk
  <2>5. \A w \in Workers : worker[w].pc \in
          {"off", "judged", "aside", "creating", "starting", "first", "filing", "undo", "last",
           "going", "run", "tick", "check", "ending", "leaving", "over", "dead"}
    BY <2>1 DEF Stages, Claiming
  <2> QED BY <1>0, <2>1, <2>2, <2>3, <2>4, <2>5 DEF WorkersTypeOK, FilesTyped
<1>2. PresenceHeld /\ StopHeld
  BY <1>0 DEF PresenceHeld, StopHeld, WorkersInv, HoldsFile, HearsStop, PastTyped
<1>3. RefusedLeavesNothing
  <2> SUFFICES ASSUME NEW w \in Workers, worker[w].pc = "leaving", worker[w].why = "refused",
                      past.slept[w] = 0, NEW j \in worker[w].made
               PROVE  ~LineOpen(j)
    BY DEF RefusedLeavesNothing, InStep
  <2> QED BY DEF WorkersInv, KeepsLines, LineOpen
<1> QED BY <1>1, <1>2, <1>3

LEMMA BridgeStaysOff ==
    ASSUME WorkersInv, [WorkersNext]_workervars
    PROVE  BridgeKeepsOff
<1> SUFFICES ASSUME bridge = "idle", bridge' = "clear"
             PROVE  ~past.owed /\ \A w \in Workers : Registered(w) => past.slept[w] > 0
  BY DEF BridgeKeepsOff
<1>1. BridgeMay
  BY DEF WorkersNext, workervars, ClaimPresence, StartUp, MoveAside, TakeOver, CreatePresence,
         StartWorkerMode, EnqueueLine, Enqueued, RefuseFile, CancelLine, FileRefused, ReleaseStarts,
         Tick, CheckStop, RefreshOpens, RefreshWrites, RefreshRecreates, RefreshFails, Awake,
         FinishTick, Park, Leave, Signal, Nap, Kill, ForcedExit, Dies, AdoptLine, Interrupt, StartJob,
         JobStarts, JobFinishes, JobStops, Command, RequestStop, ReleaseParked, AddEnds,
         CancelPending, BridgeLooks, BridgeEnds, AddLine, BridgeTakes, others
<1>2. ASSUME NEW w \in Workers, Registered(w) PROVE past.slept[w] > 0
  <2>1. w # "none" /\ HoldsFile(w) /\ nap[w] \in 0..2 /\ past.slept[w] \in 0..2
    BY QueueWorkersAssumption DEF WorkersInv, PastTyped
  <2> QED BY <1>1, <1>2, <2>1 DEF HoldsFile, BridgeMay, HeartbeatFresh, Registered
<1>3. ~past.owed
  <2>1. \A w \in Workers : worker[w].pc = "ending" => Registered(w)
    BY DEF Registered, Up
  <2> QED BY <1>1, <1>2, <2>1 DEF WorkersInv, OwedOk, BridgeMay
<1> QED BY <1>2, <1>3

(* What the files of the workers promise, for every set of workers, lines   *)
(* and bounds: a worker that did not sleep ten minutes keeps its file, a    *)
(* stop waits for its worker, a refused file leaves nothing to run, and a   *)
(* bridge keeps off a queue that is owned or was parked.                    *)
THEOREM WorkersOrder ==
    WorkersInit /\ [][WorkersNext]_workervars => WorkersKeepOrder
<1>1. WorkersInv /\ [WorkersNext]_workervars =>
        [WorkersTypeOK' /\ PresenceHeld' /\ StopHeld' /\ RefusedLeavesNothing'
         /\ BridgeKeepsOff]_workervars
  <2> SUFFICES ASSUME WorkersInv, [WorkersNext]_workervars
               PROVE  /\ WorkersTypeOK' /\ PresenceHeld' /\ StopHeld' /\ RefusedLeavesNothing'
                      /\ BridgeKeepsOff
    OBVIOUS
  <2>1. WorkersInv'
    BY WorkersStep
  <2>2. (WorkersTypeOK /\ PresenceHeld /\ StopHeld /\ RefusedLeavesNothing)'
    BY <2>1, WorkersPromise, PTL
  <2> QED BY <2>2, BridgeStaysOff
<1> QED BY <1>1, WorkersInitHolds, WorkersStep, PTL DEF WorkersKeepOrder
=============================================================================
