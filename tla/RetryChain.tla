----------------------------- MODULE RetryChain -----------------------------
(***************************************************************************)
(* The retry policy of queued jobs (lib/queue/retry.js): a job that failed *)
(* or was interrupted is requeued as a new job on the next model, or given *)
(* up.  The decision is taken by the owner of the job or by a recovery     *)
(* pass of any bridge, so two bridges may decide at once, an operator may  *)
(* requeue by hand meanwhile, and a decision may be cut off at any step.   *)
(***************************************************************************)
EXTENDS Integers, FiniteSets

CONSTANTS
    Bridges,     \* processes that decide
    Operator,    \* a process with requeue_opencode_job
    ModelCount,  \* length of the policy's models
    Budgets,     \* records [attempts, slot, pauses, infra]: the limits of a policy
    Acting,      \* which processes act in a behaviour
    MaxJobs,     \* bound: rows
    MaxRequeues, \* bound, for each of Acting: a job this far down the chain does not fail
    MaxDrops     \* bound: decisions cut off by a crash or a database error

ASSUME RetryAssumption ==
    /\ ModelCount \in Nat \ {0} /\ MaxJobs \in Nat \ {0} /\ MaxDrops \in Nat
    /\ Budgets \subseteq [attempts : Nat \ {0}, slot : Nat, pauses : Nat, infra : Nat]
    /\ Operator \notin Bridges /\ Acting \subseteq SUBSET (Bridges \cup {Operator})

VARIABLES
    budget,      \* maxAttempts and the RETRY_POLICY_MAX_ constants
    resume,      \* CODEX_OPENCODE_AUTO_RESUME_INTERRUPTED
    jobs,        \* the queue rows of one chain, oldest first
    active,      \* the processes that act in this behaviour
    decision,    \* [at, job, model] of each process
    drops

retryvars == <<budget, resume, active, jobs, decision, drops>>

Chain == 1..MaxJobs
PolicyModels == 0..(ModelCount - 1)
Deciders == Bridges \cup {Operator}
Waits == {"slot", "pauses", "infra"}
NoRetryJob ==
    [status |-> "none", model |-> 0, err |-> "none", attempt |-> 1, slot |-> 0, pauses |-> 0, infra |-> 0,
     seq |-> 0, from |-> 0, as |-> 0, outcome |-> "none", deferred |-> FALSE, orphan |-> FALSE,
     hops |-> 0, spent |-> 0]
FirstCounts == [attempt |-> 1, slot |-> 0, pauses |-> 0, infra |-> 0]
Undecided == [at |-> "idle", job |-> 1, model |-> 0]

(* hops and spent are history: automatic requeues, and agent runs that      *)
(* count, since the job was enqueued or requeued by hand.                   *)
RetryTypeOK ==
    /\ \A j \in Chain :
         /\ jobs[j].status \in {"none", "queued", "completed", "failed", "interrupted", "cancelled"}
         /\ jobs[j].attempt \in 1..budget.attempts /\ jobs[j].spent < jobs[j].attempt
         /\ \A w \in Waits : jobs[j][w] \in 0..budget[w]
         /\ jobs[j].as \in 0..MaxJobs /\ jobs[j].model \in PolicyModels
    /\ \A d \in Deciders :
         decision[d].at \in {"idle", "requeue", "enqueue", "mark", "settle"} /\ decision[d].job \in Chain
    /\ drops \in 0..MaxDrops

RetryInit ==
    /\ budget \in Budgets /\ resume \in BOOLEAN
    /\ jobs = [j \in Chain |-> IF j = 1 THEN [NoRetryJob EXCEPT !.status = "queued"] ELSE NoRetryJob]
    /\ active \in Acting
    /\ decision = [d \in Deciders |-> Undecided]
    /\ drops = 0

-----------------------------------------------------------------------------
(* The end of a job, as the worker or the recovery pass commits it.  err:   *)
(* "real" another model may help; "slot" and "pauses" no slot, the agent    *)
(* never started; "limited" a rate limit before any output; "infra" the     *)
(* role was not attested; "fatal" nothing a retry would help.               *)
Ends(j, how, error, alive) ==
    jobs' = [jobs EXCEPT ![j] = [@ EXCEPT !.status = how, !.err = error, !.orphan = alive]]

JobEnds(j) ==
    /\ jobs[j].status = "queued"
    /\ \/ \E how \in {"completed", "cancelled"} : Ends(j, how, "none", FALSE)
       \/ Ends(j, "failed", "fatal", FALSE)
       \/ /\ jobs[j].seq < MaxRequeues[active]
          /\ \/ \E error \in {"real", "slot", "pauses", "limited", "infra"} : Ends(j, "failed", error, FALSE)
             \/ \E alive \in BOOLEAN : Ends(j, "interrupted", "real", alive)
    /\ UNCHANGED <<budget, resume, active, decision, drops>>

OrphanDies(j) ==
    /\ jobs[j].orphan
    /\ jobs' = [jobs EXCEPT ![j].orphan = FALSE]
    /\ UNCHANGED <<budget, resume, active, decision, drops>>

-----------------------------------------------------------------------------
Unsettled(j) == jobs[j].as = 0 /\ jobs[j].outcome = "none"
Retriable(j) == jobs[j].status \in {"failed", "interrupted"} /\ Unsettled(j)

(* Mutant: a rate limit before any output is not counted as anything.       *)
WaitOfForgets(j) ==
    CASE jobs[j].err = "slot" /\ jobs[j].slot < budget.slot -> "slot"
      [] jobs[j].err = "pauses" /\ jobs[j].pauses < budget.pauses -> "pauses"
      [] jobs[j].err = "infra" /\ jobs[j].infra < budget.infra -> "infra"
      [] jobs[j].err = "limited" -> "free"
      [] OTHER -> "none"

(* Which wait the failure counts as; none, and it is an attempt.            *)
WaitOf(j) ==
    CASE jobs[j].err = "slot" /\ jobs[j].slot < budget.slot -> "slot"
      [] jobs[j].err \in {"pauses", "limited"} /\ jobs[j].pauses < budget.pauses -> "pauses"
      [] jobs[j].err = "infra" /\ jobs[j].infra < budget.infra -> "infra"
      [] OTHER -> "none"

NextCounts(j) ==
    LET wait == WaitOf(j) IN
    [attempt |-> jobs[j].attempt + (IF wait = "none" THEN 1 ELSE 0),
     slot |-> jobs[j].slot + (IF wait = "slot" THEN 1 ELSE 0),
     pauses |-> jobs[j].pauses + (IF wait = "pauses" THEN 1 ELSE 0),
     infra |-> jobs[j].infra + (IF wait = "infra" THEN 1 ELSE 0)]

(* An error another model or another try can fix.                           *)
Eligible(j) ==
    jobs[j].err \in {"real", "slot", "pauses", "limited"} \/ (jobs[j].err = "infra" /\ WaitOf(j) = "infra")

(* chooseRetryModel: the next model in order without a pause at the moment; *)
(* when all are paused the one whose pause ends first; the first if the     *)
(* pauses cannot be read.  A role that was not attested keeps its model.    *)
NextModels(j) ==
    LET tried == jobs[j].attempt + (IF WaitOf(j) = "none" THEN 0 ELSE jobs[j].slot + jobs[j].pauses)
        after(n) == (n + tried) % ModelCount
        firstFree(paused, n) ==
            /\ after(n) \notin paused
            /\ \A k \in PolicyModels : after(k) \notin paused => n <= k
    IN {m \in PolicyModels :
          IF WaitOf(j) = "infra" THEN m = jobs[j].model
          ELSE \E paused \in SUBSET PolicyModels :
                 paused = PolicyModels \/ \E n \in PolicyModels : m = after(n) /\ firstFree(paused, n)}

Goes(d, at) ==
    decision' = [decision EXCEPT ![d] = IF at = "idle" THEN Undecided ELSE [@ EXCEPT !.at = at]]

(* The owner's commit asks once, the recovery pass whenever a decision is   *)
(* open; it leaves a job alone whose earlier process is still alive.        *)
Due(j) == Retriable(j) /\ ~(jobs[j].deferred /\ jobs[j].orphan)

(* applyQueueRetryPolicy up to its first write.                             *)
Decide(d, j) ==
    /\ d \in Bridges \cap active /\ decision[d].at = "idle" /\ Due(j)
    /\ IF (jobs[j].status = "interrupted" /\ ~resume) \/ ~Eligible(j)
            \/ (WaitOf(j) = "none" /\ jobs[j].attempt >= budget.attempts)
       THEN decision' = [decision EXCEPT ![d] = [Undecided EXCEPT !.at = "settle", !.job = j]]
       ELSE \E m \in NextModels(j) :
              decision' = [decision EXCEPT ![d] = [at |-> "requeue", job |-> j, model |-> m]]
    /\ UNCHANGED <<budget, resume, active, jobs, drops>>

(* requeue_opencode_job: a job that ended without success, on any model of  *)
(* the policy; the count starts again.                                      *)
RequeueByHand(j) ==
    /\ Operator \in active /\ decision[Operator].at = "idle" /\ jobs[j].seq < MaxRequeues[active]
    /\ jobs[j].status \in {"failed", "interrupted", "cancelled"}
    /\ \E m \in PolicyModels :
         decision' = [decision EXCEPT ![Operator] = [at |-> "requeue", job |-> j, model |-> m]]
    /\ UNCHANGED <<budget, resume, active, jobs, drops>>

(* requeueQueueJob reads the row again.                                     *)
Requeue(d) ==
    LET j == decision[d].job IN
    /\ decision[d].at = "requeue"
    /\ IF jobs[j].as # 0 THEN Goes(d, "idle") /\ UNCHANGED jobs
       ELSE IF jobs[j].orphan
       THEN /\ Goes(d, "idle")
            /\ jobs' = IF d \in Bridges /\ Unsettled(j) THEN [jobs EXCEPT ![j].deferred = TRUE] ELSE jobs
       ELSE Goes(d, "enqueue") /\ UNCHANGED jobs
    /\ UNCHANGED <<budget, resume, active, drops>>

WithKey(key) == {k \in Chain : jobs[k].status # "none" /\ jobs[k].seq = key}
FreeRows == {k \in Chain : jobs[k].status = "none"}

InsertJob(d, j) ==
    LET byHand == d = Operator
        counts == IF byHand THEN FirstCounts ELSE NextCounts(j)
    IN
    \E k \in FreeRows :
      /\ \A i \in FreeRows : k <= i
      /\ jobs' = [jobs EXCEPT ![k] =
           [status |-> "queued", model |-> decision[d].model, err |-> "none",
            attempt |-> counts.attempt, slot |-> counts.slot, pauses |-> counts.pauses,
            infra |-> counts.infra, seq |-> jobs[j].seq + 1, from |-> j, as |-> 0,
            outcome |-> "none", deferred |-> FALSE, orphan |-> FALSE,
            hops |-> IF byHand THEN 0 ELSE jobs[j].hops + 1,
            spent |-> IF byHand THEN 0 ELSE jobs[j].spent + (IF jobs[j].err = "real" THEN 1 ELSE 0)]]

(* enqueueQueueJob under the key <original>:requeue:<n>: the same request   *)
(* is the same job, another model under that key is a conflict, on which    *)
(* the policy gives up.                                                     *)
Enqueue(d) ==
    LET j == decision[d].job
        same == WithKey(jobs[j].seq + 1)
    IN
    /\ decision[d].at = "enqueue"
    /\ \/ same = {} /\ InsertJob(d, j) /\ Goes(d, "mark")
       \/ /\ \E k \in same : jobs[k].model = decision[d].model
          /\ Goes(d, "mark") /\ UNCHANGED jobs
       \/ /\ \E k \in same : jobs[k].model # decision[d].model
          /\ Goes(d, IF d = Operator THEN "idle" ELSE "settle") /\ UNCHANGED jobs
    /\ UNCHANGED <<budget, resume, active, drops>>

(* markQueueJobRequeued: one guarded update of the terminal row.            *)
Mark(d) ==
    LET j == decision[d].job IN
    /\ decision[d].at = "mark"
    /\ \E k \in WithKey(jobs[j].seq + 1) :
         /\ jobs[k].from = j
         /\ jobs' = IF jobs[j].as = 0
                    THEN [jobs EXCEPT ![j] = [@ EXCEPT !.as = k, !.outcome = "requeued", !.deferred = FALSE]]
                    ELSE jobs
    /\ Goes(d, "idle")
    /\ UNCHANGED <<budget, resume, active, drops>>

(* settle, giveUp: unless somebody else settled it.                         *)
Settle(d) ==
    LET j == decision[d].job IN
    /\ decision[d].at = "settle"
    /\ jobs' = IF Retriable(j)
               THEN [jobs EXCEPT ![j] = [@ EXCEPT !.outcome = "ended", !.deferred = FALSE]] ELSE jobs
    /\ Goes(d, "idle")
    /\ UNCHANGED <<budget, resume, active, drops>>

(* A crash or an error of the database: the row keeps what it has.          *)
DropDecision(d) ==
    /\ decision[d].at # "idle" /\ drops < MaxDrops
    /\ drops' = drops + 1
    /\ Goes(d, "idle")
    /\ UNCHANGED <<budget, resume, active, jobs>>

DecisionStep(d) == Requeue(d) \/ Enqueue(d) \/ Mark(d) \/ Settle(d)

RetryNext ==
    \/ \E j \in Chain : JobEnds(j) \/ OrphanDies(j) \/ RequeueByHand(j)
    \/ \E d \in Deciders : DecisionStep(d) \/ DropDecision(d) \/ \E j \in Chain : Decide(d, j)

(* The policy's work goes on: begun decisions, the recovery pass of some    *)
(* bridge, and the end of a process left behind.                            *)
PolicyStep ==
    \/ \E d \in Bridges : DecisionStep(d) \/ \E j \in Chain : Decide(d, j)
    \/ \E j \in Chain : OrphanDies(j)

RetryFairness == WF_retryvars(PolicyStep)

RetrySpec == RetryInit /\ [][RetryNext]_retryvars /\ RetryFairness

-----------------------------------------------------------------------------
(* However decisions race or are repeated, a job has one successor.         *)
OneSuccessor == \A j, k \in Chain : jobs[j].from = jobs[k].from /\ jobs[j].from # 0 => j = k

(* A chain of automatic requeues is bounded by the policy, whatever mix of  *)
(* failures it meets, and counts every agent run that failed.               *)
WithinBudget ==
    \A j \in Chain : jobs[j].hops <= budget.attempts - 1 + budget.slot + budget.pauses + budget.infra

(* A failure under a policy is not forgotten: it gets a successor or a      *)
(* recorded end, across crashes and deferrals, and the chain comes to rest. *)
DecisionSettles == <>[](\A j \in Chain : ~Retriable(j))

(* The chain of jobs a policy makes is one chain, within the policy's       *)
(* limits (applyQueueRetryPolicy).                                          *)
ChainBounded == RetryTypeOK /\ OneSuccessor /\ WithinBudget
=============================================================================
