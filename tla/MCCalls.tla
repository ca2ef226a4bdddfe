------------------------------ MODULE MCCalls ------------------------------
(* Small instances of the parts around agent runs: a job or a parallel call (JobGroup) and   *)
(* the retry policy of a queued job (RetryChain).  They share no state; one of them moves in *)
(* a behaviour and the others are at rest.                                                   *)
EXTENDS JobGroup, RetryChain

CONSTANTS b1, b2, op

TwoBridges == {b1, b2}
MCActing == {{b1, b2}, {b1, op}, {b1}}
MCRequeues == [a \in MCActing |-> IF a = {b1} THEN 3 ELSE 1]
MCBudgets ==
    {[attempts |-> 2, slot |-> 0, pauses |-> 0, infra |-> 0],
     [attempts |-> 1, slot |-> 1, pauses |-> 1, infra |-> 0],
     [attempts |-> 1, slot |-> 0, pauses |-> 0, infra |-> 1]}

GroupAtRest ==
    /\ single = TRUE /\ isolated = FALSE /\ role = [m \in Members |-> "writer"]
    /\ phase = [m \in Members |-> "over"]
    /\ arrived = [b \in Barriers |-> Members] /\ stopped = FALSE /\ verified = FALSE
    /\ lock = [m \in Members |-> "none"] /\ lost = [m \in Members |-> FALSE]
    /\ agent = [m \in Members |-> "none"] /\ doubtful = [m \in Members |-> FALSE]
    /\ disk = [t \in Members \cup {"checkout"} |-> {}]
    /\ wrote = [m \in Members |-> {}] /\ base = [m \in Members |-> {}]
    /\ changed = [m \in Members |-> {}] /\ failed = [m \in Members |-> TRUE]
    /\ snapshot = [m \in Members |-> [at |-> 0, files |-> {}]]
    /\ passes = [m \in Members |-> 0] /\ removed = [m \in Members |-> FALSE]

RetryAtRest ==
    /\ budget = [attempts |-> 1, slot |-> 0, pauses |-> 0, infra |-> 0] /\ resume = FALSE
    /\ active = {b1} /\ drops = 0
    /\ jobs = [j \in Chain |-> IF j = 1 THEN [NoRetryJob EXCEPT !.status = "completed"] ELSE NoRetryJob]
    /\ decision = [d \in Deciders |-> Undecided]

CallsInit ==
    \/ GroupInit /\ RetryAtRest
    \/ RetryInit /\ GroupAtRest

CallsNext ==
    \/ GroupNext /\ UNCHANGED retryvars
    \/ RetryNext /\ UNCHANGED jobgroupvars

CallsSpec ==
    CallsInit /\ [][CallsNext]_<<jobgroupvars, retryvars>> /\ GroupFairness /\ RetryFairness

(* Every call ends with its locks settled (lib/parallel-coordinator.js), and every failure   *)
(* under a retry policy gets a successor or a recorded end (lib/queue/retry.js).             *)
CallsEnd == GroupEnds /\ DecisionSettles
=============================================================================
