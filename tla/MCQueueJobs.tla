---------------------------- MODULE MCQueueJobs ----------------------------
(* Small instances of QueueJobs: two bridge processes, one job or a batch of two.           *)
EXTENDS QueueJobs, TLC

CONSTANTS a, b, x, y

TwoInst == {a, b}
OneJob == {x}
TwoJobs == {x, y}

BatchSymmetry == Permutations(TwoInst) \cup Permutations(TwoJobs)
=============================================================================
