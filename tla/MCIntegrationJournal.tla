------------------------ MODULE MCIntegrationJournal ------------------------
(* Instances of IntegrationJournal for TLC.                                *)
EXTENDS IntegrationJournal, TLC

CONSTANTS p1, p2, o1, o2, f1, f2

TwoProcs == {p1, p2}
OneOper  == {o1}
TwoOpers == {o1, o2}
OneFile  == {f1}
TwoFiles == {f1, f2}

AllKinds   == {"edit", "discard", "commit", "reset", "abort", "crash", "flaky"}
EditKinds  == {"edit"}
AbortKinds == {"abort"}

Symmetry == Permutations(Proc) \cup Permutations(Oper) \cup Permutations(File)
=============================================================================
