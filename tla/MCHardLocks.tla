---------------------------- MODULE MCHardLocks ----------------------------
(* Small instances of HardLocks: a repository with a directory, two files of it and an      *)
(* unrelated file, and the requests of the bridge's callers on them.                        *)
EXTENDS HardLocks

MCDir  == <<"lib">>
MCFile == <<"lib", "a">>
MCOther == <<"doc">>
MCPath == {Repo, MCDir, MCFile, MCOther}

Req(kind, mode, paths, edits) ==
    [kind |-> kind, mode |-> mode, paths |-> paths, edits |-> edits]

(* The finalizer with a reading queue job, a manual writer and an integration.              *)
MCFinalizer ==
    {Req("finalizer", "read", {Repo}, TRUE),
     Req("queue", "read", {MCDir}, TRUE),
     Req("manual", "write", {MCOther}, TRUE),
     Req("integration", "serial_integration", {MCFile}, TRUE)}

=============================================================================
