--------------------------- MODULE MCTraceIngress ---------------------------
(* Small instances of TraceIngress for TLC.                                 *)
EXTENDS TraceIngress, TLC

CONSTANTS g1, h1

E(ev, cmd) == [ev |-> ev, cmd |-> cmd]

\* A commit (g1) that starts another git process (h1).
Family == [p \in Procs |-> IF p = h1 THEN g1 ELSE p]
Commit == <<E("start", "other"), E("exit", "none"), E("atexit", "none")>>

\* The process it starts only reads, and names its repository.
Reader == <<E("start", "readonly"), E("def_repo", "none"), E("atexit", "none")>>
CommitAndReader == [p \in Procs |-> IF p = h1 THEN Reader ELSE Commit]
=============================================================================
