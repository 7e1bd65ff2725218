---------------------------- MODULE MCLifecycle -----------------------------
(***************************************************************************)
(* Small instances of the lifecycle for TLC.                               *)
(***************************************************************************)
EXTENDS Lifecycle, TLC

\* Daemons are alike; the clients are not: one of them is a desktop application.
AlikeProcs == Permutations(Procs)
=============================================================================
