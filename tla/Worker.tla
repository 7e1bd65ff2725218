------------------------------- MODULE Worker -------------------------------
(***************************************************************************)
(* The worker object of the daemon (src/pdo/daemon/worker.py): the events, *)
(* the last result, the job, and the beginning and end of the thread that  *)
(* runs it.  What the thread does between them is the job's own module     *)
(* (Optimizing, Importing, Exporting).                                     *)
(***************************************************************************)
EXTENDS Store

CONSTANT RetryChoices   \* the selections of error groups clients retry

ASSUME RetryAssumption == RetryChoices \subseteq (SUBSET RetryableKinds) \ {{}}

VARIABLES
    pauseEv, stopEv,  \* _pause_event, _stop_event
    lastResult,       \* _last_result
    activeStage,      \* _active_stage
    job,              \* what the closure given to the thread does
    pc                \* where the thread is; "dead": no thread is alive

events    == <<pauseEv, stopEv>>
workerMem == <<pauseEv, stopEv, lastResult, activeStage, job>>

JobKinds == {"none", "optimize", "retry", "append", "replace", "corrections", "export"}

Jobs == [kind : JobKinds, groups : SUBSET RetryableKinds, file : Files \cup {NoFile},
         scope : Scopes]

NoJob          == [kind |-> "none", groups |-> {}, file |-> NoFile, scope |-> "done"]
OptimizeJob    == [NoJob EXCEPT !.kind = "optimize"]
RetryJob(g)    == [NoJob EXCEPT !.kind = "retry", !.groups = g]
ImportJob(k,f) == [NoJob EXCEPT !.kind = k, !.file = f]
ExportJob(s)   == [NoJob EXCEPT !.kind = "export", !.scope = s]

\* The dict a client reads: counts for an optimization, one count otherwise.
ResultKinds == {"none", "error", "optimized", "imported", "corrected", "exported"}
Results     == [kind : ResultKinds, total : Nat, done : Nat, error : Nat]
Result(k, t, d, e) == [kind |-> k, total |-> t, done |-> d, error |-> e]
NoResult    == Result("none", 0, 0, 0)
ErrorResult == Result("error", 0, 0, 0)

StageOf(kind) == CASE kind \in {"optimize", "retry"} -> "optimizing"
                   [] kind = "export"                -> "exporting"
                   [] OTHER                          -> "importing"

FirstStep(kind) == CASE kind = "optimize"              -> "opt_stage"
                     [] kind = "retry"                 -> "requeue"
                     [] kind = "append"                -> "imp_open"
                     [] kind = "replace"               -> "staging"
                     [] kind = "corrections"           -> "cor_read"
                     [] kind = "export"                -> "exp_open"

WorkerSteps   == {"dead", "abort", "abort_stage", "finally", "exiting"}
OptimizeSteps == {"requeue", "opt_stage", "opt_progress", "opt_next", "next_in_try", "check",
                  "hold", "recheck", "claim", "missing", "pace", "unclaim", "call", "save",
                  "save_error", "opt_idle", "opt_result"}
ImportSteps   == {"imp_open", "imp_headers", "imp_mappings", "imp_stage", "imp_rows",
                  "imp_idle", "imp_result", "staging", "replace", "cor_read", "cor_apply"}
ExportSteps   == {"exp_open", "exp_stage", "exp_write", "exp_page", "exp_publish",
                  "exp_idle", "exp_failed", "exp_done", "exp_result"}

WorkerTypeOK ==
    /\ pauseEv \in BOOLEAN
    /\ stopEv \in BOOLEAN
    /\ lastResult \in Results
    /\ activeStage \in Stages \cup {None}
    /\ job \in Jobs
    /\ pc \in WorkerSteps \cup OptimizeSteps \cup ImportSteps \cup ExportSteps

WorkerInit ==
    /\ pauseEv = FALSE
    /\ stopEv = FALSE
    /\ lastResult = NoResult
    /\ activeStage = None
    /\ job = NoJob
    /\ pc = "dead"

Busy == pc # "dead"
-----------------------------------------------------------------------------
(***************************************************************************)
(* Called by the server's thread                                           *)
(***************************************************************************)

\* _start_thread, behind the caller's own change of the pause event.
StartThread(j) ==
    /\ ~Busy
    /\ stopEv' = FALSE
    /\ lastResult' = NoResult
    /\ activeStage' = StageOf(j.kind)
    /\ job' = j
    /\ pc' = FirstStep(j.kind)

\* start_optimization, up to the optimizer that cannot be created.
OptimizerUnavailable ==
    /\ ~Busy
    /\ pauseEv' = FALSE
    /\ stopEv' = FALSE
    /\ UNCHANGED <<lastResult, activeStage, job, pc>>

WorkerReset ==
    /\ pauseEv' = FALSE
    /\ stopEv' = FALSE
    /\ lastResult' = NoResult
    /\ UNCHANGED <<activeStage, job, pc>>
-----------------------------------------------------------------------------
(***************************************************************************)
(* The worker's thread                                                     *)
(***************************************************************************)

\* The job hands its result over and returns.
Finish(result) == lastResult' = result /\ pc' = "finally" /\ UNCHANGED <<events, activeStage, job>>

Go(step) == pc' = step /\ UNCHANGED workerMem

\* except Exception: keep the error as the result ...
Abort ==
    /\ pc = "abort"
    /\ lastResult' = ErrorResult
    /\ pc' = "abort_stage"
    /\ UNCHANGED <<store, events, activeStage, job>>

\* Defect: the stage of the failed job stays.
AbortKeepsStage ==
    /\ pc = "abort_stage"
    /\ UNCHANGED store
    /\ Go("finally")

\* ... and the pipeline idle; when that raises too, the exception ends the thread.
AbortStage ==
    /\ pc = "abort_stage"
    /\ SetStage("idle") \/ Raises
    /\ Go("finally")

\* finally: _active_stage = None
Finally ==
    /\ pc = "finally"
    /\ activeStage' = None
    /\ pc' = "exiting"
    /\ UNCHANGED <<store, events, lastResult, job>>

ThreadEnds ==
    /\ pc = "exiting"
    /\ pc' = "dead"
    /\ UNCHANGED <<store, workerMem>>
=============================================================================
