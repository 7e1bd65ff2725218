------------------------------- MODULE Daemon -------------------------------
(***************************************************************************)
(* The daemon process: the server's thread (src/pdo/daemon/server.py),     *)
(* which answers one request at a time, and the worker's thread, which     *)
(* runs one job at a time, over the database they share.  The two threads  *)
(* interleave at every database call and every access to the worker's      *)
(* events and fields.  The process may be killed between any two steps and *)
(* be started again.                                                       *)
(***************************************************************************)
EXTENDS Optimizing, Importing, Exporting

CONSTANTS
    Requests,    \* the requests clients send
    MaxRows,     \* bound: rows an append may grow the table to
    MaxOverruns, \* bound: waits for the worker that end by their timeout
    MaxCrashes   \* bound: kills of the process

ASSUME BoundsAssumption ==
    /\ MaxRows \in Nat
    /\ MaxOverruns \in Nat
    /\ MaxCrashes \in Nat

VARIABLES
    spc,       \* where the server's thread is
    goal,      \* what it stops the worker for
    view,      \* the status reply it puts together
    overruns,  \* timed-out waits for the worker so far
    crashes    \* kills so far

server == <<spc, goal, view>>
bounds == <<overruns, crashes>>
vars   == <<store, workerMem, pc, optVars, impVars, expVars, server, bounds>>

ServerSteps ==
    {"down", "serve", "stop_set", "stop_unpause", "stop_join", "worker_reset", "db_reset",
     "close", "closed", "status_pipeline", "status_busy", "status_stage", "status_result",
     "status_sent"}

Goals == {"none", "reset", "keep", "quit"}

\* The fields of a status reply that the two threads can disagree about.
Views  == [progress : [total : Nat, done : Nat, error : Nat], pipeline : Stages,
           busy : BOOLEAN, stage : Stages, result : Results]
NoView == [progress |-> NoTally, pipeline |-> "idle", busy |-> FALSE, stage |-> "idle",
           result |-> NoResult]

TypeOK ==
    /\ StoreTypeOK
    /\ WorkerTypeOK
    /\ OptimizingTypeOK
    /\ ImportingTypeOK
    /\ ExportingTypeOK
    /\ spc \in ServerSteps
    /\ goal \in Goals
    /\ view \in Views
    /\ overruns \in 0..MaxOverruns
    /\ crashes \in 0..MaxCrashes

FramesInit == OptFrameInit /\ loaded = 0 /\ ExpFrameInit
Fresh      == FreshOptFrame /\ loaded' = 0 /\ FreshExpFrame

Init ==
    /\ StoreInit
    /\ WorkerInit
    /\ FramesInit
    /\ claims = 0
    /\ disk = NoExport /\ before = NoExport
    /\ spc = "serve"
    /\ goal = "none"
    /\ view = NoView
    /\ overruns = 0
    /\ crashes = 0
-----------------------------------------------------------------------------
(***************************************************************************)
(* Requests that start a job or answer "Worker is busy", which changes     *)
(* nothing.  A worker seen dead stays dead until this thread starts it     *)
(* again, so the checks of is_busy and the start are one step.             *)
(***************************************************************************)

jobFrames == <<optVars, impVars, expVars>>

Serving(request) == spc = "serve" /\ request \in Requests

Optimize(j) ==
    /\ \/ StartThread(j) /\ pauseEv' = FALSE
       \/ OptimizerUnavailable
    /\ UNCHANGED <<store, jobFrames, server, bounds>>

HandleOptimize == Serving("optimize") /\ Optimize(OptimizeJob)

HandleRetry == Serving("retry") /\ \E g \in RetryChoices : Optimize(RetryJob(g))

HandleImport ==
    /\ \E kind \in {"append", "replace", "corrections"}, f \in Files :
           /\ Serving(kind)
           /\ kind = "append" => Len(rows) + Len(f.products) <= MaxRows
           /\ StartThread(ImportJob(kind, f))
    /\ UNCHANGED <<store, pauseEv, jobFrames, server, bounds>>

HandleExport ==
    /\ Serving("export")
    /\ \E s \in Scopes : StartThread(ExportJob(s))
    /\ UNCHANGED <<store, pauseEv, jobFrames, server, bounds>>
-----------------------------------------------------------------------------
(***************************************************************************)
(* Pause and resume, whatever the worker does                              *)
(***************************************************************************)

\* Auxiliary: counting starts with the first pause or stop.
CountClaims == claims' = IF pauseEv \/ stopEv THEN claims ELSE 0

HandlePause ==
    /\ Serving("pause")
    /\ pauseEv' = TRUE
    /\ CountClaims
    /\ UNCHANGED <<store, stopEv, lastResult, activeStage, job, pc, optFrame, impVars, expVars,
                   server, bounds>>

HandleResume ==
    /\ Serving("resume")
    /\ pauseEv' = FALSE
    /\ UNCHANGED <<store, stopEv, lastResult, activeStage, job, pc, jobFrames, server, bounds>>
-----------------------------------------------------------------------------
(***************************************************************************)
(* Worker.stop: set the stop event, clear the pause event, join the thread *)
(* for at most ten seconds.  A reset stops a busy worker; a shutdown       *)
(* always calls stop.                                                      *)
(***************************************************************************)

HandleReset ==
    /\ \E request \in {"reset", "keep"} : Serving(request) /\ goal' = request
    /\ spc' = IF Busy THEN "stop_set" ELSE "worker_reset"
    /\ UNCHANGED <<store, workerMem, pc, jobFrames, view, bounds>>

\* A stop request, SIGTERM or SIGINT ends the accept loop; shutdown() follows.
HandleStop ==
    /\ Serving("stop")
    /\ goal' = "quit"
    /\ spc' = "stop_set"
    /\ UNCHANGED <<store, workerMem, pc, jobFrames, view, bounds>>

StopSet ==
    /\ spc = "stop_set"
    /\ stopEv' = TRUE
    /\ CountClaims
    /\ spc' = "stop_unpause"
    /\ UNCHANGED <<store, pauseEv, lastResult, activeStage, job, pc, optFrame, impVars, expVars,
                   goal, view, bounds>>

StopUnpause ==
    /\ spc = "stop_unpause"
    /\ pauseEv' = FALSE
    /\ spc' = "stop_join"
    /\ UNCHANGED <<store, stopEv, lastResult, activeStage, job, pc, jobFrames, goal, view, bounds>>

AfterJoin == spc' = IF goal = "quit" THEN "close" ELSE "worker_reset"

StopJoin ==
    /\ spc = "stop_join"
    /\ ~Busy
    /\ AfterJoin
    /\ UNCHANGED <<store, workerMem, pc, jobFrames, goal, view, bounds>>

\* The thread is still in a call to the language model, or still importing or
\* exporting, when the ten seconds are over.
StopTimeout ==
    /\ spc = "stop_join"
    /\ Busy
    /\ overruns < MaxOverruns
    /\ overruns' = overruns + 1
    /\ AfterJoin
    /\ UNCHANGED <<store, workerMem, pc, jobFrames, goal, view, crashes>>

ResetWorker ==
    /\ spc = "worker_reset"
    /\ WorkerReset
    /\ spc' = "db_reset"
    /\ UNCHANGED <<store, jobFrames, goal, view, bounds>>

ResetDb ==
    /\ spc = "db_reset"
    /\ Reset(goal = "keep") \/ Raises \/ (goal = "keep" /\ FlagsOnly)
    /\ spc' = "serve"
    /\ goal' = "none"
    /\ UNCHANGED <<workerMem, pc, jobFrames, view, bounds>>

\* The listening socket, the endpoint and the PID file are gone by now.
Close ==
    /\ spc = "close"
    /\ conn' = "closed"
    /\ spc' = "closed"
    /\ UNCHANGED <<tables, faults, workerMem, pc, jobFrames, goal, view, bounds>>
-----------------------------------------------------------------------------
(***************************************************************************)
(* Worker.get_status reads one field after the other                       *)
(***************************************************************************)

Observe(from, field, value, to) ==
    /\ spc = from
    /\ view' = [view EXCEPT ![field] = value]
    /\ spc' = to
    /\ UNCHANGED <<store, workerMem, pc, jobFrames, goal, bounds>>

StageShown == IF view.busy /\ activeStage # None THEN activeStage ELSE view.pipeline

HandleStatus ==
    /\ Serving("status")
    /\ Observe("serve", "progress", Progress(rows), "status_pipeline")

\* Defect: the result is read before the worker's being busy.
ReadResultFirst ==
    \/ Observe("status_pipeline", "result", lastResult, "status_result")
    \/ Observe("status_result", "pipeline", stage, "status_busy")
    \/ Observe("status_busy", "busy", Busy, "status_stage")
    \/ Observe("status_stage", "stage", StageShown, "status_sent")

ReadStatus ==
    \/ Observe("status_pipeline", "pipeline", stage, "status_busy")
    \/ Observe("status_busy", "busy", Busy, "status_stage")
    \/ Observe("status_stage", "stage", StageShown, "status_result")
    \/ Observe("status_result", "result", lastResult, "status_sent")

StatusSent ==
    /\ spc = "status_sent"
    /\ spc' = "serve"
    /\ view' = NoView
    /\ UNCHANGED <<store, workerMem, pc, jobFrames, goal, bounds>>
-----------------------------------------------------------------------------
(***************************************************************************)
(* The end of the process and its next start                               *)
(***************************************************************************)

\* Everything in memory is gone, the worker's (daemon) thread included.
ProcessGone ==
    /\ spc' = "down"
    /\ goal' = "none"
    /\ view' = NoView
    /\ pauseEv' = FALSE /\ stopEv' = FALSE
    /\ lastResult' = NoResult
    /\ activeStage' = None
    /\ job' = NoJob
    /\ pc' = "dead"
    /\ Fresh
    /\ claims' = 0
    /\ conn' = "closed"
    /\ before' = disk
    /\ UNCHANGED <<disk, faults, overruns>>

Exit == spc = "closed" /\ ProcessGone /\ UNCHANGED <<tables, crashes>>

Crash ==
    /\ spc # "down"
    /\ crashes < MaxCrashes
    /\ crashes' = crashes + 1
    /\ IF spc = "db_reset" THEN HalfReset(goal = "keep") ELSE UNCHANGED tables
    /\ ProcessGone

Start ==
    /\ spc = "down"
    /\ Open
    /\ spc' = "serve"
    /\ UNCHANGED <<workerMem, pc, jobFrames, goal, view, bounds>>
-----------------------------------------------------------------------------
WorkerStep ==
    \/ OptimizeStep /\ UNCHANGED <<impVars, expVars, server, bounds>>
    \/ ImportStep /\ UNCHANGED <<optVars, expVars, server, bounds>>
    \/ ExportStep /\ UNCHANGED <<optVars, impVars, server, bounds>>
    \/ (Abort \/ AbortStage \/ Finally) /\ UNCHANGED <<jobFrames, server, bounds>>
    \/ ThreadEnds /\ Fresh /\ UNCHANGED <<claims, files, server, bounds>>

\* What the server's thread does without a client.
ServerStep ==
    \/ StopSet \/ StopUnpause \/ StopJoin \/ StopTimeout
    \/ ResetWorker \/ ResetDb \/ Close \/ Exit
    \/ ReadStatus \/ StatusSent

Request ==
    \/ HandleOptimize \/ HandleRetry \/ HandleImport \/ HandleExport
    \/ HandlePause \/ HandleResume \/ HandleReset \/ HandleStop \/ HandleStatus

Next == WorkerStep \/ ServerStep \/ Request \/ Crash \/ Start

Spec == Init /\ [][Next]_vars

\* Both threads are scheduled again and again.  A call to a language model need
\* not end (Gemini's has no timeout), no client has to send anything, no process
\* has to crash, and nobody has to start the daemon.
FairSpec == Spec /\ WF_vars(pc # "call" /\ WorkerStep) /\ WF_vars(ServerStep)
=============================================================================
