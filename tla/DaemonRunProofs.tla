-------------------------- MODULE DaemonRunProofs ---------------------------
(***************************************************************************)
(* What a run of the daemon's jobs promises, for all products, files,      *)
(* requests and bounds: how promptly it is held, what it reports, what it  *)
(* leaves behind and what it writes.  Each part strengthens one invariant  *)
(* of DaemonProperties by what holds at the steps in between, and proves   *)
(* it on top of the batch's own invariant (IInv of DaemonProofs).          *)
(***************************************************************************)
EXTENDS DaemonProofs, WellFoundedInduction

(***************************************************************************)
(* The moves of the two threads                                            *)
(***************************************************************************)

\* A database call that fails on an open connection is counted.
LEMMA RaisesCounted ==
    ASSUME Raises
    PROVE  /\ UNCHANGED <<rows, stage, source, conn>>
           /\ conn = "open" => faults' = faults + 1
           /\ conn # "open" => faults' = faults
BY DEF Raises

\* What every step of a job leaves alone.
ThreadFrame ==
    /\ UNCHANGED <<conn, events, job>>
    /\ faults' = faults \/ faults' = faults + 1

\* An optimization hands its result over with its last step.
LEMMA OptimizeMoves ==
    ASSUME OptimizeStep
    PROVE  /\ ThreadFrame
           /\ pc \in OptimizeSteps
           /\ \/ pc' \in OptimizeSteps \cup {"abort"} /\ UNCHANGED lastResult
              \/ pc = "opt_result" /\ pc' = "finally" /\ lastResult'.kind = "optimized"
<1> USE DEF ThreadFrame, Go, workerMem, events, SetRows, SetStage, Commits, Reads, Raises, store
<1>1. CASE NextProduct \/ NextInTry
    <2>1. pc \in OptimizeSteps
        BY <1>1 DEF NextProduct, NextInTry, OptimizeSteps
    <2>2. pc' \in OptimizeSteps \cup {"abort"} /\ UNCHANGED lastResult
        BY <1>1, <2>1 DEF NextProduct, NextInTry, NextPending, NextSelected, Picked, Caught,
                          OptimizeSteps
    <2>3. ThreadFrame
        BY <1>1 DEF NextProduct, NextInTry, NextPending, NextSelected, Picked, Caught
    <2> QED BY <2>1, <2>2, <2>3
<1>2. CASE Requeue \/ OptStage \/ OptProgress \/ OptIdle
    BY <1>2 DEF Requeue, OptStage, OptProgress, OptIdle, OptimizeSteps
<1>3. CASE CheckStop \/ Hold \/ RecheckStop \/ Pace \/ Call
    BY <1>3 DEF CheckStop, Hold, RecheckStop, Pace, Call, Caught, OptimizeSteps
<1>4. CASE Claim \/ MissingData
    BY <1>4 DEF Claim, AfterClaim, MissingData, Failed, Caught, OptimizeSteps
<1>5. CASE Unclaim \/ Save \/ SaveError
    BY <1>5 DEF Unclaim, Save, SaveError, Failed, Caught, OptimizeSteps
<1>6. CASE OptResult
    BY <1>6 DEF OptResult, Finish, Result, OptimizeSteps
<1> QED BY <1>1, <1>2, <1>3, <1>4, <1>5, <1>6 DEF OptimizeStep

\* So does an import, of another kind,
LEMMA ImportMoves ==
    ASSUME ImportStep
    PROVE  /\ ThreadFrame
           /\ pc \in ImportSteps
           /\ \/ pc' \in ImportSteps \cup {"abort"} /\ UNCHANGED lastResult
              \/ pc' = "finally" /\ lastResult'.kind \in {"imported", "corrected"}
<1> USE DEF ThreadFrame, Go, workerMem, events, SetRows, SetStage, SetHeaders, SetMappings, Commits,
            Reads, Raises, store, Unusable, ImportSteps
<1>1. CASE ImpOpen \/ ImpHeaders \/ ImpMappings \/ ImpStage
    BY <1>1 DEF ImpOpen, ImpHeaders, ImpMappings, ImpStage
<1>2. CASE ImpRows \/ ImpIdle
    BY <1>2 DEF ImpRows, ImpIdle
<1>3. CASE ImpResult \/ CorApply
    BY <1>3 DEF ImpResult, CorApply, Finish, Result
<1>4. CASE Staging \/ Replace \/ CorRead
    BY <1>4 DEF Staging, Replace, ReplaceFrom, CorRead
<1> QED BY <1>1, <1>2, <1>3, <1>4 DEF ImportStep

\* and an export.
LEMMA ExportMoves ==
    ASSUME ExportStep
    PROVE  /\ ThreadFrame
           /\ UNCHANGED rows
           /\ pc \in ExportSteps
           /\ \/ pc' \in ExportSteps \cup {"abort"} /\ UNCHANGED lastResult
              \/ pc' = "finally" /\ lastResult'.kind = "exported"
<1> USE DEF ThreadFrame, Go, workerMem, events, SetStage, Commits, Reads, Raises, store, ExportSteps
<1>1. CASE ExpOpen \/ ExpStage \/ ExpWrite \/ ExpPage
    BY <1>1 DEF ExpOpen, ExpStage, ExpWrite, ExpPage
<1>2. CASE ExpPublish \/ ExpIdle \/ ExpDone
    BY <1>2 DEF ExpPublish, ExpIdle, ExpDone
<1>3. CASE ExpResult
    BY <1>3 DEF ExpResult, Finish, Result
<1> QED BY <1>1, <1>2, <1>3 DEF ExportStep

\* The end of a thread.
LEMMA EndMoves ==
    ASSUME Abort \/ AbortStage \/ Finally \/ ThreadEnds
    PROVE  /\ ThreadFrame
           /\ UNCHANGED rows
           /\ \/ pc = "abort" /\ pc' = "abort_stage" /\ lastResult' = ErrorResult
              \/ pc = "abort_stage" /\ pc' = "finally" /\ UNCHANGED lastResult
              \/ pc = "finally" /\ pc' = "exiting" /\ UNCHANGED lastResult
              \/ pc = "exiting" /\ pc' = "dead" /\ UNCHANGED lastResult
<1> USE DEF ThreadFrame, Go, workerMem, events, SetStage, Commits, Raises, store
<1>1. CASE Abort
    BY <1>1 DEF Abort
<1>2. CASE AbortStage
    BY <1>2 DEF AbortStage
<1>3. CASE Finally \/ ThreadEnds
    BY <1>3 DEF Finally, ThreadEnds
<1> QED BY <1>1, <1>2, <1>3
-----------------------------------------------------------------------------
(***************************************************************************)
(* The two threads in step: what the server's thread may rely on of the    *)
(* worker's at each of its own steps, and where each kind of job can be.   *)
(***************************************************************************)

ThreadsInStep ==
    /\ conn = "open" <=> Up
    /\ spc = "down" => pc = "dead" /\ lastResult = NoResult
    /\ spc \in {"stop_unpause", "stop_join"} => stopEv
    /\ spc \in {"worker_reset", "db_reset", "close", "closed"} /\ Busy => overruns > 0
    /\ spc = "db_reset" /\ overruns = 0 => lastResult = NoResult

JobInStep ==
    /\ pc \in OptimizeSteps => job.kind \in {"optimize", "retry"}
    /\ pc \in ImportSteps => job.kind \in {"append", "replace", "corrections"}
    /\ pc \in ExportSteps => job.kind = "export"
    /\ Busy /\ pc \notin {"finally", "exiting"} => lastResult.kind \in {"none", "error"}
    /\ Busy /\ lastResult.kind = "optimized" => job.kind \in {"optimize", "retry"}

SInv == IInv /\ ThreadsInStep /\ JobInStep

\* The steps of the jobs have different names.
LEMMA StepsApart ==
    /\ OptimizeSteps \cap (ImportSteps \cup ExportSteps \cup WorkerSteps) = {}
    /\ ImportSteps \cap (ExportSteps \cup WorkerSteps) = {}
    /\ ExportSteps \cap WorkerSteps = {}
    /\ {"dead", "abort", "abort_stage", "finally", "exiting"} = WorkerSteps
BY DEF OptimizeSteps, ImportSteps, ExportSteps, WorkerSteps

\* A step of the thread leaves the server, the events and the job alone.
LEMMA WorkerFrame ==
    ASSUME WorkerStep
    PROVE  ThreadFrame /\ UNCHANGED <<server, bounds>> /\ pc # "dead"
<1>1. ThreadFrame /\ pc # "dead"
    BY OptimizeMoves, ImportMoves, ExportMoves, EndMoves, StepsApart DEF WorkerStep
<1> QED BY <1>1 DEF WorkerStep

\* A step of the thread keeps the threads in step.
LEMMA WorkerInStep ==
    ASSUME SInv, WorkerStep
    PROVE  ThreadsInStep' /\ JobInStep'
<1>1. ThreadsInStep'
    <2>1. UNCHANGED <<conn, stopEv, spc, overruns>> /\ pc # "dead"
        BY WorkerFrame DEF ThreadFrame, events, server, bounds
    <2>2. spc # "down" /\ ~(spc = "db_reset" /\ overruns = 0)
        BY <2>1 DEF SInv, ThreadsInStep, Busy
    <2> QED BY <2>1, <2>2 DEF SInv, ThreadsInStep, Busy, Up
<1>2. JobInStep'
    <2> USE StepsApart DEF ThreadFrame, SInv, JobInStep, Busy
    <2>1. CASE OptimizeStep
        BY <2>1, OptimizeMoves
    <2>2. CASE ImportStep
        BY <2>2, ImportMoves
    <2>3. CASE ExportStep
        BY <2>3, ExportMoves
    <2>4. CASE Abort \/ AbortStage \/ Finally \/ ThreadEnds
        BY <2>4, EndMoves DEF ErrorResult, Result
    <2> QED BY <2>1, <2>2, <2>3, <2>4 DEF WorkerStep
<1> QED BY <1>1, <1>2

\* What a new job begins with.
LEMMA StartMoves ==
    ASSUME NEW j \in Jobs, j.kind # "none", StartThread(j)
    PROVE  /\ ~Busy /\ stopEv' = FALSE /\ lastResult' = NoResult /\ job' = j
           /\ pc' = FirstStep(j.kind) /\ pc' # "dead"
           /\ pc' \in {"opt_stage", "requeue", "imp_open", "staging", "cor_read", "exp_open"}
           /\ pc' = "opt_stage" => j.kind = "optimize"
           /\ pc' = "requeue" => j.kind = "retry"
           /\ pc' \in {"imp_open", "staging", "cor_read"} =>
                  j.kind \in {"append", "replace", "corrections"}
           /\ pc' = "exp_open" => j.kind = "export"
<1>1. j.kind \in JobKinds \ {"none"}
    BY DEF Jobs
<1> QED BY <1>1 DEF StartThread, FirstStep, JobKinds

\* What a request does: it starts a job, or leaves the thread alone.
LEMMA RequestMoves ==
    ASSUME Request
    PROVE  /\ spc = "serve" /\ UNCHANGED <<store, bounds, disk>>
           /\ UNCHANGED <<optFrame, impVars, expVars>>
           /\ \/ /\ \E j \in Jobs : j.kind # "none" /\ StartThread(j)
                 /\ UNCHANGED <<server, claims>>
                 /\ pauseEv' \in {FALSE, pauseEv}
              \/ /\ OptimizerUnavailable
                 /\ UNCHANGED <<server, claims>>
              \/ /\ HandlePause /\ UNCHANGED <<server, stopEv, lastResult, activeStage, job, pc>>
              \/ /\ HandleResume /\ UNCHANGED <<server, stopEv, lastResult, activeStage, job, pc>>
                 /\ UNCHANGED claims
              \/ /\ HandleReset \/ HandleStop \/ HandleStatus
                 /\ UNCHANGED <<workerMem, pc, claims>>
<1> USE DEF Serving, jobFrames, optVars, optFrame, expVars, files, server
<1>1. CASE HandleOptimize \/ HandleRetry
    <2>1. PICK j \in Jobs : j.kind # "none" /\ Optimize(j) /\ spc = "serve"
        BY <1>1, JobTypes DEF HandleOptimize, HandleRetry
    <2> QED BY <2>1 DEF Optimize
<1>2. CASE HandleImport
    <2>1. PICK k \in {"append", "replace", "corrections"}, f \in Files :
              StartThread(ImportJob(k, f)) /\ spc = "serve"
        BY <1>2 DEF HandleImport
    <2>2. ImportJob(k, f) \in Jobs /\ ImportJob(k, f).kind # "none"
        BY JobTypes
    <2> QED BY <1>2, <2>1, <2>2 DEF HandleImport
<1>3. CASE HandleExport
    <2>1. PICK s \in Scopes : StartThread(ExportJob(s)) /\ spc = "serve"
        BY <1>3 DEF HandleExport
    <2>2. ExportJob(s) \in Jobs /\ ExportJob(s).kind # "none"
        BY JobTypes
    <2> QED BY <1>3, <2>1, <2>2 DEF HandleExport
<1>4. CASE HandlePause \/ HandleResume
    BY <1>4 DEF HandlePause, HandleResume
<1>5. CASE HandleReset \/ HandleStop \/ HandleStatus
    BY <1>5 DEF HandleReset, HandleStop, HandleStatus, Observe
<1> QED BY <1>1, <1>2, <1>3, <1>4, <1>5 DEF Request

\* A request keeps the threads in step.
LEMMA RequestInStep ==
    ASSUME SInv, Request
    PROVE  ThreadsInStep' /\ JobInStep'
<1>a. spc = "serve" /\ UNCHANGED <<conn, overruns>> /\ conn = "open"
    BY RequestMoves DEF store, bounds, SInv, ThreadsInStep, Up
<1>1. CASE \E j \in Jobs : j.kind # "none" /\ StartThread(j) /\ UNCHANGED server
    <2>1. PICK j \in Jobs : j.kind # "none" /\ StartThread(j) /\ spc' = "serve"
        BY <1>a, <1>1 DEF server
    <2>2. ThreadsInStep'
        BY <1>a, <2>1 DEF ThreadsInStep, Up
    <2>3. job' = j /\ lastResult'.kind = "none"
          /\ pc' \in {"opt_stage", "requeue", "imp_open", "staging", "cor_read", "exp_open"}
        <3>1. NoResult.kind = "none"
            BY DEF NoResult, Result
        <3>2. job' = j /\ lastResult' = NoResult
            BY <2>1 DEF StartThread
        <3>3. pc' \in {"opt_stage", "requeue", "imp_open", "staging", "cor_read", "exp_open"}
            BY <2>1, StartMoves
        <3> QED BY <3>1, <3>2, <3>3
    <2>4. /\ pc' \in OptimizeSteps => pc' \in {"opt_stage", "requeue"}
          /\ pc' \in ImportSteps => pc' \in {"imp_open", "staging", "cor_read"}
          /\ pc' \in ExportSteps => pc' = "exp_open"
        BY <2>3 DEF OptimizeSteps, ImportSteps, ExportSteps
    <2>5. JobInStep'
        BY <2>1, <2>3, <2>4, StartMoves DEF JobInStep
    <2> QED BY <2>2, <2>5
<1>2. ASSUME UNCHANGED <<lastResult, job, pc>> PROVE JobInStep'
    BY <1>2 DEF SInv, JobInStep, Busy
<1>3. CASE (OptimizerUnavailable \/ HandlePause \/ HandleResume)
           /\ UNCHANGED <<server, lastResult, job, pc>>
    BY <1>a, <1>2, <1>3 DEF ThreadsInStep, Up, server
<1>4. CASE HandleReset
    <2>1. UNCHANGED <<lastResult, job, pc>> /\ spc' = IF Busy THEN "stop_set" ELSE "worker_reset"
        BY <1>4 DEF HandleReset, workerMem
    <2> QED BY <1>a, <1>2, <2>1 DEF ThreadsInStep, Up, Busy
<1>5. CASE HandleStop \/ HandleStatus
    <2>1. UNCHANGED <<lastResult, job, pc>> /\ spc' \in {"stop_set", "status_pipeline"}
        BY <1>5 DEF HandleStop, HandleStatus, Observe, workerMem
    <2> QED BY <1>a, <1>2, <2>1 DEF ThreadsInStep, Up, Busy
<1> QED BY <1>1, <1>3, <1>4, <1>5, RequestMoves DEF OptimizerUnavailable

\* So does a step of the server's thread.
LEMMA ServerInStep ==
    ASSUME SInv, ServerStep
    PROVE  ThreadsInStep' /\ JobInStep'
<1> USE DEF SInv
<1>1. ASSUME UNCHANGED <<lastResult, job, pc>> PROVE JobInStep'
    BY <1>1 DEF JobInStep, Busy
<1>2. CASE StopSet \/ StopUnpause \/ StopJoin
    <2>1. UNCHANGED <<lastResult, job, pc, conn, overruns>>
        BY <1>2 DEF StopSet, StopUnpause, StopJoin, store, bounds, workerMem
    <2>2. \/ spc' = "stop_unpause" /\ stopEv'
          \/ spc' = "stop_join" /\ stopEv'
          \/ spc' \in {"close", "worker_reset"} /\ ~Busy
        BY <1>2 DEF StopSet, StopUnpause, StopJoin, AfterJoin, ThreadsInStep
    <2>3. Up
        BY <1>2 DEF StopSet, StopUnpause, StopJoin, Up
    <2> QED BY <1>1, <2>1, <2>2, <2>3 DEF ThreadsInStep, Up, Busy
<1>3. CASE StopTimeout
    <2>1. UNCHANGED <<lastResult, job, pc, conn>> /\ overruns' = overruns + 1 /\ overruns \in Nat
        BY <1>3 DEF StopTimeout, store, workerMem, IInv, TypeOK
    <2>2. spc' \in {"close", "worker_reset"} /\ Up
        BY <1>3 DEF StopTimeout, AfterJoin, Up
    <2> QED BY <1>1, <2>1, <2>2 DEF ThreadsInStep, Up, Busy
<1>4. CASE ResetWorker
    <2>1. UNCHANGED <<job, pc, conn, overruns>> /\ spc' = "db_reset" /\ spc = "worker_reset"
          /\ lastResult' = NoResult
        BY <1>4 DEF ResetWorker, WorkerReset, store, bounds
    <2> QED BY <2>1 DEF ThreadsInStep, JobInStep, Up, Busy, NoResult, Result
<1>5. CASE ResetDb
    <2>1. UNCHANGED <<lastResult, job, pc, conn, overruns>> /\ spc' = "serve" /\ spc = "db_reset"
        BY <1>5 DEF ResetDb, Reset, FlagsOnly, Raises, Commits, workerMem, bounds
    <2> QED BY <1>1, <2>1 DEF ThreadsInStep, Up, Busy
<1>6. CASE Close
    <2>1. UNCHANGED <<lastResult, job, pc, overruns>> /\ spc' = "closed" /\ spc = "close"
          /\ conn' = "closed"
        BY <1>6 DEF Close, workerMem, bounds
    <2> QED BY <1>1, <2>1 DEF ThreadsInStep, Up, Busy
<1>7. CASE Exit
    <2>1. spc' = "down" /\ conn' = "closed" /\ pc' = "dead" /\ lastResult' = NoResult
        BY <1>7 DEF Exit, ProcessGone
    <2> QED BY <2>1, StepsApart DEF ThreadsInStep, JobInStep, Up, Busy
<1>8. CASE ReadStatus \/ StatusSent
    <2>1. UNCHANGED <<lastResult, job, pc, conn, overruns>>
        BY <1>8 DEF ReadStatus, StatusSent, Observe, store, workerMem, bounds
    <2>2. {spc, spc'} \subseteq {"status_pipeline", "status_busy", "status_stage",
                                 "status_result", "status_sent", "serve"}
        BY <1>8 DEF ReadStatus, StatusSent, Observe
    <2> QED BY <1>1, <2>1, <2>2 DEF ThreadsInStep, Up, Busy
<1> QED BY <1>2, <1>3, <1>4, <1>5, <1>6, <1>7, <1>8 DEF ServerStep

\* The threads are in step from the first step on.
LEMMA InitInStep == Init => ThreadsInStep /\ JobInStep
BY StepsApart DEF Init, StoreInit, WorkerInit, ThreadsInStep, JobInStep, Up, Busy

LEMMA NextInStep == SInv /\ [Next]_vars => SInv'
<1> SUFFICES ASSUME SInv, [Next]_vars PROVE SInv'
    OBVIOUS
<1>1. IInv'
    BY NextSafe DEF SInv
<1>2. CASE Crash
    <2>1. spc' = "down" /\ conn' = "closed" /\ pc' = "dead" /\ lastResult' = NoResult
        BY <1>2 DEF Crash, ProcessGone
    <2>2. ThreadsInStep' /\ JobInStep'
        BY <2>1, StepsApart DEF ThreadsInStep, JobInStep, Up, Busy
    <2> QED BY <1>1, <2>2 DEF SInv
<1>3. CASE Start
    <2>1. spc' = "serve" /\ conn' = "open" /\ UNCHANGED <<pc, lastResult, job>>
        BY <1>3 DEF Start, Open, workerMem
    <2>2. ThreadsInStep' /\ JobInStep'
        BY <2>1 DEF SInv, ThreadsInStep, JobInStep, Up, Busy
    <2> QED BY <1>1, <2>2 DEF SInv
<1>4. CASE UNCHANGED vars
    <2>1. UNCHANGED <<conn, spc, pc, lastResult, job, stopEv, overruns>>
        BY <1>4 DEF vars, store, workerMem, server, bounds
    <2>2. ThreadsInStep' /\ JobInStep'
        BY <2>1 DEF SInv, ThreadsInStep, JobInStep, Up, Busy
    <2> QED BY <1>1, <2>2 DEF SInv
<1> QED BY <1>1, <1>2, <1>3, <1>4, WorkerInStep, RequestInStep, ServerInStep DEF Next, SInv

\* Both threads are in step in every reachable state.
LEMMA InStep == Spec => []SInv
<1>1. Init => SInv
    BY InitSafe, InitInStep DEF SInv
<1> QED BY <1>1, NextInStep, PTL DEF Spec
-----------------------------------------------------------------------------
(***************************************************************************)
(* Status replies.  Once the worker was seen not busy, it stays dead until *)
(* this thread starts it again, and only its thread writes a result.       *)
(***************************************************************************)

StatusFits ==
    /\ spc \in {"status_stage", "status_result", "status_sent"} /\ ~view.busy => ~Busy
    /\ spc = "status_sent" /\ ~view.busy => view.result = lastResult

\* A read of one field leaves the others of the reply.
LEMMA ObserveEffect ==
    ASSUME TypeOK, NEW from, NEW field, NEW value, NEW to, Observe(from, field, value, to)
    PROVE  /\ UNCHANGED <<pc, lastResult>> /\ spc = from /\ spc' = to
           /\ field = "busy" => view'.busy = value
           /\ field # "busy" => view'.busy = view.busy
           /\ field = "result" => view'.result = value
<1>1. view \in Views
    BY DEF TypeOK
<1>2. view' = [view EXCEPT ![field] = value]
    BY DEF Observe
<1>3. UNCHANGED <<pc, lastResult>> /\ spc = from /\ spc' = to
    BY DEF Observe, workerMem
<1> QED BY <1>1, <1>2, <1>3 DEF Views

LEMMA NextStatusFits == SInv /\ StatusFits /\ [Next]_vars => StatusFits'
<1> SUFFICES ASSUME SInv, StatusFits, [Next]_vars PROVE StatusFits'
    OBVIOUS
<1>1. CASE WorkerStep
    <2>1. pc # "dead" /\ UNCHANGED <<spc, view>>
        BY <1>1, WorkerFrame DEF server
    <2> QED BY <2>1 DEF StatusFits, Busy
<1>2. CASE Request
    <2>1. spc = "serve"
        BY <1>2, RequestMoves
    <2>2. spc' \notin {"status_stage", "status_result", "status_sent"}
        BY <1>2, <2>1, RequestMoves
           DEF server, OptimizerUnavailable, HandlePause, HandleResume, HandleReset, HandleStop,
               HandleStatus, Observe
    <2> QED BY <2>2 DEF StatusFits
<1>3. CASE ReadStatus
    <2>a. TypeOK
        BY DEF SInv, IInv
    <2>1. CASE Observe("status_pipeline", "pipeline", stage, "status_busy")
        BY <2>1, <2>a, ObserveEffect DEF StatusFits
    <2>2. CASE Observe("status_busy", "busy", Busy, "status_stage")
        <3>1. view'.busy = Busy /\ UNCHANGED pc /\ spc' = "status_stage"
            BY <2>2, <2>a, ObserveEffect
        <3>2. ~view'.busy => ~Busy'
            BY <3>1, Zenon DEF Busy
        <3> QED BY <3>1, <3>2 DEF StatusFits
    <2>3. CASE Observe("status_stage", "stage", StageShown, "status_result")
        BY <2>3, <2>a, ObserveEffect DEF StatusFits, Busy
    <2>4. CASE Observe("status_result", "result", lastResult, "status_sent")
        BY <2>4, <2>a, ObserveEffect DEF StatusFits, Busy
    <2> QED BY <1>3, <2>1, <2>2, <2>3, <2>4 DEF ReadStatus
<1>4. ASSUME spc' \notin {"status_stage", "status_result", "status_sent"} PROVE StatusFits'
    BY <1>4 DEF StatusFits
<1>5. CASE StopSet \/ StopUnpause \/ StopJoin \/ StopTimeout \/ ResetWorker
    BY <1>4, <1>5 DEF StopSet, StopUnpause, StopJoin, StopTimeout, AfterJoin, ResetWorker
<1>6. CASE ResetDb \/ Close \/ Exit \/ StatusSent \/ Crash \/ Start
    BY <1>4, <1>6 DEF ResetDb, Close, Exit, StatusSent, Crash, ProcessGone, Start
<1>7. CASE UNCHANGED vars
    BY <1>7 DEF StatusFits, Busy, vars, server, workerMem
<1> QED BY <1>1, <1>2, <1>3, <1>5, <1>6, <1>7 DEF Next, ServerStep

\* A reply that says the worker is not busy carries the final result of its
\* last job, in every reachable state, although a job's thread may end between
\* any two of the reads it is put together from (worker.py:278-296).
THEOREM StatusIsFinal == Spec => []StatusResultIsFinal
<1>1. Init => StatusFits
    BY DEF Init, StatusFits
<1>2. StatusFits => StatusResultIsFinal
    BY DEF StatusFits, StatusResultIsFinal
<1> QED BY <1>1, <1>2, NextStatusFits, InStep, PTL DEF Spec
-----------------------------------------------------------------------------
(***************************************************************************)
(* Pause and stop.  The thread claims a product behind two checks; between *)
(* them it holds while the worker is paused and not stopped.  Once it was  *)
(* paused or stopped, a thread that claimed one product can only be behind *)
(* the first check again if it was stopped, and then the second ends it.   *)
(***************************************************************************)

Held == pauseEv \/ stopEv

HoldFits ==
    Held => /\ claims <= 1
            /\ pc = "claim" => claims = 0
            /\ pc = "recheck" /\ ~stopEv => claims = 0

\* A step of the optimization claims a product only behind both checks.
LEMMA OptimizeHolds ==
    ASSUME SInv, HoldFits, OptimizeStep, UNCHANGED events
    PROVE  HoldFits'
<1>a. pauseEv' = pauseEv /\ stopEv' = stopEv /\ pauseEv \in BOOLEAN /\ stopEv \in BOOLEAN
      /\ claims \in 0..2
    BY DEF events, SInv, IInv, TypeOK, WorkerTypeOK, OptimizingTypeOK
<1> USE DEF HoldFits, Held
<1>b. ASSUME UNCHANGED claims, pc' \notin {"claim", "recheck"} PROVE HoldFits'
    BY <1>a, <1>b
<1>1. CASE Requeue \/ OptStage \/ OptProgress \/ OptIdle \/ OptResult
    BY <1>1, <1>b DEF Requeue, OptStage, OptProgress, OptIdle, OptResult, Go, Finish, optVars
<1>2. CASE NextProduct \/ NextInTry
    <2>1. UNCHANGED claims
        BY <1>2 DEF NextProduct, NextInTry
    <2>2. pc' \in {"check", "opt_idle", "abort", "save_error", "opt_next", "next_in_try"}
        BY <1>2 DEF NextProduct, NextInTry, NextPending, NextSelected, Picked, Caught, Go
    <2> QED BY <2>1, <2>2, <1>b
<1>3. CASE CheckStop \/ Pace \/ Call
    BY <1>3, <1>b DEF CheckStop, Pace, Call, Caught, Go, optVars
<1>4. CASE Hold
    BY <1>4, <1>a DEF Hold, Go, optVars
<1>5. CASE RecheckStop
    BY <1>5, <1>a DEF RecheckStop, Go, optVars
<1>6. CASE Claim
    <2>1. pc = "claim" /\ pc' \notin {"claim", "recheck"}
        BY <1>6 DEF Claim, AfterClaim, Go
    <2>2. claims' \in {claims, IF claims = 2 THEN 2 ELSE claims + 1}
        BY <1>6 DEF Claim
    <2> QED BY <1>a, <2>1, <2>2
<1>7. CASE MissingData \/ Unclaim \/ Save \/ SaveError
    BY <1>7, <1>b DEF MissingData, Unclaim, Save, SaveError, Failed, Caught, Go
<1> QED BY <1>1, <1>2, <1>3, <1>4, <1>5, <1>6, <1>7 DEF OptimizeStep

LEMMA NextHoldFits == SInv /\ HoldFits /\ [Next]_vars => HoldFits'
<1> SUFFICES ASSUME SInv, HoldFits, [Next]_vars PROVE HoldFits'
    OBVIOUS
<1>a. pauseEv \in BOOLEAN /\ stopEv \in BOOLEAN /\ claims \in 0..2
    BY DEF SInv, IInv, TypeOK, WorkerTypeOK, OptimizingTypeOK
<1>b. ASSUME UNCHANGED <<pauseEv, stopEv, claims>>, pc' = pc \/ pc' \notin {"claim", "recheck"}
      PROVE  HoldFits'
    BY <1>b DEF HoldFits, Held
<1>c. ASSUME ~pauseEv', ~stopEv' PROVE HoldFits'
    BY <1>c DEF HoldFits, Held
<1>1. CASE WorkerStep
    <2>1. UNCHANGED events
        BY <1>1, WorkerFrame DEF ThreadFrame
    <2>2. CASE OptimizeStep
        BY <2>1, <2>2, OptimizeHolds
    <2>3. CASE (ImportStep /\ UNCHANGED optVars) \/ (ExportStep /\ UNCHANGED optVars)
        <3>1. pc' \in ImportSteps \cup ExportSteps \cup {"abort", "finally"}
            BY <2>3, ImportMoves, ExportMoves
        <3>2. pc' \notin {"claim", "recheck"}
            BY <3>1 DEF ImportSteps, ExportSteps
        <3> QED BY <1>b, <2>1, <2>3, <3>2 DEF events, optVars
    <2>4. CASE (Abort \/ AbortStage \/ Finally \/ ThreadEnds) /\ UNCHANGED claims
        <3>1. pc' \notin {"claim", "recheck"}
            BY <2>4, EndMoves
        <3> QED BY <1>b, <2>1, <2>4, <3>1 DEF events
    <2> QED BY <1>1, <2>2, <2>3, <2>4 DEF WorkerStep, jobFrames, optVars
<1>2. CASE Request
    <2>1. CASE \E j \in Jobs : j.kind # "none" /\ StartThread(j) /\ UNCHANGED claims
                               /\ pauseEv' \in {FALSE, pauseEv}
        <3>1. pc' \notin {"claim", "recheck"} /\ stopEv' = FALSE
            BY <2>1, StartMoves
        <3> QED BY <2>1, <3>1, <1>a DEF HoldFits, Held
    <2>2. CASE OptimizerUnavailable
        BY <2>2, <1>c DEF OptimizerUnavailable
    <2>3. CASE HandlePause /\ UNCHANGED <<stopEv, pc>>
        <3>1. claims' = IF Held THEN claims ELSE 0
            BY <2>3 DEF HandlePause, CountClaims, Held
        <3> QED BY <2>3, <3>1, <1>a DEF HoldFits, Held
    <2>4. CASE HandleResume /\ UNCHANGED <<stopEv, pc, claims>>
        BY <2>4, <1>a DEF HandleResume, HoldFits, Held
    <2>5. CASE UNCHANGED <<workerMem, pc, claims>>
        BY <2>5, <1>b DEF workerMem
    <2> QED BY <1>2, <2>1, <2>2, <2>3, <2>4, <2>5, RequestMoves
<1>3. CASE StopSet
    <2>1. claims' = (IF Held THEN claims ELSE 0) /\ UNCHANGED <<pauseEv, pc>> /\ stopEv'
        BY <1>3 DEF StopSet, CountClaims, Held
    <2> QED BY <2>1, <1>a DEF HoldFits, Held
<1>4. CASE StopUnpause
    <2>1. stopEv
        BY <1>4 DEF StopUnpause, SInv, ThreadsInStep
    <2> QED BY <1>4, <2>1 DEF StopUnpause, HoldFits, Held, jobFrames, optVars
<1>5. CASE ResetWorker
    BY <1>5, <1>c DEF ResetWorker, WorkerReset
<1>6. CASE StopJoin \/ StopTimeout \/ ResetDb \/ Close \/ ReadStatus \/ StatusSent \/ Start
    <2>1. UNCHANGED <<workerMem, pc, jobFrames>>
        BY <1>6 DEF StopJoin, StopTimeout, ResetDb, Close, ReadStatus, StatusSent, Observe, Start
    <2> QED BY <2>1, <1>b DEF workerMem, jobFrames, optVars
<1>7. CASE Exit \/ Crash
    BY <1>7, <1>c DEF Exit, Crash, ProcessGone
<1>8. CASE UNCHANGED vars
    BY <1>8, <1>b DEF vars, workerMem, optVars
<1> QED BY <1>1, <1>2, <1>3, <1>4, <1>5, <1>6, <1>7, <1>8 DEF Next, ServerStep

\* From the moment a pause or a stop is requested, at most one more product is
\* started, whatever pauses, resumes and stops are mixed (optimizer.py:126-138,
\* worker.py:250-256).
THEOREM HoldsPromptly == Spec => []HoldIsPrompt
<1>1. Init => HoldFits
    BY DEF Init, WorkerInit, HoldFits, Held
<1>2. SInv /\ HoldFits => HoldIsPrompt
    BY DEF SInv, ThreadsInStep, HoldFits, Held, HoldIsPrompt
<1> QED BY <1>1, <1>2, NextHoldFits, InStep, PTL DEF Spec
-----------------------------------------------------------------------------
(***************************************************************************)
(* The stored stage.  It is settled before a job and wherever a job can    *)
(* end; a job that fails in between has counted a fault or left the stage  *)
(* of an import, before its thread tries once more to set it to idle.      *)
(***************************************************************************)

Settled == \/ stage \in {"idle", "done"}
           \/ stage = "importing" /\ faults >= 1
           \/ faults >= 2

\* Where the stage is still, or again, that of no job.
SettledSteps ==
    {"dead", "requeue", "opt_stage", "opt_result", "imp_open", "imp_headers", "imp_mappings",
     "imp_stage", "imp_result", "staging", "replace", "cor_read", "cor_apply", "exp_open",
     "exp_stage", "exp_done", "exp_result", "finally", "exiting"}

StageFits ==
    Up => /\ pc \in SettledSteps => Settled
          /\ pc \in {"imp_rows", "imp_idle", "abort", "abort_stage"} =>
                 Settled \/ stage = "importing" \/ faults >= 1

\* What a step does to the stage.
Kept    == UNCHANGED stage /\ faults' = faults
Counted == UNCHANGED stage /\ faults' = faults + 1

\* A call on the open database keeps the stage, sets it, or is counted.
LEMMA CallOutcomes ==
    ASSUME conn = "open"
    PROVE  /\ Raises => Counted
           /\ Reads \/ UNCHANGED store => Kept
           /\ \A t : SetRows(t) => Kept
           /\ \A c : SetHeaders(c) \/ SetMappings(c) => Kept
           /\ \A s : SetStage(s) => stage' = s /\ faults' = faults
           /\ \A f : ReplaceFrom(f) => stage' = "idle" /\ faults' = faults
BY DEF Raises, Reads, SetRows, SetHeaders, SetMappings, SetStage, ReplaceFrom, Commits, Kept,
       Counted, store

\* A settled stage stays settled when it is kept or a failure is counted.
LEMMA StageStays ==
    ASSUME faults \in Nat, StageFits, UNCHANGED spc
    PROVE  /\ pc' \notin SettledSteps \cup {"imp_rows", "imp_idle", "abort", "abort_stage"}
                  => StageFits'
           /\ Kept /\ pc \in SettledSteps => StageFits'
           /\ Kept /\ pc \in {"imp_rows", "imp_idle", "abort", "abort_stage"}
                   /\ pc' \notin SettledSteps => StageFits'
           /\ Counted /\ pc' = "abort" => StageFits'
           /\ Counted /\ pc \in {"imp_rows", "imp_idle", "abort", "abort_stage"} => StageFits'
           /\ stage' \in {"idle", "done"} => StageFits'
           /\ stage' = "importing" /\ pc' = "imp_rows" => StageFits'
BY DEF StageFits, Settled, SettledSteps, Kept, Counted, Up

\* Each job keeps the stage as it should be for where it is: an optimization,
LEMMA OptimizeStage ==
    ASSUME SInv, StageFits, OptimizeStep, UNCHANGED spc
    PROVE  StageFits'
<1>a. CASE conn # "open"
    <2>1. ~Up'
        BY <1>a DEF SInv, ThreadsInStep, Up
    <2> QED BY <2>1 DEF StageFits
<1>b. CASE conn = "open"
    <2>a. faults \in Nat
        BY FaultsAssumption DEF SInv, IInv, TypeOK, StoreTypeOK
    <2>b. ASSUME pc' \in OptimizeSteps \ {"requeue", "opt_stage", "opt_result"} PROVE StageFits'
        BY <2>a, <2>b, StageStays DEF OptimizeSteps, SettledSteps
    <2>c. ASSUME Counted, pc' = "abort" PROVE StageFits'
        BY <2>a, <2>c, StageStays
    <2>d. Raises => Counted
        BY <1>b, CallOutcomes
    <2> USE DEF OptimizeSteps, Go
    <2>1. CASE Requeue
        <3>1. CASE pc' = "opt_stage" /\ Kept
            BY <1>b, <2>1, <2>a, <3>1, StageStays DEF Requeue, SettledSteps
        <3>2. CASE Raises /\ pc' = "abort"
            BY <2>c, <2>d, <3>2
        <3> QED BY <1>b, <2>1, <3>1, <3>2, CallOutcomes DEF Requeue
    <2>2. CASE OptStage \/ OptProgress
        BY <2>2, <2>b, <2>c, <2>d DEF OptStage, OptProgress
    <2>3. CASE NextProduct \/ NextInTry
        <3>1. CASE pc' \in OptimizeSteps \ {"requeue", "opt_stage", "opt_result"}
            BY <2>b, <3>1
        <3>2. CASE Raises /\ pc' = "abort"
            BY <2>c, <2>d, <3>2
        <3> QED BY <2>3, <3>1, <3>2 DEF NextProduct, NextInTry, NextPending, NextSelected, Picked,
                                        Caught
    <2>4. CASE CheckStop \/ Hold \/ RecheckStop \/ Pace \/ Call
        BY <2>4, <2>b DEF CheckStop, Hold, RecheckStop, Pace, Call, Caught
    <2>5. CASE Claim \/ MissingData \/ Unclaim
        BY <2>5, <2>b, <2>c, <2>d DEF Claim, AfterClaim, MissingData, Unclaim, Caught
    <2>6. CASE Save \/ SaveError
        BY <2>6, <2>b, <2>c, <2>d DEF Save, SaveError, Caught
    <2>7. CASE OptIdle
        BY <1>b, <2>7, <2>a, <2>c, <2>d, CallOutcomes, StageStays DEF OptIdle
    <2>8. CASE OptResult
        <3>1. Kept
            BY <1>b, <2>8, CallOutcomes DEF OptResult
        <3> QED BY <2>8, <2>a, <3>1, StageStays DEF OptResult, SettledSteps
    <2> QED BY <2>1, <2>2, <2>3, <2>4, <2>5, <2>6, <2>7, <2>8 DEF OptimizeStep
<1> QED BY <1>a, <1>b

\* an import,
LEMMA ImportStage ==
    ASSUME SInv, StageFits, ImportStep, UNCHANGED spc
    PROVE  StageFits'
<1>a. CASE conn # "open"
    <2>1. ~Up'
        BY <1>a DEF SInv, ThreadsInStep, Up
    <2> QED BY <2>1 DEF StageFits
<1>b. CASE conn = "open"
    <2>a. faults \in Nat
        BY FaultsAssumption DEF SInv, IInv, TypeOK, StoreTypeOK
    <2>b. ASSUME Kept, pc \in SettledSteps PROVE StageFits'
        BY <2>a, <2>b, StageStays
    <2>c. ASSUME Raises, pc' = "abort" PROVE StageFits'
        BY <1>b, <2>a, <2>c, StageStays, CallOutcomes
    <2>d. ASSUME stage' = "idle" PROVE StageFits'
        BY <2>a, <2>d, StageStays
    <2> USE DEF Go, Unusable
    <2>1. CASE ImpOpen \/ ImpHeaders \/ ImpMappings
        <3>1. Kept \/ (Raises /\ pc' = "abort")
            BY <1>b, <2>1, CallOutcomes DEF ImpOpen, ImpHeaders, ImpMappings
        <3>2. pc \in SettledSteps
            BY <2>1 DEF ImpOpen, ImpHeaders, ImpMappings, SettledSteps
        <3> QED BY <2>b, <2>c, <3>1, <3>2
    <2>2. CASE ImpStage
        <3>1. \/ stage' = "importing" /\ pc' = "imp_rows"
              \/ Raises /\ pc' = "abort"
            BY <1>b, <2>2, CallOutcomes DEF ImpStage
        <3> QED BY <2>a, <2>c, <3>1, StageStays
    <2>3. CASE ImpRows
        <3>1. Kept \/ (Raises /\ pc' = "abort")
            BY <1>b, <2>3, CallOutcomes DEF ImpRows
        <3>2. pc = "imp_rows" /\ pc' \in {"imp_rows", "abort", "imp_idle"}
            BY <2>3 DEF ImpRows
        <3> QED BY <2>a, <2>c, <3>1, <3>2, StageStays DEF SettledSteps
    <2>4. CASE ImpIdle \/ Replace
        <3>1. stage' = "idle" \/ (Raises /\ pc' = "abort")
            BY <1>b, <2>4, CallOutcomes DEF ImpIdle, Replace
        <3> QED BY <2>c, <2>d, <3>1
    <2>5. CASE ImpResult \/ Staging \/ CorRead \/ CorApply
        <3>1. Kept \/ (Raises /\ pc' = "abort")
            BY <1>b, <2>5, CallOutcomes DEF ImpResult, Staging, CorRead, CorApply
        <3>2. pc \in SettledSteps
            BY <2>5 DEF ImpResult, Staging, CorRead, CorApply, SettledSteps
        <3> QED BY <2>b, <2>c, <3>1, <3>2
    <2> QED BY <2>1, <2>2, <2>3, <2>4, <2>5 DEF ImportStep
<1> QED BY <1>a, <1>b

\* an export and the end of a thread.
LEMMA ExportStage ==
    ASSUME SInv, StageFits, ExportStep \/ Abort \/ AbortStage \/ Finally \/ ThreadEnds,
           UNCHANGED spc
    PROVE  StageFits'
<1>a. CASE conn # "open"
    <2>1. ~Up'
        BY <1>a DEF SInv, ThreadsInStep, Up
    <2> QED BY <2>1 DEF StageFits
<1>b. CASE conn = "open"
    <2>a. faults \in Nat
        BY FaultsAssumption DEF SInv, IInv, TypeOK, StoreTypeOK
    <2>b. ASSUME Kept, pc \in SettledSteps PROVE StageFits'
        BY <2>a, <2>b, StageStays
    <2>c. ASSUME Raises, pc' = "abort" PROVE StageFits'
        BY <1>b, <2>a, <2>c, StageStays, CallOutcomes
    <2>d. ASSUME stage' \in {"idle", "done"} PROVE StageFits'
        BY <2>a, <2>d, StageStays
    <2>e. ASSUME pc' \notin SettledSteps \cup {"imp_rows", "imp_idle", "abort", "abort_stage"}
          PROVE  StageFits'
        BY <2>a, <2>e, StageStays
    <2> USE DEF Go
    <2>1. CASE ExpOpen
        <3>1. Kept /\ pc \in SettledSteps
            BY <1>b, <2>1, CallOutcomes DEF ExpOpen, SettledSteps
        <3> QED BY <2>b, <3>1
    <2>2. CASE ExpStage
        <3>1. pc' = "exp_write" \/ (Raises /\ pc' = "abort")
            BY <2>2 DEF ExpStage
        <3> QED BY <2>c, <2>e, <3>1 DEF SettledSteps
    <2>3. CASE ExpWrite \/ ExpPage \/ ExpPublish
        <3>1. pc' \in {"exp_write", "exp_page", "exp_failed", "exp_publish", "exp_idle"}
            BY <2>3 DEF ExpWrite, ExpPage, ExpPublish
        <3> QED BY <2>e, <3>1 DEF SettledSteps
    <2>4. CASE ExpIdle \/ ExpDone
        <3>1. stage' \in {"idle", "done"} \/ (Raises /\ pc' = "abort")
            BY <1>b, <2>4, CallOutcomes DEF ExpIdle, ExpDone
        <3> QED BY <2>c, <2>d, <3>1
    <2>5. CASE ExpResult \/ Finally \/ ThreadEnds
        <3>1. Kept /\ pc \in SettledSteps
            BY <1>b, <2>5, CallOutcomes DEF ExpResult, Finally, ThreadEnds, SettledSteps
        <3> QED BY <2>b, <3>1
    <2>6. CASE Abort
        <3>1. Kept /\ pc = "abort" /\ pc' = "abort_stage"
            BY <1>b, <2>6, CallOutcomes DEF Abort
        <3> QED BY <2>a, <3>1, StageStays DEF SettledSteps
    <2>7. CASE AbortStage
        <3>1. pc = "abort_stage" /\ (stage' = "idle" \/ Raises)
            BY <1>b, <2>7, CallOutcomes DEF AbortStage
        <3>2. Raises => Counted
            BY <1>b, CallOutcomes
        <3> QED BY <2>a, <2>d, <3>1, <3>2, StageStays
    <2> QED BY <2>1, <2>2, <2>3, <2>4, <2>5, <2>6, <2>7 DEF ExportStep
<1> QED BY <1>a, <1>b

LEMMA NextStageFits == SInv /\ StageFits /\ [Next]_vars => StageFits'
<1> SUFFICES ASSUME SInv, StageFits, [Next]_vars PROVE StageFits'
    OBVIOUS
<1>a. faults \in Nat
    BY FaultsAssumption DEF SInv, IInv, TypeOK, StoreTypeOK
<1>b. ASSUME UNCHANGED <<stage, faults, pc>>, spc \notin {"closed", "down"} PROVE StageFits'
    BY <1>b DEF StageFits, Settled, Up
<1>c. ASSUME ~Up' PROVE StageFits'
    BY <1>c DEF StageFits
<1>1. CASE WorkerStep
    <2>1. UNCHANGED spc
        BY <1>1, WorkerFrame DEF server
    <2> QED BY <1>1, <2>1, OptimizeStage, ImportStage, ExportStage DEF WorkerStep
<1>2. CASE Request
    <2>1. UNCHANGED <<stage, faults>> /\ spc = "serve"
        BY <1>2, RequestMoves DEF store
    <2>2. CASE \E j \in Jobs : j.kind # "none" /\ StartThread(j)
        <3>1. ~Busy /\ pc' \in SettledSteps
            BY <2>2, StartMoves DEF SettledSteps
        <3>2. pc = "dead" /\ Up
            BY <2>1, <3>1 DEF Busy, Up
        <3>3. Settled
            BY <3>2 DEF StageFits, SettledSteps
        <3>4. Settled'
            BY <2>1, <3>3 DEF Settled
        <3> QED BY <3>4 DEF StageFits
    <2>3. CASE UNCHANGED pc
        BY <1>b, <2>1, <2>3
    <2> QED BY <1>2, <2>2, <2>3, RequestMoves DEF OptimizerUnavailable
<1>3. CASE StopSet \/ StopUnpause \/ StopJoin \/ StopTimeout \/ ResetWorker \/ ReadStatus
           \/ StatusSent
    <2>1. UNCHANGED <<stage, faults, pc>> /\ spc \notin {"closed", "down"}
        BY <1>3 DEF StopSet, StopUnpause, StopJoin, StopTimeout, ResetWorker, WorkerReset,
                    ReadStatus, Observe, StatusSent, store
    <2> QED BY <1>b, <2>1
<1>4. CASE ResetDb
    <2>1. spc = "db_reset" /\ spc' = "serve" /\ conn = "open" /\ UNCHANGED pc
        BY <1>4 DEF ResetDb, SInv, ThreadsInStep, Up
    <2>2. stage' = "idle" \/ Counted
        BY <1>4, <2>1, CallOutcomes DEF ResetDb, Reset, FlagsOnly, Emptied, Counted
    <2> QED BY <1>a, <2>1, <2>2 DEF StageFits, Settled, Counted, Up
<1>5. CASE Close \/ Exit \/ Crash
    BY <1>5, <1>c DEF Close, Exit, Crash, ProcessGone, Up
<1>6. CASE Start
    BY <1>6 DEF Start, Open, StageFits, Settled
<1>7. CASE UNCHANGED vars
    BY <1>7 DEF vars, store, server, StageFits, Settled, Up
<1> QED BY <1>1, <1>2, <1>3, <1>4, <1>5, <1>6, <1>7 DEF Next, ServerStep

\* When no job runs, the stored stage is idle or done, unless an import lost
\* one database call or any job two (worker.py:109-138 and 161-186,
\* exporter.py:150-156, db.py:417-421).
THEOREM StageIsSettled == Spec => []StageSettles
<1>1. Init => StageFits
    BY DEF Init, StoreInit, StageFits, Settled
<1>2. StageFits => StageSettles
    BY DEF StageFits, Settled, SettledSteps, StageSettles, Busy
<1> QED BY <1>1, <1>2, NextStageFits, InStep, PTL DEF Spec
-----------------------------------------------------------------------------
(***************************************************************************)
(* What a step of an optimization is, as seen from the table: it waits, it *)
(* fails, it picks a product, or it writes the status of the product it    *)
(* holds and counts it.                                                    *)
(***************************************************************************)

selection == <<ids, left, item, data>>

\* No call to the database.
Waits ==
    /\ UNCHANGED <<rows, faults, selection, tally>>
    /\ \/ pc = "check" /\ pc' = "hold"
       \/ pc = "hold" /\ pc' = "recheck"
       \/ pc = "recheck" /\ pc' = "claim"
       \/ pc \in {"check", "recheck"} /\ pc' = "opt_idle" /\ stopEv
       \/ pc = "pace" /\ pc' = "unclaim" /\ stopEv
       \/ pc = "pace" /\ pc' = "call"
       \/ pc = "call" /\ pc' \in {"save", "save_error"}

\* A call that changes no row and no count.
Proceeds ==
    /\ UNCHANGED <<rows, faults, selection, tally>>
    /\ \/ pc = "opt_stage" /\ pc' = "opt_progress"
       \/ pc = "opt_idle" /\ pc' = "opt_result"

\* A call that fails.
Breaks ==
    /\ UNCHANGED <<rows, selection, tally>>
    /\ Raises
    /\ \/ pc' = "abort" /\ pc \in {"requeue", "opt_stage", "opt_progress", "opt_next", "claim",
                                   "save_error", "opt_idle"}
       \/ pc' = "save_error" /\ pc \in {"next_in_try", "missing", "unclaim", "save"}

Requeues ==
    /\ pc = "requeue" /\ pc' = "opt_stage"
    /\ rows' = RequeueErrors(rows, job.groups)
    /\ ids' = ErrorIds(rows, job.groups) /\ left' = ids'
    /\ UNCHANGED <<faults, item, data, tally>>

CountsFirst ==
    /\ pc = "opt_progress" /\ pc' = "opt_next"
    /\ tally' = Progress(rows)
    /\ UNCHANGED <<rows, faults, selection>>

Picks ==
    /\ pc \in {"opt_next", "next_in_try"}
    /\ NextPending \/ NextSelected
    /\ UNCHANGED <<rows, faults, ids, tally>>

\* The row of the product the thread holds gets a status, the others stay.
WritesStatus(status) ==
    /\ DOMAIN rows' = DOMAIN rows
    /\ \A j \in DOMAIN rows : j # item => rows'[j] = rows[j]
    /\ item \in DOMAIN rows =>
           /\ rows'[item].key = rows[item].key
           /\ rows'[item].data = rows[item].data
           /\ rows'[item].status = status
           /\ rows'[item].text = IF status = "done" THEN data ELSE None

Writes ==
    /\ UNCHANGED <<faults, selection>>
    /\ \/ /\ pc = "claim" /\ pc' \in {"missing", "pace", "call"}
          /\ WritesStatus("processing") /\ UNCHANGED tally
       \/ /\ pc = "missing" /\ pc' = "next_in_try"
          /\ WritesStatus("error") /\ tally' = [tally EXCEPT !.error = @ + 1]
       \/ /\ pc = "unclaim" /\ pc' = "opt_idle"
          /\ WritesStatus("pending") /\ UNCHANGED tally
       \/ /\ pc = "save" /\ pc' = "opt_next"
          /\ WritesStatus("done") /\ tally' = [tally EXCEPT !.done = @ + 1]
       \/ /\ pc = "save_error" /\ pc' = "opt_next"
          /\ WritesStatus("error") /\ tally' = [tally EXCEPT !.error = @ + 1]

Reports ==
    /\ pc = "opt_result" /\ pc' = "finally"
    /\ lastResult' = Result("optimized", tally.total, tally.done, tally.error)
    /\ UNCHANGED <<rows, faults, selection, tally>>

\* What update_product_status makes of the row the thread holds.
LEMMA UpdateWrites ==
    ASSUME IInv, pc \in Holding, NEW status \in Statuses, NEW text \in {None, data},
           NEW kind \in ErrorKinds \cup {None},
           SetRows(UpdateProductStatus(rows, item, status, text, kind)),
           text = IF status = "done" THEN data ELSE None
    PROVE  WritesStatus(status) /\ UNCHANGED faults
<1>1. rows \in Table
    BY DEF IInv, TypeOK, StoreTypeOK
<1>2. rows' = UpdateProductStatus(rows, item, status, text, kind) /\ UNCHANGED faults
    BY DEF SetRows, Commits
<1>3. DOMAIN rows' = DOMAIN rows /\ \A j \in DOMAIN rows : j # item => rows'[j] = rows[j]
    BY <1>2 DEF UpdateProductStatus
<1>4. ASSUME item \in DOMAIN rows
      PROVE  /\ rows'[item].key = rows[item].key /\ rows'[item].data = rows[item].data
             /\ rows'[item].status = status /\ rows'[item].text = text
    <2> DEFINE newText == IF text = None THEN rows[item].text ELSE text
               newKind == IF status = "error" THEN kind ELSE None
    <2>1. rows'[item] = [rows[item] EXCEPT !.status = status, !.text = newText, !.kind = newKind]
        BY <1>2, <1>4 DEF UpdateProductStatus
    <2>2. newText = text
        BY <1>4 DEF IInv, WorkIsCurrent
    <2>3. rows[item] \in Row
        BY <1>1, <1>4, TableRows
    <2> HIDE DEF newText, newKind
    <2> QED BY <2>1, <2>2, <2>3 DEF Row
<1> QED BY <1>2, <1>3, <1>4 DEF WritesStatus

\* The table of an optimization's steps.
LEMMA OptimizeTable ==
    ASSUME IInv, OptimizeStep
    PROVE  Waits \/ Proceeds \/ Breaks \/ Requeues \/ CountsFirst \/ Picks \/ Writes \/ Reports
<1> USE DEF selection, Go, optVars, optFrame
<1>a. "other" # None /\ "missing_data" # None
    BY NoneAssumption DEF ErrorKinds, ClassifiedKinds
<1>b. Raises => UNCHANGED rows
    BY DEF Raises
<1>c. UNCHANGED store => UNCHANGED <<rows, faults>>
    BY DEF store
<1>1. CASE Requeue
    BY <1>1, <1>b DEF Requeue, SetRows, Commits, Requeues, Breaks
<1>2. CASE OptStage \/ OptIdle
    BY <1>2, <1>b DEF OptStage, OptIdle, SetStage, Commits, Proceeds, Breaks
<1>3. CASE OptProgress
    BY <1>3, <1>b, <1>c DEF OptProgress, Reads, CountsFirst, Breaks
<1>4. CASE NextProduct
    BY <1>4, <1>b, <1>c DEF NextProduct, Reads, Picks, Breaks
<1>5. CASE NextInTry
    BY <1>5, <1>b, <1>c DEF NextInTry, Caught, Reads, Picks, Breaks
<1>6. CASE CheckStop \/ Hold \/ RecheckStop
    BY <1>6, <1>c DEF CheckStop, Hold, RecheckStop, Waits
<1>7. CASE Pace \/ Call
    BY <1>7, <1>c DEF Pace, Call, Caught, Waits
<1>8. CASE Claim
    <2>1. CASE SetRows(UpdateProductStatus(rows, item, "processing", None, None))
               /\ Go(AfterClaim)
        <3>1. pc \in Holding /\ pc = "claim" /\ UNCHANGED <<selection, tally>>
            BY <1>8 DEF Claim, Holding
        <3>2. pc' \in {"missing", "pace", "call"}
            BY <2>1 DEF AfterClaim
        <3>3. WritesStatus("processing") /\ UNCHANGED faults
            BY <2>1, <3>1, UpdateWrites DEF Statuses
        <3> QED BY <3>1, <3>2, <3>3 DEF Writes
    <2> QED BY <1>8, <1>b, <2>1 DEF Claim, Breaks
<1>9. CASE MissingData
    <2>1. CASE Failed("missing_data") /\ Go("next_in_try")
        <3>1. pc \in Holding /\ pc = "missing" /\ UNCHANGED selection
            BY <1>9 DEF MissingData, Holding, Claimed
        <3>2. WritesStatus("error") /\ UNCHANGED faults
            BY <2>1, <3>1, UpdateWrites DEF Failed, Statuses, ErrorKinds
        <3> QED BY <2>1, <3>1, <3>2 DEF Writes, Failed
    <2> QED BY <1>9, <1>b, <2>1 DEF MissingData, Caught, Breaks
<1>10. CASE Unclaim
    <2>1. CASE SetRows(UpdateProductStatus(rows, item, "pending", None, None)) /\ Go("opt_idle")
        <3>1. pc \in Holding /\ pc = "unclaim" /\ UNCHANGED <<selection, tally>>
            BY <1>10 DEF Unclaim, Holding, Claimed
        <3>2. WritesStatus("pending") /\ UNCHANGED faults
            BY <2>1, <3>1, UpdateWrites DEF Statuses
        <3> QED BY <2>1, <3>1, <3>2 DEF Writes
    <2> QED BY <1>10, <1>b, <2>1 DEF Unclaim, Caught, Breaks
<1>11. CASE Save
    <2>1. CASE /\ SetRows(UpdateProductStatus(rows, item, "done", data, None))
               /\ Go("opt_next") /\ tally' = [tally EXCEPT !.done = @ + 1]
        <3>1. pc \in Holding /\ pc = "save" /\ UNCHANGED selection
            BY <1>11 DEF Save, Holding, Claimed
        <3>2. WritesStatus("done") /\ UNCHANGED faults
            BY <2>1, <3>1, UpdateWrites DEF Statuses
        <3> QED BY <2>1, <3>1, <3>2 DEF Writes
    <2> QED BY <1>11, <1>b, <2>1 DEF Save, Caught, Breaks
<1>12. CASE SaveError
    <2>1. CASE Failed(failure) /\ Go("opt_next")
        <3>1. pc \in Holding /\ pc = "save_error" /\ UNCHANGED selection
            BY <1>12 DEF SaveError, Holding, Claimed
        <3>2. failure \in ErrorKinds \cup {None}
            BY DEF IInv, TypeOK, OptimizingTypeOK, ErrorKinds
        <3>3. WritesStatus("error") /\ UNCHANGED faults
            BY <2>1, <3>1, <3>2, UpdateWrites DEF Failed, Statuses
        <3> QED BY <2>1, <3>1, <3>3 DEF Writes, Failed
    <2> QED BY <1>12, <1>b, <2>1 DEF SaveError, Breaks
<1>13. CASE OptResult
    BY <1>13, <1>c DEF OptResult, Finish, Reports
<1> QED BY <1>1, <1>2, <1>3, <1>4, <1>5, <1>6, <1>7, <1>8, <1>9, <1>10, <1>11, <1>12, <1>13
        DEF OptimizeStep
-----------------------------------------------------------------------------
(***************************************************************************)
(* What the statements do to the status of a row                           *)
(***************************************************************************)

\* A reset that keeps the rows makes all of them pending.
LEMMA FlagPendingStatus ==
    ASSUME NEW t \in Table, NEW u, u = FlagPending(t)
    PROVE  DOMAIN u = DOMAIN t /\ \A i \in DOMAIN u : u[i].status = "pending"
<1>1. DOMAIN u = DOMAIN t
    BY FlagPendingType
<1>2. ASSUME NEW i \in DOMAIN t PROVE u[i].status = "pending"
    <2>1. t[i] \in Row
        BY TableRows
    <2>2. u[i] = [t[i] EXCEPT !.status = "pending", !.text = None, !.kind = None]
        BY DEF FlagPending
    <2> QED BY <2>1, <2>2 DEF Row
<1> QED BY <1>1, <1>2

\* A requeued row is pending, the others stay.
LEMMA RequeueErrorsStatus ==
    ASSUME NEW t \in Table, NEW kinds, NEW u, u = RequeueErrors(t, kinds)
    PROVE  /\ DOMAIN u = DOMAIN t
           /\ \A i \in DOMAIN t : i \notin ErrorIds(t, kinds) => u[i] = t[i]
           /\ \A i \in ErrorIds(t, kinds) : /\ t[i].status = "error"
                                            /\ u[i].status = "pending" /\ u[i].text = t[i].text
                                            /\ u[i].key = t[i].key /\ u[i].data = t[i].data
<1>1. DOMAIN u = DOMAIN t
    BY RequeueErrorsType
<1>2. \A i \in DOMAIN t : i \notin ErrorIds(t, kinds) => u[i] = t[i]
    BY DEF RequeueErrors
<1>3. ASSUME NEW i \in ErrorIds(t, kinds)
      PROVE  /\ t[i].status = "error" /\ u[i].status = "pending" /\ u[i].text = t[i].text
             /\ u[i].key = t[i].key /\ u[i].data = t[i].data
    <2>1. i \in DOMAIN t /\ t[i].status = "error"
        BY DEF ErrorIds, WithStatus
    <2>2. t[i] \in Row
        BY <2>1, TableRows
    <2>3. u[i] = [t[i] EXCEPT !.status = "pending", !.kind = None]
        BY <2>1 DEF RequeueErrors
    <2> QED BY <2>1, <2>2, <2>3 DEF Row
<1> QED BY <1>1, <1>2, <1>3

\* A start leaves no row in processing, and changes no other field.
LEMMA RequeueProcessingStatus ==
    ASSUME NEW t \in Table, NEW u, u = RequeueProcessing(t)
    PROVE  /\ DOMAIN u = DOMAIN t
           /\ \A i \in DOMAIN t :
                  /\ u[i].status = IF t[i].status = "processing" THEN "pending" ELSE t[i].status
                  /\ u[i].key = t[i].key /\ u[i].data = t[i].data /\ u[i].text = t[i].text
<1>1. DOMAIN u = DOMAIN t
    BY RequeueProcessingType
<1>2. ASSUME NEW i \in DOMAIN t
      PROVE  /\ u[i].status = IF t[i].status = "processing" THEN "pending" ELSE t[i].status
             /\ u[i].key = t[i].key /\ u[i].data = t[i].data /\ u[i].text = t[i].text
    <2>1. t[i] \in Row
        BY TableRows
    <2>2. u[i] = IF t[i].status = "processing" THEN [t[i] EXCEPT !.status = "pending"] ELSE t[i]
        BY DEF RequeueProcessing
    <2> QED BY <2>1, <2>2 DEF Row
<1> QED BY <1>1, <1>2

\* New products are pending.
LEMMA InsertStatus ==
    ASSUME NEW t \in Table, NEW ps \in Seq(Product), NEW u, u = InsertProducts(t, ps)
    PROVE  /\ \A i \in DOMAIN t : i \in DOMAIN u /\ u[i] = t[i]
           /\ \A i \in DOMAIN u \ DOMAIN t : u[i].status = "pending"
<1>1. u \in Table /\ Len(u) = Len(t) + Len(ps) /\ \A i \in DOMAIN t : u[i] = t[i]
    BY InsertType
<1>2. DOMAIN t \subseteq DOMAIN u
    <2>1. DOMAIN t = 1..Len(t) /\ DOMAIN u = 1..Len(u) /\ Len(t) \in Nat /\ Len(ps) \in Nat
        BY <1>1, TableRows
    <2> QED BY <1>1, <2>1
<1>3. \A i \in DOMAIN u \ DOMAIN t : u[i].status = "pending"
    BY InsertType DEF NewRow
<1> QED BY <1>1, <1>2, <1>3

\* Accepted corrections change the data of failed rows, and nothing else that shows.
LEMMA ApplyCorrectionsStatus ==
    ASSUME NEW t \in Table, NEW ps \in Seq(Product), NEW u, u = ApplyCorrections(t, ps)
    PROVE  /\ DOMAIN u = DOMAIN t
           /\ \A i \in DOMAIN t : /\ u[i].status = t[i].status /\ u[i].text = t[i].text
                                  /\ u[i].key = t[i].key
<1>1. DOMAIN u = DOMAIN t
    BY ApplyCorrectionsType
<1>2. ASSUME NEW i \in DOMAIN t
      PROVE  u[i].status = t[i].status /\ u[i].text = t[i].text /\ u[i].key = t[i].key
    <2>1. t[i] \in Row
        BY TableRows
    <2> DEFINE m == CHOOSE n \in DOMAIN ps : ps[n].key = t[i].key
    <2>2. u[i] = t[i] \/ u[i] = [t[i] EXCEPT !.data = ps[m].data, !.kind = "corrected"]
        BY DEF ApplyCorrections
    <2> HIDE DEF m
    <2> QED BY <2>1, <2>2 DEF Row
<1> QED BY <1>1, <1>2

\* What an import does to the table is one of its statements.
InsertsBatch ==
    /\ pc = "imp_rows" /\ loaded < Len(products)
    /\ rows' = InsertProducts(rows, NextBatch)

ReplacesBatch == pc = "replace" /\ rows' = InsertProducts(<<>>, products)

Corrects ==
    /\ pc = "cor_apply" /\ Correctable(rows, products)
    /\ rows' = ApplyCorrections(rows, products)

LEMMA ImportTable ==
    ASSUME ImportStep
    PROVE  UNCHANGED rows \/ InsertsBatch \/ ReplacesBatch \/ Corrects
<1>1. CASE ImpOpen \/ ImpHeaders \/ ImpMappings \/ ImpStage \/ ImpIdle \/ CorRead
    BY <1>1 DEF ImpOpen, ImpHeaders, ImpMappings, ImpStage, ImpIdle, CorRead, Unusable,
                SetHeaders, SetMappings, SetStage, Raises, Reads, store
<1>2. CASE ImpResult \/ Staging
    BY <1>2 DEF ImpResult, Staging, Unusable, store
<1>3. CASE ImpRows
    BY <1>3 DEF ImpRows, SetRows, Unusable, Raises, store, InsertsBatch
<1>4. CASE Replace \/ CorApply
    BY <1>4 DEF Replace, ReplaceFrom, CorApply, SetRows, Raises, Reads, store, ReplacesBatch,
                Corrects, products
<1> QED BY <1>1, <1>2, <1>3, <1>4 DEF ImportStep

-----------------------------------------------------------------------------
(***************************************************************************)
(* What every other step is, as seen from the thread and the table.        *)
(***************************************************************************)

frames == <<optFrame, expVars>>

\* The thread, its job and the table do not notice, except that it is told to stop.
Aside ==
    /\ UNCHANGED <<rows, faults, lastResult, job, pc, frames>>
    /\ overruns' = overruns \/ overruns' = overruns + 1
    /\ Up' => Up
    /\ stopEv /\ Busy => stopEv'

\* A reset forgets the worker's last result, then the rows; a thread that is
\* still alive was waited for in vain.
Forgets ==
    /\ UNCHANGED <<rows, faults, job, pc, frames, overruns>>
    /\ lastResult' = NoResult
    /\ Busy => overruns > 0
    /\ Up' => Up

Clears ==
    /\ UNCHANGED <<lastResult, job, pc, frames, overruns, stopEv>>
    /\ Busy => overruns > 0
    /\ overruns = 0 => lastResult = NoResult
    /\ \/ UNCHANGED rows /\ faults' = faults + 1
       \/ rows' = FlagPending(rows) /\ faults' = faults + 1
       \/ rows' \in {FlagPending(rows), <<>>} /\ faults' = faults
    /\ Up

\* A job begins, the process ends, a process begins.
Begins ==
    /\ \E j \in Jobs : j.kind # "none" /\ StartThread(j)
    /\ UNCHANGED <<rows, faults, frames, overruns>>
    /\ Up' => Up

Dies ==
    /\ pc' = "dead" /\ lastResult' = NoResult /\ ~Up'
    /\ Fresh /\ UNCHANGED <<disk, faults, overruns>>

Boots ==
    /\ pc = "dead" /\ lastResult = NoResult
    /\ rows' = RequeueProcessing(rows)
    /\ UNCHANGED <<lastResult, job, pc, frames, faults, overruns>>

Elsewhere == Aside \/ Forgets \/ Clears \/ Begins \/ Dies \/ Boots

\* The table of the steps the thread does not take.
LEMMA OthersTable ==
    ASSUME SInv, Request \/ ServerStep \/ Crash \/ Start \/ UNCHANGED vars
    PROVE  Elsewhere
<1> USE DEF frames, Elsewhere
<1>1. CASE Request
    <2>1. /\ spc = "serve" /\ UNCHANGED <<rows, faults, frames, overruns>>
        BY <1>1, RequestMoves DEF store, bounds, optFrame, expVars
    <2>2. Up
        BY <2>1 DEF Up
    <2>3. CASE \E j \in Jobs : j.kind # "none" /\ StartThread(j)
        BY <2>1, <2>2, <2>3 DEF Begins
    <2>4. CASE UNCHANGED <<lastResult, job, pc>> /\ (stopEv /\ Busy => stopEv')
        BY <2>1, <2>2, <2>4 DEF Aside
    <2> QED BY <1>1, <2>3, <2>4, RequestMoves DEF OptimizerUnavailable, workerMem
<1>2. CASE StopSet \/ StopUnpause \/ StopJoin \/ StopTimeout
    <2>1. UNCHANGED <<rows, faults, lastResult, job, pc, frames>> /\ (stopEv => stopEv') /\ Up
        BY <1>2 DEF StopSet, StopUnpause, StopJoin, StopTimeout, store, workerMem, jobFrames,
                    optVars, optFrame, Up
    <2>2. overruns' = overruns \/ overruns' = overruns + 1
        BY <1>2 DEF StopSet, StopUnpause, StopJoin, StopTimeout, bounds
    <2> QED BY <2>1, <2>2 DEF Aside
<1>3. CASE Close \/ ReadStatus \/ StatusSent
    <2>1. UNCHANGED <<rows, faults, lastResult, job, pc, frames, overruns, stopEv>> /\ Up
        BY <1>3 DEF Close, ReadStatus, StatusSent, Observe, tables, store, workerMem, jobFrames,
                    optVars, optFrame, bounds, Up
    <2> QED BY <2>1 DEF Aside
<1>4. CASE ResetWorker
    <2>1. UNCHANGED <<rows, faults, job, pc, frames, overruns>> /\ lastResult' = NoResult
          /\ spc = "worker_reset"
        BY <1>4 DEF ResetWorker, WorkerReset, store, jobFrames, optVars, optFrame, bounds
    <2> QED BY <2>1 DEF Forgets, SInv, ThreadsInStep, Up
<1>5. CASE ResetDb
    <2>1. UNCHANGED <<lastResult, job, pc, frames, overruns, stopEv>> /\ spc = "db_reset" /\ Up
        BY <1>5 DEF ResetDb, workerMem, jobFrames, optVars, optFrame, bounds, Up
    <2>2. conn = "open"
        BY <2>1 DEF SInv, ThreadsInStep
    <2>3. \/ UNCHANGED rows /\ faults' = faults + 1
          \/ rows' = FlagPending(rows) /\ faults' = faults + 1
          \/ rows' \in {FlagPending(rows), <<>>} /\ faults' = faults
        BY <1>5, <2>2 DEF ResetDb, Reset, FlagsOnly, Emptied, Commits, Raises
    <2> QED BY <2>1, <2>3 DEF Clears, SInv, ThreadsInStep
<1>6. CASE Exit \/ Crash
    <2>1. ProcessGone
        BY <1>6 DEF Exit, Crash
    <2> QED BY <2>1 DEF ProcessGone, Dies, Up
<1>7. CASE Start
    <2>1. pc = "dead" /\ lastResult = NoResult
        BY <1>7 DEF Start, SInv, ThreadsInStep
    <2> QED BY <1>7, <2>1 DEF Start, Open, workerMem, jobFrames, optVars, optFrame, bounds, Boots
<1>8. CASE UNCHANGED vars
    <2>1. UNCHANGED <<rows, faults, lastResult, job, pc, frames, overruns, stopEv, spc>>
        BY <1>8 DEF vars, store, workerMem, optVars, optFrame, server, bounds
    <2> QED BY <2>1 DEF Aside, Up
<1> QED BY <1>1, <1>2, <1>3, <1>4, <1>5, <1>6, <1>7, <1>8 DEF ServerStep

\* The steps of an optimization that hold a product.
LEMMA HoldingNames ==
    /\ Holding \subseteq OptimizeSteps
    /\ Holding \cap (ImportSteps \cup ExportSteps \cup WorkerSteps) = {}
BY DEF Holding, Claimed, OptimizeSteps, ImportSteps, ExportSteps, WorkerSteps
-----------------------------------------------------------------------------
(***************************************************************************)
(* The row the thread holds: its status is the one the thread gave it or   *)
(* found, unless a reset that no longer waited for the thread flagged it.  *)
(***************************************************************************)

Picking == {"check", "hold", "recheck", "claim"}

Fitting == IF pc \in Picking THEN {"pending"}
           ELSE IF pc = "next_in_try" THEN {"error"}
           ELSE IF pc = "save_error" THEN {"processing", "error"}
           ELSE {"processing"}

ItemFits ==
    pc \in Holding =>
        /\ overruns = 0 => item \in DOMAIN rows
        /\ item \in DOMAIN rows => \/ rows[item].status \in Fitting
                                   \/ overruns > 0 /\ rows[item].status = "pending"

LEMMA OptimizeItem ==
    ASSUME SInv, ItemFits, OptimizeStep, UNCHANGED overruns
    PROVE  ItemFits'
<1>a. ASSUME pc' \notin Holding PROVE ItemFits'
    BY <1>a DEF ItemFits
<1>1. CASE Waits
    <2>1. CASE pc' \in Holding
        <3>1. pc \in Holding /\ UNCHANGED <<rows, item>>
            BY <1>1, <2>1 DEF Waits, Holding, Claimed, selection
        <3>2. \A s \in Fitting : s \in Fitting'
            BY <1>1, <2>1, <3>1 DEF Waits, Fitting, Picking, Holding, Claimed
        <3> QED BY <3>1, <3>2 DEF ItemFits
    <2> QED BY <2>1, <1>a
<1>2. CASE Proceeds \/ Requeues \/ CountsFirst \/ Reports
    BY <1>2, <1>a DEF Proceeds, Requeues, CountsFirst, Reports, Holding, Claimed
<1>3. CASE Breaks
    <2>1. CASE pc' = "abort"
        BY <2>1, <1>a DEF Holding, Claimed
    <2>2. CASE pc' = "save_error" /\ pc \in {"next_in_try", "missing", "unclaim", "save"}
        <3>1. pc \in Holding /\ UNCHANGED <<rows, item>>
            BY <1>3, <2>2 DEF Breaks, Holding, Claimed, selection
        <3>2. \A s \in Fitting : s \in Fitting'
            BY <2>2 DEF Fitting, Picking
        <3> QED BY <3>1, <3>2 DEF ItemFits
    <2> QED BY <1>3, <2>1, <2>2 DEF Breaks
<1>4. CASE Picks
    <2>1. ASSUME NEW i \in DOMAIN rows, rows[i].status = "pending", Picked(i)
          PROVE  ItemFits'
        <3>1. pc' = "check" /\ item' = i /\ rows' = rows
            BY <1>4, <2>1 DEF Picks, Picked, Go
        <3> QED BY <2>1, <3>1 DEF ItemFits, Fitting, Picking
    <2>2. CASE Go("opt_idle")
        BY <2>2, <1>a DEF Go, Holding, Claimed
    <2>3. CASE Go(pc) /\ UNCHANGED item
        BY <1>4, <2>3 DEF Picks, Go, ItemFits, Fitting
    <2> QED BY <1>4, <2>1, <2>2, <2>3
            DEF Picks, NextPending, NextSelected, IsNextPending, WithStatus
<1>5. CASE Writes
    <2>1. pc \in Holding /\ item' = item
        BY <1>5 DEF Writes, Holding, Claimed, selection
    <2>2. CASE pc' \in Holding
        <3>1. \/ pc' \in {"missing", "pace", "call"} /\ WritesStatus("processing")
              \/ pc' = "next_in_try" /\ WritesStatus("error")
            BY <1>5, <2>2 DEF Writes, Holding, Claimed
        <3>2. DOMAIN rows' = DOMAIN rows
            BY <3>1 DEF WritesStatus
        <3>3. item \in DOMAIN rows => rows'[item].status \in Fitting'
            BY <3>1 DEF WritesStatus, Fitting, Picking
        <3> QED BY <2>1, <3>2, <3>3 DEF ItemFits
    <2> QED BY <2>2, <1>a
<1> QED BY <1>1, <1>2, <1>3, <1>4, <1>5, OptimizeTable DEF SInv

LEMMA NextItemFits == SInv /\ ItemFits /\ [Next]_vars => ItemFits'
<1> SUFFICES ASSUME SInv, ItemFits, [Next]_vars PROVE ItemFits'
    OBVIOUS
<1>a. ASSUME pc' \notin Holding PROVE ItemFits'
    BY <1>a DEF ItemFits
<1>b. rows \in Table /\ overruns \in Nat
    BY DEF SInv, IInv, TypeOK, StoreTypeOK
<1>1. CASE WorkerStep
    <2>1. UNCHANGED overruns
        BY <1>1, WorkerFrame DEF bounds
    <2>2. CASE OptimizeStep
        BY <2>1, <2>2, OptimizeItem
    <2>3. CASE ImportStep
        BY <2>3, <1>a, ImportEffect DEF SInv
    <2>4. CASE ExportStep \/ Abort \/ AbortStage \/ Finally \/ ThreadEnds
        BY <2>4, <1>a, OtherWorkEffect DEF SInv
    <2> QED BY <1>1, <2>2, <2>3, <2>4 DEF WorkerStep
<1>2. CASE Aside \/ Forgets
    <2>1. UNCHANGED <<rows, pc, item>> /\ (overruns' = overruns \/ overruns' = overruns + 1)
        BY <1>2 DEF Aside, Forgets, frames, optFrame
    <2> QED BY <1>b, <2>1 DEF ItemFits, Fitting
<1>3. CASE Clears
    <2>1. UNCHANGED <<pc, item, overruns>> /\ (pc \in Holding => overruns > 0)
        BY <1>3 DEF Clears, frames, optFrame, Busy, Holding, Claimed
    <2>2. CASE UNCHANGED rows
        BY <2>1, <2>2 DEF ItemFits, Fitting
    <2>3. CASE rows' = FlagPending(rows)
        <3>1. \A i \in DOMAIN rows' : rows'[i].status = "pending"
            BY <1>b, <2>3, FlagPendingStatus
        <3> QED BY <1>b, <2>1, <3>1 DEF ItemFits
    <2>4. CASE rows' = <<>>
        BY <1>b, <2>1, <2>4 DEF ItemFits
    <2> QED BY <1>3, <2>2, <2>3, <2>4 DEF Clears
<1>4. CASE Begins
    <2>1. pc' \notin Holding
        BY <1>4, StartMoves DEF Begins, Holding, Claimed
    <2> QED BY <2>1, <1>a
<1>5. CASE Dies \/ Boots
    BY <1>5, <1>a DEF Dies, Boots, Holding, Claimed
<1> QED BY <1>1, <1>2, <1>3, <1>4, <1>5, OthersTable DEF Next, Elsewhere

LEMMA ItemFit == Spec => []ItemFits
<1>1. Init => ItemFits
    BY DEF Init, WorkerInit, ItemFits, Holding, Claimed
<1> QED BY <1>1, NextItemFits, InStep, PTL DEF Spec
-----------------------------------------------------------------------------
(***************************************************************************)
(* Rows left in processing.  The thread leaves its product there only when *)
(* the call that records an error fails.                                   *)
(***************************************************************************)

\* No new orphan; or one, with the failed call that made it.
LEMMA OrphansCounted ==
    ASSUME rows \in Table, rows' \in Table, faults \in Nat, Cardinality(Orphans) <= faults,
           \/ Orphans' \subseteq Orphans /\ faults' \in {faults, faults + 1}
           \/ Orphans' \subseteq Orphans \cup {item} /\ faults' = faults + 1
    PROVE  Cardinality(Orphans') <= faults'
<1>1. IsFiniteSet(DOMAIN rows) /\ Orphans \subseteq DOMAIN rows
    BY TableRows, FS_Interval DEF Orphans, WithStatus
<1>2. IsFiniteSet(Orphans) /\ Cardinality(Orphans) \in Nat
    BY <1>1, FS_Subset, FS_CardinalityType
<1>3. CASE Orphans' \subseteq Orphans /\ faults' \in {faults, faults + 1}
    <2>1. IsFiniteSet(Orphans') /\ Cardinality(Orphans') <= Cardinality(Orphans)
        BY <1>2, <1>3, FS_Subset
    <2>2. Cardinality(Orphans') \in Nat
        BY <2>1, FS_CardinalityType
    <2> QED BY <1>2, <1>3, <2>1, <2>2
<1>4. CASE Orphans' \subseteq Orphans \cup {item} /\ faults' = faults + 1
    <2> DEFINE more == Orphans \cup {item}
    <2>1. IsFiniteSet(more) /\ Cardinality(more) \in {Cardinality(Orphans), Cardinality(Orphans) + 1}
        BY <1>2, FS_AddElement
    <2>2. IsFiniteSet(Orphans') /\ Cardinality(Orphans') <= Cardinality(more)
        BY <1>4, <2>1, FS_Subset
    <2>3. Cardinality(Orphans') \in Nat
        BY <2>2, FS_CardinalityType
    <2> QED BY <1>2, <1>4, <2>1, <2>2, <2>3
<1> QED BY <1>3, <1>4

\* A step of an optimization on the open database.
LEMMA OptimizeOrphans ==
    ASSUME SInv, OptimizeStep, conn = "open", rows' \in Table
    PROVE  \/ Orphans' \subseteq Orphans /\ faults' \in {faults, faults + 1}
           \/ Orphans' \subseteq Orphans \cup {item} /\ faults' = faults + 1
<1> USE DEF Orphans, WithStatus
<1>a. rows \in Table
    BY DEF SInv, IInv, TypeOK, StoreTypeOK
<1>1. CASE Waits
    <2>1. UNCHANGED <<rows, item, faults>> /\ (pc \in Claimed => pc' \in Claimed)
        BY <1>1 DEF Waits, selection, Claimed
    <2> QED BY <2>1
<1>2. CASE Proceeds \/ CountsFirst \/ Reports
    <2>1. UNCHANGED <<rows, faults>> /\ pc \notin Claimed
        BY <1>2 DEF Proceeds, CountsFirst, Reports, Claimed
    <2> QED BY <2>1
<1>3. CASE Breaks
    <2>1. UNCHANGED <<rows, item>> /\ faults' = faults + 1
        BY <1>3, RaisesCounted DEF Breaks, selection
    <2> QED BY <2>1
<1>4. CASE Requeues
    <2>1. faults' = faults /\ pc \notin Claimed /\ rows' = RequeueErrors(rows, job.groups)
        BY <1>4 DEF Requeues, Claimed
    <2>2. \A i \in DOMAIN rows' :
              i \in DOMAIN rows /\ (rows'[i] = rows[i] \/ rows'[i].status = "pending")
        BY <1>a, <2>1, RequeueErrorsStatus
    <2> QED BY <2>1, <2>2
<1>5. CASE Picks
    <2>1. UNCHANGED <<rows, faults>> /\ pc \notin Claimed
        BY <1>5 DEF Picks, Claimed
    <2> QED BY <2>1
<1>6. CASE Writes
    <2>1. UNCHANGED <<faults, item>>
        BY <1>6 DEF Writes, selection
    <2>2. \A j \in DOMAIN rows' : j \in DOMAIN rows /\ (j # item => rows'[j] = rows[j])
        BY <1>6 DEF Writes, WritesStatus
    <2>3. pc' \in Claimed \/ (item \in DOMAIN rows => rows'[item].status # "processing")
        BY <1>6 DEF Writes, WritesStatus, Claimed
    <2>4. item \notin Orphans'
        BY <2>1, <2>2, <2>3
    <2>5. \A j \in Orphans' : j \in Orphans
        BY <2>2, <2>4
    <2> QED BY <2>1, <2>5
<1> QED BY <1>1, <1>2, <1>3, <1>4, <1>5, <1>6, OptimizeTable DEF SInv

\* A step of an import.
LEMMA ImportOrphans ==
    ASSUME SInv, ImportStep
    PROVE  Orphans' \subseteq Orphans
<1>a. rows \in Table /\ products \in Seq(Product) /\ WorkerTypeOK /\ ImportingTypeOK
    BY JobFile DEF SInv, IInv, TypeOK, StoreTypeOK
<1>b. pc \notin Claimed
    BY ImportMoves, HoldingNames DEF Holding
<1>c. ASSUME \A i \in DOMAIN rows' :
                 rows'[i].status = "pending" \/ (i \in DOMAIN rows /\ rows'[i].status = rows[i].status)
      PROVE  Orphans' \subseteq Orphans
    BY <1>b, <1>c DEF Orphans, WithStatus
<1>1. CASE UNCHANGED rows
    BY <1>1, <1>c
<1>2. CASE InsertsBatch
    <2>1. NextBatch \in Seq(Product) /\ rows' = InsertProducts(rows, NextBatch)
        BY <1>2, <1>a, BatchType DEF InsertsBatch
    <2>2. /\ \A i \in DOMAIN rows : i \in DOMAIN rows' /\ rows'[i] = rows[i]
          /\ \A i \in DOMAIN rows' \ DOMAIN rows : rows'[i].status = "pending"
        BY <1>a, <2>1, InsertStatus
    <2> QED BY <1>c, <2>2
<1>3. CASE ReplacesBatch
    <2>1. <<>> \in Table /\ rows' = InsertProducts(<<>>, products) /\ DOMAIN <<>> = {}
        BY <1>3 DEF ReplacesBatch, Table
    <2>2. \A i \in DOMAIN rows' \ DOMAIN <<>> : rows'[i].status = "pending"
        BY <1>a, <2>1, InsertStatus
    <2> QED BY <1>c, <2>1, <2>2
<1>4. CASE Corrects
    BY <1>4, <1>a, <1>c, ApplyCorrectionsStatus DEF Corrects
<1> QED BY <1>1, <1>2, <1>3, <1>4, ImportTable

LEMMA NextOrphans == SInv /\ OrphansNeedFaults /\ [Next]_vars => OrphansNeedFaults'
<1> SUFFICES ASSUME SInv, OrphansNeedFaults, [Next]_vars, Up' PROVE Cardinality(Orphans') <= faults'
    BY DEF OrphansNeedFaults
<1>a. rows \in Table /\ rows' \in Table /\ faults \in Nat /\ faults' \in Nat
    BY NextSafe, FaultsAssumption DEF SInv, IInv, TypeOK, StoreTypeOK
<1>b. ASSUME Up, \/ Orphans' \subseteq Orphans /\ faults' \in {faults, faults + 1}
                 \/ Orphans' \subseteq Orphans \cup {item} /\ faults' = faults + 1
      PROVE  Cardinality(Orphans') <= faults'
    BY <1>a, <1>b, OrphansCounted DEF OrphansNeedFaults
<1>c. ASSUME Orphans' = {} PROVE Cardinality(Orphans') <= faults'
    BY <1>a, <1>c, FS_EmptySet
<1>1. CASE WorkerStep
    <2>1. Up /\ conn = "open" /\ faults' \in {faults, faults + 1}
        BY <1>1, WorkerFrame DEF server, Up, SInv, ThreadsInStep, ThreadFrame
    <2>2. CASE OptimizeStep
        BY <1>a, <1>b, <2>1, <2>2, OptimizeOrphans
    <2>3. CASE ImportStep
        BY <1>b, <2>1, <2>3, ImportOrphans
    <2>4. CASE ExportStep \/ Abort \/ AbortStage \/ Finally \/ ThreadEnds
        <3>1. UNCHANGED rows /\ pc \notin Claimed
            BY <2>4, OtherWorkEffect, HoldingNames DEF SInv, Holding
        <3>2. Orphans' \subseteq Orphans
            BY <3>1 DEF Orphans, WithStatus
        <3> QED BY <1>b, <2>1, <3>2
    <2> QED BY <1>1, <2>2, <2>3, <2>4 DEF WorkerStep
<1>2. CASE Aside \/ Forgets
    <2>1. UNCHANGED <<rows, pc, item, faults>> /\ Up
        BY <1>2 DEF Aside, Forgets, frames, optFrame
    <2>2. Orphans' = Orphans
        BY <2>1 DEF Orphans, WithStatus
    <2> QED BY <1>b, <2>1, <2>2
<1>3. CASE Clears
    <2>1. Up /\ UNCHANGED <<pc, item>>
        BY <1>3 DEF Clears, frames, optFrame
    <2>2. CASE UNCHANGED rows /\ faults' = faults + 1
        <3>1. Orphans' = Orphans
            BY <2>1, <2>2 DEF Orphans, WithStatus
        <3> QED BY <1>b, <2>1, <2>2, <3>1
    <2>3. CASE rows' = FlagPending(rows)
        <3>1. Orphans' = {}
            BY <1>a, <2>3, FlagPendingStatus DEF Orphans, WithStatus
        <3> QED BY <1>c, <3>1
    <2>4. CASE rows' = <<>>
        BY <1>c, <2>4 DEF Orphans, WithStatus
    <2> QED BY <1>3, <2>2, <2>3, <2>4 DEF Clears
<1>4. CASE Begins
    <2>1. UNCHANGED <<rows, faults>> /\ pc = "dead" /\ Up
        BY <1>4, StartMoves DEF Begins, Busy
    <2>2. Orphans' \subseteq Orphans
        BY <2>1 DEF Orphans, WithStatus, Claimed
    <2> QED BY <1>b, <2>1, <2>2
<1>5. CASE Dies
    BY <1>5 DEF Dies
<1>6. CASE Boots
    <2>1. \A i \in DOMAIN rows' : rows'[i].status # "processing"
        BY <1>6, <1>a, RequeueProcessingStatus DEF Boots
    <2> QED BY <1>c, <2>1 DEF Orphans, WithStatus
<1> QED BY <1>1, <1>2, <1>3, <1>4, <1>5, <1>6, OthersTable DEF Next, Elsewhere

\* While the daemon is up, a row in processing that no thread works on has a
\* failed database call of its own (optimizer.py:138-174, db.py:406-422).
THEOREM OrphansAreFaults == Spec => []OrphansNeedFaults
<1>1. Init => OrphansNeedFaults
    <2> SUFFICES ASSUME Init PROVE OrphansNeedFaults
        OBVIOUS
    <2>1. faults = 0
        BY DEF Init, StoreInit
    <2>2. \A i \in DOMAIN rows : rows[i].status # "processing"
        <3>1. <<>> \in Table /\ DOMAIN <<>> = {}
            BY DEF Table
        <3>2. ASSUME NEW f \in Files, rows = InsertProducts(<<>>, f.products)
              PROVE  \A i \in DOMAIN rows : rows[i].status # "processing"
            BY <3>1, <3>2, FileType, InsertStatus
        <3> QED BY <3>1, <3>2 DEF Init, StoreInit
    <2>3. Orphans = {}
        BY <2>2 DEF Orphans, WithStatus
    <2> QED BY <2>1, <2>3, FS_EmptySet DEF OrphansNeedFaults
<1> QED BY <1>1, NextOrphans, InStep, PTL DEF Spec
-----------------------------------------------------------------------------
(***************************************************************************)
(* Complete runs.  A product that is pending and selected is still in the  *)
(* iterator, or it is the one the thread has picked and not yet claimed;   *)
(* a loop that was not stopped ends with an empty iterator.                *)
(***************************************************************************)

Selecting == OptimizeSteps \ {"requeue", "opt_idle", "opt_result"}

Ending == pc \in {"opt_idle", "opt_result"} \/ (pc = "finally" /\ lastResult.kind = "optimized")

NoneLeft == \A i \in WithStatus(rows, "pending") : job.kind = "retry" /\ i \notin ids

SelectionFits ==
    overruns = 0 =>
        /\ pc = "unclaim" => stopEv
        /\ pc \in Selecting /\ job.kind = "retry" =>
               \A i \in WithStatus(rows, "pending") :
                   i \in ids => i \in left \/ (pc \in Picking /\ i = item)
        /\ Ending /\ ~stopEv => NoneLeft

\* A step of an optimization keeps to the selection.
LEMMA OptimizeSelection ==
    ASSUME SInv, SelectionFits, OptimizeStep, UNCHANGED <<events, job>>, overruns' = 0,
           overruns = 0
    PROVE  SelectionFits'
<1> USE DEF SelectionFits, Ending, NoneLeft, Selecting, WithStatus, OptimizeSteps, Picking, selection
<1>a. UNCHANGED <<stopEv, job>> /\ (pc' = "finally" => pc = "opt_result")
    BY OptimizeMoves DEF events
<1>1. CASE Waits
    BY <1>a, <1>1 DEF Waits
<1>2. CASE Proceeds
    BY <1>a, <1>2 DEF Proceeds
<1>3. CASE Breaks
    BY <1>a, <1>3 DEF Breaks
<1>4. CASE Requeues
    <2>1. pc' = "opt_stage" /\ left' = ids'
        BY <1>4 DEF Requeues
    <2> QED BY <2>1
<1>5. CASE CountsFirst
    BY <1>a, <1>5 DEF CountsFirst
<1>6. CASE Picks
    <2>a. UNCHANGED <<rows, ids>> /\ pc \in {"opt_next", "next_in_try"}
        BY <1>6 DEF Picks
    <2>1. CASE NextPending
        <3>1. job.kind = "optimize" /\ (pc' = "check" \/ (pc' = "opt_idle" /\ NonePending(rows)))
            BY <2>1 DEF NextPending, Picked, Go
        <3> QED BY <1>a, <2>a, <3>1 DEF NonePending
    <2>2. CASE NextSelected
        <3>a. job.kind = "retry"
            BY <2>2 DEF NextSelected
        <3>b. \A i \in WithStatus(rows, "pending") : i \in ids => i \in left
            BY <2>a, <3>a
        <3>1. ASSUME NEW i \in left, left' = left \ {i}, Picked(i) PROVE SelectionFits'
            <4>1. pc' = "check" /\ item' = i
                BY <3>1 DEF Picked, Go
            <4> QED BY <1>a, <2>a, <3>b, <3>1, <4>1
        <3>2. ASSUME NEW i \in left, left' = left \ {i}, i \notin WithStatus(rows, "pending"), Go(pc)
              PROVE  SelectionFits'
            <4>1. pc' = pc
                BY <3>2 DEF Go
            <4> QED BY <1>a, <2>a, <3>b, <3>2, <4>1
        <3>3. CASE left = {} /\ Go("opt_idle")
            <4>1. pc' = "opt_idle"
                BY <3>3 DEF Go
            <4> QED BY <1>a, <2>a, <3>a, <3>b, <3>3, <4>1
        <3> QED BY <2>2, <3>1, <3>2, <3>3 DEF NextSelected
    <2> QED BY <1>6, <2>1, <2>2 DEF Picks
<1>7. CASE Writes
    <2>1. CASE pc = "unclaim" /\ pc' = "opt_idle"
        BY <1>a, <2>1
    <2>2. CASE pc # "unclaim"
        <3>1. UNCHANGED <<ids, left, item>> /\ pc' \notin Picking /\ pc' \in Selecting
              /\ pc \in Selecting /\ pc' # "unclaim"
            BY <1>7, <2>2 DEF Writes
        <3>2. \A j \in DOMAIN rows' : j \in DOMAIN rows /\ (j # item => rows'[j] = rows[j])
            BY <1>7 DEF Writes, WritesStatus
        <3>3. item \in DOMAIN rows => rows'[item].status # "pending"
            BY <1>7, <2>2 DEF Writes, WritesStatus
        <3>4. \A j \in WithStatus(rows, "pending")' : j \in WithStatus(rows, "pending") /\ j # item
            BY <3>1, <3>2, <3>3
        <3> QED BY <1>a, <3>1, <3>4
    <2> QED BY <1>7, <2>1, <2>2 DEF Writes
<1>8. CASE Reports
    BY <1>a, <1>8 DEF Reports
<1> QED BY <1>1, <1>2, <1>3, <1>4, <1>5, <1>6, <1>7, <1>8, OptimizeTable DEF SInv

LEMMA NextSelectionFits == SInv /\ SelectionFits /\ [Next]_vars => SelectionFits'
<1> SUFFICES ASSUME SInv, SelectionFits, [Next]_vars, overruns' = 0 PROVE SelectionFits'
    BY DEF SelectionFits
<1>a. overruns \in Nat
    BY DEF SInv, IInv, TypeOK
<1>b. ASSUME pc' \notin OptimizeSteps, ~Ending' PROVE SelectionFits'
    BY <1>b DEF SelectionFits, Selecting, OptimizeSteps
<1>1. CASE WorkerStep
    <2>1. overruns = 0 /\ UNCHANGED <<events, job>>
        BY <1>1, WorkerFrame DEF bounds, ThreadFrame
    <2>2. CASE OptimizeStep
        BY <2>1, <2>2, OptimizeSelection
    <2>3. CASE ImportStep \/ ExportStep
        <3>1. pc' \in ImportSteps \cup ExportSteps \cup {"abort", "finally"}
            BY <2>3, ImportMoves, ExportMoves
        <3>2. pc' = "finally" => lastResult'.kind # "optimized"
            BY <2>3, ImportMoves, ExportMoves DEF ImportSteps, ExportSteps
        <3> QED BY <1>b, <3>1, <3>2 DEF Ending, OptimizeSteps, ImportSteps, ExportSteps
    <2>4. CASE Abort \/ AbortStage \/ Finally \/ ThreadEnds
        <3>1. pc' \in {"abort_stage", "finally", "exiting", "dead"}
            BY <2>4, EndMoves
        <3>2. pc' = "finally" => pc = "abort_stage" /\ UNCHANGED lastResult
            BY <2>4, EndMoves
        <3>3. pc' = "finally" => lastResult'.kind # "optimized"
            BY <3>2 DEF SInv, JobInStep, Busy
        <3> QED BY <1>b, <3>1, <3>3 DEF Ending, OptimizeSteps
    <2> QED BY <1>1, <2>2, <2>3, <2>4 DEF WorkerStep
<1>2. CASE Aside
    <2>1. UNCHANGED <<rows, pc, ids, left, item, job, lastResult>>
          /\ (stopEv /\ Busy => stopEv') /\ overruns = 0
        BY <1>2, <1>a DEF Aside, frames, optFrame
    <2>2. pc \in OptimizeSteps \cup {"finally"} => Busy
        BY DEF OptimizeSteps, Busy
    <2> QED BY <2>1, <2>2 DEF SelectionFits, Ending, NoneLeft, Selecting, OptimizeSteps
<1>3. CASE Forgets \/ Clears
    <2>1. pc' = "dead"
        BY <1>3 DEF Forgets, Clears, Busy
    <2> QED BY <1>b, <2>1 DEF Ending, OptimizeSteps
<1>4. CASE Begins
    <2>1. PICK j \in Jobs : j.kind # "none" /\ StartThread(j)
        BY <1>4 DEF Begins
    <2>2. job' = j /\ ~Ending' /\ pc' # "unclaim"
        BY <2>1, StartMoves DEF Ending
    <2>3. pc' \in Selecting => job'.kind # "retry"
        <3>1. pc' \in Selecting => j.kind = "optimize"
            BY <2>1, StartMoves DEF Selecting, OptimizeSteps
        <3> QED BY <2>2, <3>1
    <2> QED BY <2>2, <2>3 DEF SelectionFits
<1>5. CASE Dies \/ Boots
    <2>1. pc' = "dead"
        BY <1>5 DEF Dies, Boots
    <2> QED BY <1>b, <2>1 DEF Ending, OptimizeSteps
<1> QED BY <1>1, <1>2, <1>3, <1>4, <1>5, OthersTable DEF Next, Elsewhere

\* An optimization that was never told to stop leaves no product of its
\* selection pending, whatever fails, is paused or has no data
\* (optimizer.py:114-180).
THEOREM RunsAreComplete == Spec => []RunIsComplete
<1>1. Init => SelectionFits
    BY DEF Init, WorkerInit, SelectionFits, Ending, Selecting, OptimizeSteps
<1>2. SelectionFits => RunIsComplete
    BY DEF SelectionFits, Ending, NoneLeft, RunIsComplete
<1> QED BY <1>1, <1>2, NextSelectionFits, InStep, PTL DEF Spec
-----------------------------------------------------------------------------
(***************************************************************************)
(* The totals of a run.  From the first progress on, the job's own counts  *)
(* are those of the table, but for one failure counted twice with each     *)
(* failed call; at save_error it may be about to count one twice.          *)
(***************************************************************************)

Counting == OptimizeSteps \ {"requeue", "opt_stage", "opt_progress"}

Matches(t, c, slack) ==
    /\ c.total = Len(t)
    /\ c.done = Cardinality(WithStatus(t, "done"))
    /\ c.error - Cardinality(WithStatus(t, "error")) \in 0..slack

Slack == IF pc = "save_error" /\ rows[item].status = "error" THEN faults - 1 ELSE faults

CountsFit ==
    overruns = 0 =>
        /\ pc \in Counting => Matches(rows, tally, Slack)
        /\ Up /\ lastResult.kind = "optimized" => Matches(rows, lastResult, faults)

\* The sets that are counted.
LEMMA StatusCounts ==
    ASSUME NEW t \in Table, NEW status
    PROVE  /\ IsFiniteSet(WithStatus(t, status))
           /\ Cardinality(WithStatus(t, status)) \in Nat
<1>1. IsFiniteSet(DOMAIN t)
    BY TableRows, FS_Interval
<1>2. WithStatus(t, status) \subseteq DOMAIN t
    BY DEF WithStatus
<1> QED BY <1>1, <1>2, FS_Subset, FS_CardinalityType

\* A write to the row the thread holds adds it to the rows of its new status,
\* unless it was one of them, and to no others.
LEMMA WriteCounts ==
    ASSUME rows \in Table, rows' \in Table, item \in DOMAIN rows, NEW status, WritesStatus(status)
    PROVE  /\ Len(rows') = Len(rows)
           /\ rows[item].status # status =>
                  Cardinality(WithStatus(rows', status)) =
                      Cardinality(WithStatus(rows, status)) + 1
           /\ rows[item].status = status =>
                  WithStatus(rows', status) = WithStatus(rows, status)
           /\ \A s : s # status /\ rows[item].status # s =>
                  WithStatus(rows', s) = WithStatus(rows, s)
<1> USE DEF WithStatus
<1>1. DOMAIN rows' = DOMAIN rows /\ rows'[item].status = status
      /\ \A j \in DOMAIN rows : j # item => rows'[j] = rows[j]
    BY DEF WritesStatus
<1>2. Len(rows') = Len(rows)
    <2>1. 1..Len(rows') = 1..Len(rows) /\ Len(rows) \in Nat /\ Len(rows') \in Nat
        BY <1>1, TableRows
    <2> QED BY <2>1, SameLength
<1>3. ASSUME rows[item].status # status
      PROVE  Cardinality(WithStatus(rows', status)) = Cardinality(WithStatus(rows, status)) + 1
    <2>1. WithStatus(rows', status) = WithStatus(rows, status) \cup {item}
        BY <1>1
    <2>2. item \notin WithStatus(rows, status)
        BY <1>3
    <2>3. IsFiniteSet(WithStatus(rows, status))
        BY StatusCounts
    <2> HIDE DEF WithStatus
    <2> QED BY <2>1, <2>2, <2>3, FS_AddElement
<1>4. ASSUME rows[item].status = status
      PROVE  WithStatus(rows', status) = WithStatus(rows, status)
    BY <1>1, <1>4
<1>5. ASSUME NEW s, s # status, rows[item].status # s
      PROVE  WithStatus(rows', s) = WithStatus(rows, s)
    BY <1>1, <1>5
<1> QED BY <1>2, <1>3, <1>4, <1>5

\* The job keeps its counts while the table changes in step with them.
LEMMA OptimizeCounts ==
    ASSUME SInv, ItemFits, CountsFit, OptimizeStep, rows' \in Table, overruns = 0, conn = "open"
    PROVE  pc' \in Counting => Matches(rows, tally, Slack)'
<1> SUFFICES ASSUME pc' \in Counting PROVE Matches(rows', tally', Slack')
    OBVIOUS
<1> USE DEF Counting, OptimizeSteps, selection
<1>a. rows \in Table /\ faults \in Nat /\ tally \in [total : Nat, done : Nat, error : Nat]
    BY FaultsAssumption DEF SInv, IInv, TypeOK, StoreTypeOK, OptimizingTypeOK
<1>b. pc \in Counting => Matches(rows, tally, Slack)
    BY DEF CountsFit
<1>c. pc # "save_error" => Slack = faults
    BY DEF Slack
<1>d. pc' # "save_error" => Slack' = faults'
    BY DEF Slack
<1>e. pc \in Holding => item \in DOMAIN rows /\ rows[item].status \in Fitting
    BY DEF ItemFits
<1>f. ASSUME NEW c, NEW m, NEW n, m <= n, m \in Int, n \in Int, Matches(rows, c, m)
      PROVE  Matches(rows, c, n)
    <2>1. c.error - Cardinality(WithStatus(rows, "error")) \in 0..n
        BY <1>f DEF Matches
    <2> QED BY <1>f, <2>1 DEF Matches
<1>1. CASE Waits
    <2>1. CASE pc' = "save_error"
        <3>1. pc = "call" /\ UNCHANGED <<rows, item, faults, tally>>
            BY <1>1, <2>1 DEF Waits
        <3>2. rows[item].status # "error"
            BY <1>e, <3>1 DEF Holding, Claimed, Fitting, Picking
        <3>3. Slack' = Slack
            BY <3>1, <3>2 DEF Slack
        <3> QED BY <1>b, <3>1, <3>3
    <2>2. CASE pc' # "save_error"
        <3>1. UNCHANGED <<rows, faults, tally>> /\ pc \in Counting /\ pc # "save_error"
            BY <1>1 DEF Waits
        <3> QED BY <1>b, <1>c, <1>d, <2>2, <3>1
    <2> QED BY <2>1, <2>2
<1>2. CASE Proceeds
    <2>1. UNCHANGED <<rows, faults, tally>> /\ pc' = "opt_result" /\ pc = "opt_idle"
        BY <1>2 DEF Proceeds
    <2> QED BY <1>b, <1>c, <1>d, <2>1
<1>3. CASE Breaks
    <2>1. UNCHANGED <<rows, item, tally>> /\ faults' = faults + 1 /\ pc' = "save_error"
          /\ pc \in {"next_in_try", "missing", "unclaim", "save"}
        BY <1>3, RaisesCounted DEF Breaks
    <2>2. Slack \in Int /\ Slack' \in Int /\ Slack <= Slack'
        BY <1>a, <2>1 DEF Slack
    <2>3. Matches(rows, tally, Slack')
        BY <1>b, <1>f, <2>1, <2>2
    <2> QED BY <2>1, <2>3
<1>4. CASE Requeues
    BY <1>4 DEF Requeues
<1>5. CASE CountsFirst
    <2>1. UNCHANGED <<rows, faults>> /\ pc' = "opt_next" /\ tally' = Progress(rows)
        BY <1>5 DEF CountsFirst
    <2>2. /\ tally'.total = Len(rows) /\ tally'.done = Cardinality(WithStatus(rows, "done"))
          /\ tally'.error = Cardinality(WithStatus(rows, "error"))
        BY <2>1 DEF Progress
    <2>3. Cardinality(WithStatus(rows, "error")) \in Nat
        BY <1>a, StatusCounts
    <2>4. tally'.error - Cardinality(WithStatus(rows, "error")) \in 0..faults
        BY <1>a, <2>2, <2>3
    <2> QED BY <1>d, <2>1, <2>2, <2>4 DEF Matches
<1>6. CASE Picks
    <2>1. UNCHANGED <<rows, faults, tally>> /\ pc \in {"opt_next", "next_in_try"}
        BY <1>6 DEF Picks
    <2>2. pc' # "save_error"
        BY <1>6 DEF Picks, NextPending, NextSelected, Picked, Go
    <2> QED BY <1>b, <1>c, <1>d, <2>1, <2>2
<1>7. CASE Writes
    <2>a. UNCHANGED faults /\ pc \in Holding
        BY <1>7 DEF Writes, Holding, Claimed
    <2>b. item \in DOMAIN rows
        BY <1>e, <2>a
    <2>c. pc \in Counting
        BY <2>a DEF Holding, Claimed
    <2>d. /\ tally.total = Len(rows) /\ tally.done = Cardinality(WithStatus(rows, "done"))
          /\ tally.error - Cardinality(WithStatus(rows, "error")) \in 0..Slack
        BY <1>b, <2>c DEF Matches
    <2>e. /\ Cardinality(WithStatus(rows, "error")) \in Nat
          /\ Cardinality(WithStatus(rows, "done")) \in Nat
        BY <1>a, StatusCounts
    <2>1. CASE \/ pc = "claim" /\ pc' \in {"missing", "pace", "call"}
                  /\ WritesStatus("processing") /\ UNCHANGED tally
               \/ pc = "unclaim" /\ pc' = "opt_idle"
                  /\ WritesStatus("pending") /\ UNCHANGED tally
        <3>1. rows[item].status \notin {"done", "error"}
            BY <1>e, <2>1, <2>a DEF Fitting, Picking
        <3>2. Len(rows') = Len(rows) /\ WithStatus(rows', "done") = WithStatus(rows, "done")
              /\ WithStatus(rows', "error") = WithStatus(rows, "error")
            BY <1>a, <2>1, <2>b, <3>1, WriteCounts
        <3> QED BY <1>c, <1>d, <2>1, <2>a, <2>d, <3>2 DEF Matches
    <2>2. CASE pc = "missing" /\ pc' = "next_in_try" /\ WritesStatus("error")
               /\ tally' = [tally EXCEPT !.error = @ + 1]
        <3>1. rows[item].status \notin {"done", "error"}
            BY <1>e, <2>2, <2>a DEF Fitting, Picking
        <3>2. Len(rows') = Len(rows) /\ WithStatus(rows', "done") = WithStatus(rows, "done")
              /\ Cardinality(WithStatus(rows', "error")) =
                     Cardinality(WithStatus(rows, "error")) + 1
            BY <1>a, <2>2, <2>b, <3>1, WriteCounts
        <3>3. tally'.total = tally.total /\ tally'.done = tally.done
              /\ tally'.error = tally.error + 1
            BY <1>a, <2>2
        <3>4. tally'.error - Cardinality(WithStatus(rows', "error")) \in 0..faults
            BY <1>a, <1>c, <2>2, <2>d, <2>e, <3>2, <3>3
        <3> QED BY <1>d, <2>2, <2>a, <2>d, <3>2, <3>3, <3>4 DEF Matches
    <2>3. CASE pc = "save" /\ pc' = "opt_next" /\ WritesStatus("done")
               /\ tally' = [tally EXCEPT !.done = @ + 1]
        <3>1. rows[item].status \notin {"done", "error"}
            BY <1>e, <2>3, <2>a DEF Fitting, Picking
        <3>2. Len(rows') = Len(rows) /\ WithStatus(rows', "error") = WithStatus(rows, "error")
              /\ Cardinality(WithStatus(rows', "done")) = Cardinality(WithStatus(rows, "done")) + 1
            BY <1>a, <2>3, <2>b, <3>1, WriteCounts
        <3>3. tally'.total = tally.total /\ tally'.done = tally.done + 1
              /\ tally'.error = tally.error
            BY <1>a, <2>3
        <3> QED BY <1>c, <1>d, <2>3, <2>a, <2>d, <3>2, <3>3 DEF Matches
    <2>4. CASE pc = "save_error" /\ pc' = "opt_next" /\ WritesStatus("error")
               /\ tally' = [tally EXCEPT !.error = @ + 1]
        <3>1. rows[item].status # "done"
            BY <1>e, <2>4, <2>a DEF Fitting, Picking
        <3>2. Len(rows') = Len(rows) /\ WithStatus(rows', "done") = WithStatus(rows, "done")
            BY <1>a, <2>4, <2>b, <3>1, WriteCounts
        <3>3. tally'.total = tally.total /\ tally'.done = tally.done
              /\ tally'.error = tally.error + 1
            BY <1>a, <2>4
        <3>4. CASE rows[item].status = "error"
            <4>1. WithStatus(rows', "error") = WithStatus(rows, "error")
                BY <1>a, <2>4, <2>b, <3>4, WriteCounts
            <4>2. Slack = faults - 1
                BY <2>4, <3>4 DEF Slack
            <4>3. tally'.error - Cardinality(WithStatus(rows', "error")) \in 0..faults
                BY <1>a, <2>d, <2>e, <3>3, <4>1, <4>2
            <4> QED BY <1>d, <2>4, <2>a, <2>d, <3>2, <3>3, <4>3 DEF Matches
        <3>5. CASE rows[item].status # "error"
            <4>1. Cardinality(WithStatus(rows', "error")) =
                      Cardinality(WithStatus(rows, "error")) + 1
                BY <1>a, <2>4, <2>b, <3>5, WriteCounts
            <4>2. Slack = faults
                BY <3>5 DEF Slack
            <4>3. tally'.error - Cardinality(WithStatus(rows', "error")) \in 0..faults
                BY <1>a, <2>d, <2>e, <3>3, <4>1, <4>2
            <4> QED BY <1>d, <2>4, <2>a, <2>d, <3>2, <3>3, <4>3 DEF Matches
        <3> QED BY <3>4, <3>5
    <2> QED BY <1>7, <2>1, <2>2, <2>3, <2>4 DEF Writes
<1>8. CASE Reports
    BY <1>8 DEF Reports
<1> QED BY <1>1, <1>2, <1>3, <1>4, <1>5, <1>6, <1>7, <1>8, OptimizeTable DEF SInv

LEMMA NextCountsFit == SInv /\ SInv' /\ ItemFits /\ CountsFit /\ [Next]_vars => CountsFit'
<1> SUFFICES ASSUME SInv, SInv', ItemFits, CountsFit, [Next]_vars, overruns' = 0 PROVE CountsFit'
    BY DEF CountsFit
<1>a. overruns \in Nat /\ faults \in Nat /\ rows \in Table /\ rows' \in Table
    BY FaultsAssumption DEF SInv, IInv, TypeOK, StoreTypeOK
<1>b. ASSUME pc' \notin Counting, lastResult'.kind # "optimized" PROVE CountsFit'
    BY <1>b DEF CountsFit
<1>1. CASE WorkerStep
    <2>1. overruns = 0 /\ pc # "dead" /\ UNCHANGED spc /\ faults' \in {faults, faults + 1}
        BY <1>1, WorkerFrame DEF bounds, server, ThreadFrame
    <2>2. Up /\ conn = "open"
        BY <2>1 DEF SInv, ThreadsInStep, Busy, Up
    <2>3. CASE OptimizeStep
        <3>1. pc' \in Counting => Matches(rows, tally, Slack)'
            BY <1>a, <2>1, <2>2, <2>3, OptimizeCounts
        <3>2. CASE pc = "opt_result"
            <4>1. lastResult' = Result("optimized", tally.total, tally.done, tally.error)
                  /\ UNCHANGED <<rows, faults>>
                BY <2>3, <3>2, OptimizeTable
                   DEF SInv, Waits, Proceeds, Breaks, Requeues, CountsFirst, Picks, Writes, Reports
            <4>2. Matches(rows, tally, faults)
                BY <2>1, <3>2 DEF CountsFit, Counting, OptimizeSteps, Slack
            <4>3. lastResult'.total = tally.total /\ lastResult'.done = tally.done
                  /\ lastResult'.error = tally.error
                BY <4>1 DEF Result
            <4>4. Matches(rows, lastResult', faults)
                BY <4>2, <4>3 DEF Matches
            <4> QED BY <3>1, <4>1, <4>4 DEF CountsFit
        <3>3. CASE pc # "opt_result"
            <4>1. UNCHANGED lastResult /\ pc \in OptimizeSteps
                BY <2>3, <3>3, OptimizeMoves
            <4>2. lastResult.kind # "optimized"
                BY <4>1, StepsApart DEF SInv, JobInStep, Busy
            <4> QED BY <3>1, <4>1, <4>2 DEF CountsFit
        <3> QED BY <3>2, <3>3
    <2>4. CASE ImportStep \/ ExportStep
        <3>1. pc \in ImportSteps \cup ExportSteps
              /\ pc' \in ImportSteps \cup ExportSteps \cup {"abort", "finally"}
            BY <2>4, ImportMoves, ExportMoves
        <3>2. lastResult.kind # "optimized"
            BY <3>1, StepsApart DEF SInv, JobInStep, Busy
        <3>3. lastResult'.kind # "optimized"
            BY <2>4, <3>2, ImportMoves, ExportMoves
        <3>4. pc' \notin Counting
            BY <3>1, StepsApart DEF Counting
        <3> QED BY <1>b, <3>3, <3>4
    <2>5. CASE Abort \/ AbortStage \/ Finally \/ ThreadEnds
        <3>1. pc' \notin Counting /\ UNCHANGED rows
            BY <2>5, EndMoves, StepsApart DEF Counting
        <3>2. CASE lastResult' = ErrorResult
            BY <1>b, <3>1, <3>2 DEF ErrorResult, Result
        <3>3. CASE UNCHANGED lastResult
            <4>1. ASSUME lastResult.kind = "optimized" PROVE Matches(rows, lastResult, faults')
                <5>1. Matches(rows, lastResult, faults)
                    BY <2>1, <2>2, <4>1 DEF CountsFit
                <5>2. lastResult.error - Cardinality(WithStatus(rows, "error")) \in 0..faults'
                    BY <1>a, <2>1, <5>1 DEF Matches
                <5> QED BY <5>1, <5>2 DEF Matches
            <4> QED BY <3>1, <3>3, <4>1 DEF CountsFit
        <3> QED BY <2>5, <3>2, <3>3, EndMoves
    <2> QED BY <1>1, <2>3, <2>4, <2>5 DEF WorkerStep
<1>2. CASE Aside
    <2>1. UNCHANGED <<rows, faults, lastResult, pc, tally, item>> /\ overruns = 0 /\ (Up' => Up)
        BY <1>2, <1>a DEF Aside, frames, optFrame
    <2> QED BY <2>1 DEF CountsFit, Slack
<1>3. CASE Forgets
    <2>1. UNCHANGED <<rows, faults, pc, tally, item, overruns>> /\ lastResult' = NoResult
        BY <1>3 DEF Forgets, frames, optFrame
    <2>2. lastResult'.kind # "optimized"
        BY <2>1 DEF NoResult, Result
    <2> QED BY <2>1, <2>2 DEF CountsFit, Slack
<1>4. CASE Clears
    <2>1. pc' = "dead" /\ lastResult' = NoResult
        BY <1>4, <1>a DEF Clears, Busy
    <2> QED BY <1>b, <2>1 DEF Counting, OptimizeSteps, NoResult, Result
<1>5. CASE Begins
    <2>1. lastResult' = NoResult
          /\ pc' \in {"opt_stage", "requeue", "imp_open", "staging", "cor_read", "exp_open"}
        BY <1>5, StartMoves DEF Begins
    <2> QED BY <1>b, <2>1 DEF Counting, OptimizeSteps, NoResult, Result
<1>6. CASE Dies \/ Boots
    <2>1. pc' = "dead" /\ lastResult' = NoResult
        BY <1>6 DEF Dies, Boots
    <2> QED BY <1>b, <2>1 DEF Counting, OptimizeSteps, NoResult, Result
<1> QED BY <1>1, <1>2, <1>3, <1>4, <1>5, <1>6, OthersTable DEF Next, Elsewhere

\* The totals a finished optimization reports are those of the table, but for
\* at most one failure too many for each database call that failed
\* (optimizer.py:106-110 and 150-183).
THEOREM ResultsMatch == Spec => []ResultMatchesTable
<1>1. Init => CountsFit
    BY DEF Init, WorkerInit, CountsFit, Counting, OptimizeSteps, NoResult, Result
<1>2. CountsFit => ResultMatchesTable
    BY DEF CountsFit, Matches, ResultMatchesTable
<1> QED BY <1>1, <1>2, NextCountsFit, InStep, ItemFit, PTL DEF Spec
-----------------------------------------------------------------------------
(***************************************************************************)
(* The refinement of the abstract batch, step by step.                     *)
(***************************************************************************)

\* How a row and a table look to the abstract batch.
Face(r) ==
    [key |-> r.key, data |-> r.data, text |-> r.text,
     state |-> CASE r.status = "done"  -> "done"
                 [] r.status = "error" -> "failed"
                 [] OTHER              -> "open"]

Shown(t) == [i \in DOMAIN t |-> Face(t[i])]

\* The fields of a face.
LEMMA FaceFields ==
    ASSUME NEW r
    PROVE  /\ Face(r).key = r.key /\ Face(r).data = r.data /\ Face(r).text = r.text
           /\ r.status = "done" => Face(r).state = "done"
           /\ r.status = "error" => Face(r).state = "failed"
           /\ r.status \in {"pending", "processing"} => Face(r).state = "open"
BY DEF Face

\* Two rows that differ in their state, in their state and text, or in their data.
LEMMA FaceChanges ==
    ASSUME NEW r, NEW s, s.key = r.key
    PROVE  /\ s.data = r.data /\ s.text = r.text /\ Face(s).state = Face(r).state =>
                  Face(s) = Face(r)
           /\ s.data = r.data /\ s.text = r.text =>
                  Face(s) = [Face(r) EXCEPT !.state = Face(s).state]
           /\ s.data = r.data =>
                  Face(s) = [Face(r) EXCEPT !.state = Face(s).state, !.text = s.text]
           /\ s.text = r.text /\ Face(s).state = Face(r).state =>
                  Face(s) = [Face(r) EXCEPT !.data = s.data]
<1> DEFINE State(q) == CASE q.status = "done"  -> "done"
                         [] q.status = "error" -> "failed"
                         [] OTHER              -> "open"
<1>1. \A q : Face(q) = [key |-> q.key, data |-> q.data, text |-> q.text, state |-> State(q)]
    BY DEF Face
<1>2. \A q : Face(q).state = State(q)
    BY <1>1
<1> DEFINE a == Face(r)
           b == Face(s)
<1>3. /\ a = [key |-> r.key, data |-> r.data, text |-> r.text, state |-> a.state]
      /\ b = [key |-> r.key, data |-> s.data, text |-> s.text, state |-> b.state]
    BY <1>1, <1>2
<1> HIDE DEF State, a, b
<1>4. ASSUME s.data = r.data, s.text = r.text PROVE b = [a EXCEPT !.state = b.state]
    BY <1>3, <1>4
<1>5. ASSUME s.data = r.data PROVE b = [a EXCEPT !.state = b.state, !.text = s.text]
    <2> DEFINE c == [a EXCEPT !.state = b.state]
    <2>1. c = [key |-> r.key, data |-> r.data, text |-> r.text, state |-> b.state]
        BY <1>3
    <2> HIDE DEF c
    <2>2. [c EXCEPT !.text = s.text] =
              [key |-> r.key, data |-> r.data, text |-> s.text, state |-> b.state]
        BY <2>1
    <2>3. [c EXCEPT !.text = s.text] = b
        BY <1>3, <1>5, <2>2
    <2> QED BY <2>3 DEF c
<1>6. ASSUME s.text = r.text, b.state = a.state PROVE b = [a EXCEPT !.data = s.data]
    BY <1>3, <1>6
<1>7. ASSUME s.data = r.data, s.text = r.text, b.state = a.state PROVE b = a
    BY <1>3, <1>7
<1> QED BY <1>4, <1>5, <1>6, <1>7 DEF a, b

\* The steps of the abstract batch, over the tables that are shown.
LEMMA AbstractWork ==
    ASSUME NEW i \in DOMAIN Shown(rows), Shown(rows)[i].state = "open",
           \/ /\ Shown(rows)[i].data # None
              /\ Shown(rows') = [Shown(rows) EXCEPT ![i].state = "done",
                                                    ![i].text = Shown(rows)[i].data]
           \/ Shown(rows') = [Shown(rows) EXCEPT ![i].state = "failed"]
    PROVE  Abstract!Next
<1>1. Abstract!Work(i)
    BY DEF Abstract!Work, Shown, Face
<1>2. i \in DOMAIN rows
    BY DEF Shown
<1> QED BY <1>1, <1>2 DEF Abstract!Next

LEMMA AbstractRetry ==
    ASSUME NEW chosen \in SUBSET DOMAIN rows,
           \A i \in chosen : Shown(rows)[i].state = "failed",
           Shown(rows') = [i \in DOMAIN Shown(rows) |->
               IF i \in chosen THEN [Shown(rows)[i] EXCEPT !.state = "open"] ELSE Shown(rows)[i]]
    PROVE  Abstract!Next
<1>1. Abstract!Retry(chosen)
    BY DEF Abstract!Retry, Shown, Face
<1> QED BY <1>1 DEF Abstract!Next, Shown, Face

LEMMA AbstractCorrect ==
    ASSUME NEW f \in Files,
           \A n \in DOMAIN f.products : \E i \in DOMAIN Shown(rows) :
               /\ Shown(rows)[i].state = "failed"
               /\ {j \in DOMAIN Shown(rows) : Shown(rows)[j].key = f.products[n].key} = {i},
           Shown(rows') = [i \in DOMAIN Shown(rows) |->
               IF \E n \in DOMAIN f.products : f.products[n].key = Shown(rows)[i].key
               THEN [Shown(rows)[i] EXCEPT !.data =
                        f.products[CHOOSE n \in DOMAIN f.products :
                                       f.products[n].key = Shown(rows)[i].key].data]
               ELSE Shown(rows)[i]]
    PROVE  Abstract!Next
<1>1. Abstract!Correct(f.products)
    BY DEF Abstract!Correct, Shown, Face
<1> QED BY <1>1 DEF Abstract!Next

LEMMA AbstractExtend ==
    ASSUME NEW f \in Files, NEW first \in DOMAIN f.products, NEW last \in DOMAIN f.products,
           Shown(rows') = Shown(rows) \o Abstract!Opened(SubSeq(f.products, first, last))
    PROVE  Abstract!Next
<1>1. Abstract!Extend(f.products, first, last)
    BY DEF Abstract!Extend, Shown, Face
<1> QED BY <1>1 DEF Abstract!Next

LEMMA AbstractReplace ==
    ASSUME NEW f \in Files, Shown(rows') = Abstract!Opened(f.products)
    PROVE  Abstract!Next
<1>1. Abstract!Replace(f.products)
    BY DEF Abstract!Replace, Shown, Face
<1> QED BY <1>1 DEF Abstract!Next

LEMMA AbstractReopen ==
    ASSUME Shown(rows') = [i \in DOMAIN Shown(rows) |->
               [Shown(rows)[i] EXCEPT !.state = "open", !.text = None]]
    PROVE  Abstract!Next
<1>1. Abstract!Reopen
    BY DEF Abstract!Reopen, Shown, Face
<1> QED BY <1>1 DEF Abstract!Next

LEMMA AbstractClear ==
    ASSUME rows' = <<>>
    PROVE  Abstract!Next
<1>1. Abstract!Clear
    BY DEF Abstract!Clear
<1> QED BY <1>1 DEF Abstract!Next

\* A function on the first n numbers is a sequence.
LEMMA FunctionIsSeq ==
    ASSUME NEW S, NEW n \in Nat, NEW s \in [1..n -> S]
    PROVE  s \in Seq(S) /\ Len(s) = n
OBVIOUS

\* Products are shown as the abstract batch opens them.
LEMMA InsertShows ==
    ASSUME NEW t \in Table, NEW ps \in Seq(Product)
    PROVE  Shown(InsertProducts(t, ps)) = Shown(t) \o Abstract!Opened(ps)
<1> DEFINE Faces == {Face(r) : r \in Row}
           new   == [n \in DOMAIN ps |-> NewRow(ps[n])]
           open  == Abstract!Opened(ps)
           u     == t \o new
<1>1. DOMAIN ps = 1..Len(ps) /\ Len(ps) \in Nat /\ \A n \in 1..Len(ps) : ps[n] \in Product
    OBVIOUS
<1>2. \A n \in 1..Len(ps) : new[n] \in Row
    BY <1>1, NewRowType
<1>3. new \in Table /\ Len(new) = Len(ps) /\ DOMAIN new = 1..Len(ps)
    BY <1>1, <1>2, RowsMakeTable
<1>4. \A p : Face(NewRow(p)) = [key |-> p.key, data |-> p.data, text |-> None, state |-> "open"]
    BY DEF Face, NewRow
<1>5. open = [n \in 1..Len(ps) |-> Face(new[n])]
    BY <1>1, <1>4 DEF Abstract!Opened
<1>6. Len(t) \in Nat /\ DOMAIN t = 1..Len(t) /\ \A i \in 1..Len(t) : t[i] \in Row
    BY TableRows
<1>7. Shown(t) = [i \in 1..Len(t) |-> Face(t[i])]
    BY <1>6 DEF Shown
<1> HIDE DEF new, open
<1>8. open \in Seq(Faces) /\ Len(open) = Len(ps) /\ DOMAIN open = 1..Len(ps)
    <2>1. open \in [1..Len(ps) -> Faces]
        BY <1>2, <1>5
    <2> QED BY <1>1, <2>1
<1>9. Shown(t) \in Seq(Faces) /\ Len(Shown(t)) = Len(t)
    <2>1. Shown(t) \in [1..Len(t) -> Faces]
        BY <1>6, <1>7
    <2> QED BY <1>6, <2>1
<1>10. u \in Table /\ Len(u) = Len(t) + Len(ps) /\ DOMAIN u = 1..(Len(t) + Len(ps))
    BY <1>3 DEF Table
<1>11. Shown(u) \in Seq(Faces) /\ Len(Shown(u)) = Len(t) + Len(ps)
       /\ \A i \in 1..(Len(t) + Len(ps)) : Shown(u)[i] = Face(u[i])
    <2>1. Shown(u) = [i \in 1..(Len(t) + Len(ps)) |-> Face(u[i])]
        BY <1>10 DEF Shown
    <2>2. \A i \in 1..(Len(t) + Len(ps)) : u[i] \in Row
        BY <1>10, TableRows
    <2>3. Shown(u) \in [1..(Len(t) + Len(ps)) -> Faces]
        BY <2>1, <2>2
    <2>4. Len(t) + Len(ps) \in Nat
        BY <1>1, <1>6
    <2> QED BY <2>1, <2>3, <2>4, FunctionIsSeq
<1> HIDE DEF Faces, u
<1>12. Shown(t) \o open \in Seq(Faces) /\ Len(Shown(t) \o open) = Len(t) + Len(ps)
       /\ \A i \in 1..(Len(t) + Len(ps)) :
              (Shown(t) \o open)[i] = IF i <= Len(t) THEN Shown(t)[i] ELSE open[i - Len(t)]
    <2>1. /\ Shown(t) \o open \in Seq(Faces)
          /\ Len(Shown(t) \o open) = Len(Shown(t)) + Len(open)
          /\ \A i \in 1..(Len(Shown(t)) + Len(open)) : (Shown(t) \o open)[i] =
                 IF i <= Len(Shown(t)) THEN Shown(t)[i] ELSE open[i - Len(Shown(t))]
        <3>1. Shown(t) \in Seq(Faces) /\ open \in Seq(Faces)
            BY <1>8, <1>9
        <3> QED BY <3>1, ConcatProperties, Zenon
    <2> QED BY <1>8, <1>9, <2>1
<1>13. ASSUME NEW i \in 1..(Len(t) + Len(ps))
       PROVE  Shown(u)[i] = (Shown(t) \o open)[i]
    <2>a. i \in Nat /\ Len(t) \in Nat /\ u = t \o new
        BY <1>6 DEF u
    <2>1. CASE i <= Len(t)
        <3>1. i \in 1..Len(t)
            BY <2>a, <2>1
        <3>2. u[i] = t[i]
            BY <1>3, <1>6, <2>a, <3>1 DEF Table
        <3>3. (Shown(t) \o open)[i] = Shown(t)[i]
            BY <1>12, <2>1
        <3> QED BY <1>7, <1>11, <3>1, <3>2, <3>3
    <2>2. CASE ~(i <= Len(t))
        <3>1. i - Len(t) \in 1..Len(ps)
            BY <1>1, <2>a, <2>2
        <3>2. u[i] = new[i - Len(t)]
            BY <1>3, <1>6, <2>a, <2>2 DEF Table
        <3>3. open[i - Len(t)] = Face(new[i - Len(t)])
            BY <1>5, <3>1
        <3>4. (Shown(t) \o open)[i] = open[i - Len(t)]
            BY <1>12, <2>2
        <3> QED BY <1>11, <3>2, <3>3, <3>4
    <2> QED BY <2>1, <2>2
<1>14. Shown(u) = Shown(t) \o open
    BY <1>11, <1>12, <1>13, SeqEqual
<1> QED BY <1>14 DEF InsertProducts, new, open, u

\* A step of the abstract batch, or none.
Works == Abstract!Next \/ Shown(rows') = Shown(rows)

\* What is shown of a table.
LEMMA ShownRows ==
    ASSUME NEW t
    PROVE  DOMAIN Shown(t) = DOMAIN t /\ \A i \in DOMAIN t : Shown(t)[i] = Face(t[i])
BY DEF Shown

LEMMA ShownSame ==
    ASSUME NEW t, NEW u, DOMAIN u = DOMAIN t, \A i \in DOMAIN t : Face(u[i]) = Face(t[i])
    PROVE  Shown(u) = Shown(t)
BY DEF Shown

\* What the thread's writes show: nothing, a failure or a result.
LEMMA WriteShows ==
    ASSUME rows \in Table, rows' \in Table, NEW status \in Statuses, WritesStatus(status),
           item \in DOMAIN rows => rows[item].text = None /\ rows[item].data = data,
           item \in DOMAIN rows /\ status \in {"pending", "processing", "done"} =>
               rows[item].status \in {"pending", "processing"},
           item \in DOMAIN rows => rows[item].status # "done",
           status = "done" => data # None
    PROVE  Works
<1>1. DOMAIN rows' = DOMAIN rows /\ \A j \in DOMAIN rows : j # item => rows'[j] = rows[j]
    BY DEF WritesStatus
<1>2. CASE item \notin DOMAIN rows
    <2>1. Shown(rows') = Shown(rows)
        BY <1>1, <1>2, ShownSame
    <2> QED BY <2>1 DEF Works
<1>3. CASE item \in DOMAIN rows
    <2> DEFINE r == rows[item]
               s == rows'[item]
    <2>a. /\ s.key = r.key /\ s.data = r.data /\ r.data = data /\ r.text = None
          /\ s.status = status /\ s.text = IF status = "done" THEN data ELSE None
        BY <1>3 DEF WritesStatus
    <2>b. r.status \in Statuses
        BY <1>3, TableRows DEF Row
    <2>c. Face(s).state = IF status = "done" THEN "done"
                          ELSE IF status = "error" THEN "failed" ELSE "open"
        BY <2>a, FaceFields DEF Statuses
    <2>d. Face(r).state = IF r.status = "error" THEN "failed" ELSE "open"
        BY <2>b, <1>3, FaceFields DEF Statuses
    <2>e. Shown(rows)[item] = Face(r) /\ Shown(rows')[item] = Face(s)
          /\ item \in DOMAIN Shown(rows)
        BY <1>1, <1>3, ShownRows
    <2> HIDE DEF r, s
    <2>1. CASE Face(s).state = Face(r).state
        <3>1. status # "done"
            BY <2>1, <2>c, <2>d
        <3>2. Face(s) = Face(r)
            BY <2>1, <2>a, <3>1, FaceChanges
        <3>3. Shown(rows') = Shown(rows)
            BY <1>1, <3>2, ShownSame DEF r, s
        <3> QED BY <3>3 DEF Works
    <2>2. CASE Face(s).state # Face(r).state
        <3>1. Face(r).state = "open" /\ status \in {"done", "error"}
            BY <1>3, <2>2, <2>c, <2>d DEF r, Statuses
        <3>2. CASE status = "done"
            <4>1. Face(s).state = "done" /\ s.text = Face(r).data
                BY <2>a, <2>c, <3>2, FaceFields
            <4>2. Face(s) = [Face(r) EXCEPT !.state = "done", !.text = Face(r).data]
                <5>1. Face(s) = [Face(r) EXCEPT !.state = Face(s).state, !.text = s.text]
                    BY <2>a, FaceChanges
                <5> QED BY <4>1, <5>1
            <4>3. Shown(rows') = [Shown(rows) EXCEPT ![item].state = "done",
                                                     ![item].text = Shown(rows)[item].data]
                BY <1>1, <2>e, <4>2 DEF Shown
            <4>4. Shown(rows)[item].data # None
                BY <2>a, <2>e, <3>2, FaceFields
            <4> QED BY <2>e, <3>1, <4>3, <4>4, AbstractWork DEF Works
        <3>3. CASE status = "error"
            <4>1. Face(s).state = "failed" /\ s.text = r.text
                BY <2>a, <2>c, <3>3
            <4>2. Face(s) = [Face(r) EXCEPT !.state = "failed"]
                <5>1. Face(s) = [Face(r) EXCEPT !.state = Face(s).state]
                    BY <2>a, <4>1, FaceChanges
                <5> QED BY <4>1, <5>1
            <4>3. Shown(rows') = [Shown(rows) EXCEPT ![item].state = "failed"]
                BY <1>1, <2>e, <4>2 DEF Shown
            <4> QED BY <2>e, <3>1, <4>3, AbstractWork DEF Works
        <3> QED BY <3>1, <3>2, <3>3
    <2> QED BY <2>1, <2>2
<1> QED BY <1>2, <1>3

\* An optimization opens the failed products of its selection at once, then
\* finishes or fails open products one by one.
LEMMA OptimizeWorks ==
    ASSUME SInv, ItemFits, OptimizeStep, rows' \in Table
    PROVE  Works
<1>a. rows \in Table
    BY DEF SInv, IInv, TypeOK, StoreTypeOK
<1>1. CASE Waits \/ Proceeds \/ Breaks \/ CountsFirst \/ Picks \/ Reports
    <2>1. rows' = rows
        BY <1>1 DEF Waits, Proceeds, Breaks, CountsFirst, Picks, Reports
    <2> QED BY <2>1 DEF Works
<1>2. CASE Requeues
    <2> DEFINE chosen == ErrorIds(rows, job.groups)
    <2>1. rows' = RequeueErrors(rows, job.groups)
        BY <1>2 DEF Requeues
    <2>2. /\ DOMAIN rows' = DOMAIN rows
          /\ \A i \in DOMAIN rows : i \notin chosen => rows'[i] = rows[i]
          /\ \A i \in chosen : /\ rows[i].status = "error"
                               /\ rows'[i].status = "pending" /\ rows'[i].text = rows[i].text
                               /\ rows'[i].key = rows[i].key /\ rows'[i].data = rows[i].data
        BY <1>a, <2>1, RequeueErrorsStatus
    <2>3. chosen \in SUBSET DOMAIN rows
        BY DEF ErrorIds, WithStatus
    <2> HIDE DEF chosen
    <2>4. \A i \in chosen : /\ Face(rows[i]).state = "failed"
                            /\ Face(rows'[i]) = [Face(rows[i]) EXCEPT !.state = "open"]
        <3> TAKE i \in chosen
        <3>1. Face(rows[i]).state = "failed" /\ Face(rows'[i]).state = "open"
            BY <2>2, FaceFields
        <3>2. Face(rows'[i]) = [Face(rows[i]) EXCEPT !.state = Face(rows'[i]).state]
            <4>1. rows'[i].text = rows[i].text /\ rows'[i].key = rows[i].key
                  /\ rows'[i].data = rows[i].data
                BY <2>2
            <4> QED BY <4>1, FaceChanges
        <3> QED BY <3>1, <3>2
    <2>5. \A i \in chosen : Shown(rows)[i].state = "failed"
        BY ZenonT(30), <2>3, <2>4, ShownRows
    <2>6. Shown(rows') = [i \in DOMAIN Shown(rows) |->
              IF i \in chosen THEN [Shown(rows)[i] EXCEPT !.state = "open"] ELSE Shown(rows)[i]]
        <3>1. \A i \in DOMAIN rows : Face(rows'[i]) =
                  IF i \in chosen THEN [Shown(rows)[i] EXCEPT !.state = "open"]
                  ELSE Shown(rows)[i]
            <4> TAKE i \in DOMAIN rows
            <4>1. Shown(rows)[i] = Face(rows[i])
                BY ShownRows
            <4>2. CASE i \in chosen
                BY <2>4, <4>1, <4>2
            <4>3. CASE i \notin chosen
                BY <2>2, <4>1, <4>3
            <4> QED BY <4>2, <4>3
        <3>2. Shown(rows') = [i \in DOMAIN rows |-> Face(rows'[i])]
            BY <2>2 DEF Shown
        <3> QED BY <3>1, <3>2, ShownRows
    <2> QED BY <2>3, <2>5, <2>6, AbstractRetry DEF Works
<1>3. CASE Writes
    <2>a. pc \in Holding
        BY <1>3 DEF Writes, Holding, Claimed
    <2>b. item \in DOMAIN rows => /\ rows[item].data = data /\ rows[item].text = None
                                  /\ rows[item].status \in Fitting \cup {"pending"}
        BY <2>a DEF SInv, IInv, WorkIsCurrent, ItemFits
    <2>c. pc = "save" => data # None
        BY <2>a DEF SInv, IInv, WorkIsCurrent
    <2>1. CASE pc \in {"claim", "unclaim"}
        <3>1. \E status \in {"pending", "processing"} : WritesStatus(status)
            BY <1>3, <2>1 DEF Writes
        <3>2. Fitting \subseteq {"pending", "processing"}
            BY <2>1 DEF Fitting, Picking
        <3> QED BY <1>a, <2>b, <3>1, <3>2, WriteShows DEF Statuses
    <2>2. CASE pc = "save"
        <3>1. WritesStatus("done") /\ Fitting = {"processing"}
            BY <1>3, <2>2 DEF Writes, Fitting, Picking
        <3> QED BY <1>a, <2>2, <2>b, <2>c, <3>1, WriteShows DEF Statuses
    <2>3. CASE pc \in {"missing", "save_error"}
        <3>1. WritesStatus("error") /\ Fitting \subseteq {"processing", "error"}
            BY <1>3, <2>3 DEF Writes, Fitting, Picking
        <3> QED BY <1>a, <2>b, <3>1, WriteShows DEF Statuses
    <2> QED BY <1>3, <2>1, <2>2, <2>3 DEF Writes
<1> QED BY <1>1, <1>2, <1>3, OptimizeTable DEF SInv

\* The statements that leave the products open or open them.
LEMMA FlagPendingShows ==
    ASSUME rows \in Table, rows' = FlagPending(rows)
    PROVE  Works
<1>1. DOMAIN rows' = DOMAIN rows
    BY FlagPendingType
<1>2. ASSUME NEW i \in DOMAIN rows
      PROVE  Face(rows'[i]) = [Shown(rows)[i] EXCEPT !.state = "open", !.text = None]
    <2>1. rows[i] \in Row
        BY TableRows
    <2>2. rows'[i] = [rows[i] EXCEPT !.status = "pending", !.text = None, !.kind = None]
        BY DEF FlagPending
    <2>3. rows'[i].key = rows[i].key /\ rows'[i].data = rows[i].data
          /\ rows'[i].status = "pending" /\ rows'[i].text = None
        BY <2>1, <2>2 DEF Row
    <2>4. Face(rows'[i]) = [Face(rows[i]) EXCEPT !.state = Face(rows'[i]).state,
                                                 !.text = rows'[i].text]
        BY ZenonT(30), <2>3, FaceChanges
    <2>5. Face(rows'[i]).state = "open" /\ Shown(rows)[i] = Face(rows[i])
        BY <2>3, FaceFields, ShownRows
    <2> QED BY <2>3, <2>4, <2>5
<1>3. Shown(rows') = [i \in DOMAIN rows |-> Face(rows'[i])]
    BY <1>1 DEF Shown
<1>4. Shown(rows') = [i \in DOMAIN Shown(rows) |->
          [Shown(rows)[i] EXCEPT !.state = "open", !.text = None]]
    BY <1>2, <1>3, ShownRows
<1> QED BY <1>4, AbstractReopen DEF Works

LEMMA RequeueProcessingShows ==
    ASSUME rows \in Table, rows' = RequeueProcessing(rows)
    PROVE  Works
<1>1. /\ DOMAIN rows' = DOMAIN rows
      /\ \A i \in DOMAIN rows :
             /\ rows'[i].status = IF rows[i].status = "processing" THEN "pending"
                                  ELSE rows[i].status
             /\ rows'[i].key = rows[i].key /\ rows'[i].data = rows[i].data
             /\ rows'[i].text = rows[i].text
    BY RequeueProcessingStatus
<1>2. ASSUME NEW i \in DOMAIN rows PROVE Face(rows'[i]) = Face(rows[i])
    <2>1. rows[i].status \in Statuses
        BY TableRows DEF Row
    <2>2. Face(rows'[i]).state = Face(rows[i]).state
        BY <1>1, <2>1, FaceFields DEF Statuses
    <2>3. rows'[i].key = rows[i].key /\ rows'[i].data = rows[i].data
          /\ rows'[i].text = rows[i].text
        BY <1>1
    <2> QED BY <2>2, <2>3, FaceChanges
<1>3. Shown(rows') = Shown(rows)
    BY <1>1, <1>2, ShownSame
<1> QED BY <1>3 DEF Works

\* Accepted corrections name failed products and change their data.
LEMMA CorrectShows ==
    ASSUME rows \in Table, NEW f \in Files, Correctable(rows, f.products),
           rows' = ApplyCorrections(rows, f.products)
    PROVE  Works
<1> DEFINE ps == f.products
<1>a. ps \in Seq(Product)
    BY FileType
<1>1. DOMAIN rows' = DOMAIN rows
    BY <1>a, ApplyCorrectionsType
<1>2. \A n \in DOMAIN ps : \E i \in DOMAIN Shown(rows) :
          /\ Shown(rows)[i].state = "failed"
          /\ {j \in DOMAIN Shown(rows) : Shown(rows)[j].key = ps[n].key} = {i}
    <2> TAKE n \in DOMAIN ps
    <2>1. PICK i \in WithStatus(rows, "error") :
              {j \in DOMAIN rows : rows[j].key = ps[n].key} = {i}
        BY DEF Correctable
    <2>2. i \in DOMAIN rows /\ rows[i].status = "error"
        BY DEF WithStatus
    <2>3. Shown(rows)[i].state = "failed" /\ i \in DOMAIN Shown(rows)
        BY <2>2, ShownRows, FaceFields
    <2>4. \A j \in DOMAIN rows : Shown(rows)[j].key = rows[j].key
        BY ShownRows, FaceFields
    <2>5. {j \in DOMAIN Shown(rows) : Shown(rows)[j].key = ps[n].key} = {i}
        BY <2>1, <2>4, ShownRows
    <2> QED BY <2>3, <2>5
<1>3. ASSUME NEW i \in DOMAIN rows
      PROVE  Face(rows'[i]) =
                 IF \E n \in DOMAIN ps : ps[n].key = Shown(rows)[i].key
                 THEN [Shown(rows)[i] EXCEPT !.data =
                         ps[CHOOSE n \in DOMAIN ps : ps[n].key = Shown(rows)[i].key].data]
                 ELSE Shown(rows)[i]
    <2> DEFINE named(key) == \E n \in DOMAIN ps : ps[n].key = key
               new(key)   == ps[CHOOSE n \in DOMAIN ps : ps[n].key = key].data
    <2>1. rows'[i] = IF named(rows[i].key)
                     THEN [rows[i] EXCEPT !.data = new(rows[i].key), !.kind = "corrected"]
                     ELSE rows[i]
        BY DEF ApplyCorrections
    <2>2. Shown(rows)[i] = Face(rows[i]) /\ Shown(rows)[i].key = rows[i].key
        BY ShownRows, FaceFields
    <2>3. rows[i] \in Row
        BY TableRows
    <2> HIDE DEF named, new
    <2>4. CASE named(rows[i].key)
        <3>1. rows'[i] = [rows[i] EXCEPT !.data = new(rows[i].key), !.kind = "corrected"]
            BY <2>1, <2>4
        <3>2. /\ rows'[i].key = rows[i].key /\ rows'[i].text = rows[i].text
              /\ rows'[i].status = rows[i].status /\ rows'[i].data = new(rows[i].key)
            BY <2>3, <3>1 DEF Row
        <3>3. Face(rows'[i]).state = Face(rows[i]).state
            BY <3>2 DEF Face
        <3>4. Face(rows'[i]) = [Face(rows[i]) EXCEPT !.data = rows'[i].data]
            BY ZenonT(30), <3>2, <3>3, FaceChanges
        <3>5. Face(rows'[i]) = [Shown(rows)[i] EXCEPT !.data = new(Shown(rows)[i].key)]
            BY <2>2, <3>2, <3>4
        <3>6. named(Shown(rows)[i].key)
            BY <2>2, <2>4
        <3> QED BY <3>5, <3>6 DEF named, new
    <2>5. CASE ~named(rows[i].key)
        <3>1. ~named(Shown(rows)[i].key) /\ Face(rows'[i]) = Shown(rows)[i]
            BY <2>1, <2>2, <2>5
        <3> QED BY <3>1 DEF named
    <2> QED BY <2>4, <2>5
<1>4. Shown(rows') = [i \in DOMAIN rows |-> Face(rows'[i])]
    BY <1>1 DEF Shown
<1>5. Shown(rows') = [i \in DOMAIN Shown(rows) |->
                 IF \E n \in DOMAIN ps : ps[n].key = Shown(rows)[i].key
                 THEN [Shown(rows)[i] EXCEPT !.data =
                         ps[CHOOSE n \in DOMAIN ps : ps[n].key = Shown(rows)[i].key].data]
                 ELSE Shown(rows)[i]]
    BY <1>3, <1>4, ShownRows
<1> QED BY <1>2, <1>5, AbstractCorrect DEF Works

\* The first products of a batch.
LEMMA FirstShown ==
    ASSUME NEW ps \in Seq(Product)
    PROVE  Shown(InsertProducts(<<>>, ps)) = Abstract!Opened(ps)
<1> DEFINE open  == Abstract!Opened(ps)
           faces == {open[n] : n \in 1..Len(ps)}
<1>1. <<>> \in Table
    BY DEF Table
<1>2. Shown(InsertProducts(<<>>, ps)) = Shown(<<>>) \o open
    BY <1>1, InsertShows
<1>3. Shown(<<>>) = <<>>
    BY DEF Shown
<1>4. open \in Seq(faces)
    <2>1. open \in [1..Len(ps) -> faces]
        BY DEF Abstract!Opened
    <2> QED BY <2>1, FunctionIsSeq
<1> HIDE DEF open, faces
<1>5. <<>> \o open = open
    BY <1>4, ConcatEmptySeq
<1> QED BY <1>2, <1>3, <1>5 DEF open

\* An import adds a part of its file, or puts the file in the batch's place.
LEMMA ImportWorks ==
    ASSUME SInv, ImportStep
    PROVE  Works
<1>a. rows \in Table /\ WorkerTypeOK /\ ImportingTypeOK
    BY DEF SInv, IInv, TypeOK, StoreTypeOK
<1>b. job.file \in Files \cup {NoFile} /\ products = job.file.products
      /\ products \in Seq(Product) /\ Len(products) \in Nat
    BY <1>a, JobFile DEF products
<1>c. products # <<>> => job.file \in Files
    BY <1>b DEF NoFile
<1>1. CASE UNCHANGED rows
    BY <1>1 DEF Works
<1>2. CASE InsertsBatch
    <2> DEFINE last == IF loaded + BatchSize < Len(products)
                       THEN loaded + BatchSize ELSE Len(products)
    <2>1. loaded \in Nat /\ BatchSize \in Nat \ {0} /\ loaded < Len(products)
        BY <1>2, <1>a, BatchAssumption DEF InsertsBatch, ImportingTypeOK
    <2>2. loaded + 1 \in 1..Len(products) /\ last \in 1..Len(products)
        BY <1>b, <2>1
    <2>3. NextBatch = SubSeq(products, loaded + 1, last)
        BY DEF NextBatch
    <2>4. NextBatch \in Seq(Product)
        BY <1>a, <2>1, BatchType
    <2>5. Shown(rows') = Shown(rows) \o Abstract!Opened(NextBatch)
        BY <1>2, <1>a, <2>4, InsertShows DEF InsertsBatch
    <2> HIDE DEF last
    <2>6. job.file \in Files
        BY <1>b, <1>c, <2>1
    <2>7. DOMAIN products = 1..Len(products)
        BY <1>b
    <2>8. loaded + 1 \in DOMAIN job.file.products /\ last \in DOMAIN job.file.products
        BY <1>b, <2>2, <2>7
    <2>9. Shown(rows') =
              Shown(rows) \o Abstract!Opened(SubSeq(job.file.products, loaded + 1, last))
        BY <1>b, <2>3, <2>5
    <2> QED BY <2>6, <2>8, <2>9, AbstractExtend DEF Works
<1>3. CASE ReplacesBatch
    <2>1. products # <<>> /\ rows' = InsertProducts(<<>>, products)
        BY <1>3 DEF ReplacesBatch, SInv, IInv, JobKeepsToSteps
    <2>2. Shown(rows') = Abstract!Opened(products)
        BY <1>b, <2>1, FirstShown
    <2>3. Shown(rows') = Abstract!Opened(job.file.products)
        BY <1>b, <2>2
    <2> QED BY <1>c, <2>1, <2>3, AbstractReplace DEF Works
<1>4. CASE Corrects
    <2>1. CASE job.file \in Files
        BY <1>4, <1>a, <1>b, <2>1, CorrectShows DEF Corrects
    <2>2. CASE job.file \notin Files
        <3>1. products = <<>> /\ rows' = ApplyCorrections(rows, products)
            BY <1>4, <1>c, <2>2 DEF Corrects
        <3>2. DOMAIN rows' = DOMAIN rows
            BY <1>a, <1>b, <3>1, ApplyCorrectionsType
        <3>3. \A i \in DOMAIN rows : rows'[i] = rows[i]
            BY <3>1 DEF ApplyCorrections
        <3>4. Shown(rows') = Shown(rows)
            BY <3>2, <3>3, ShownSame
        <3> QED BY <3>4 DEF Works
    <2> QED BY <2>1, <2>2
<1> QED BY <1>1, <1>2, <1>3, <1>4, ImportTable

LEMMA NextWorks == SInv /\ SInv' /\ ItemFits /\ [Next]_vars => Works
<1> SUFFICES ASSUME SInv, SInv', ItemFits, [Next]_vars PROVE Works
    OBVIOUS
<1>a. rows \in Table /\ rows' \in Table
    BY DEF SInv, IInv, TypeOK, StoreTypeOK
<1>b. ASSUME UNCHANGED rows PROVE Works
    BY <1>b DEF Works
<1>c. ASSUME rows' = <<>> PROVE Works
    BY <1>c, AbstractClear DEF Works
<1>1. CASE WorkerStep
    <2>1. CASE ExportStep \/ Abort \/ AbortStage \/ Finally \/ ThreadEnds
        BY <1>b, <2>1, ExportMoves, EndMoves
    <2> QED BY <1>1, <1>a, <2>1, OptimizeWorks, ImportWorks DEF WorkerStep
<1>2. CASE Exit
    BY <1>2, <1>b DEF Exit, tables
<1>3. CASE Crash
    <2>1. rows' = rows \/ rows' = FlagPending(rows) \/ rows' = <<>>
        BY <1>3 DEF Crash, HalfReset, tables
    <2> QED BY <1>a, <1>b, <1>c, <2>1, FlagPendingShows
<1>4. CASE Aside \/ Forgets \/ Begins
    BY <1>4, <1>b DEF Aside, Forgets, Begins
<1>5. CASE Clears
    BY <1>5, <1>a, <1>b, <1>c, FlagPendingShows DEF Clears
<1>6. CASE Boots
    BY <1>6, <1>a, RequeueProcessingShows DEF Boots
<1>7. CASE Dies /\ (Request \/ ServerStep \/ Start \/ UNCHANGED vars)
    <2>1. spc' \in {"closed", "down"}
        BY <1>7 DEF Dies, Up
    <2>2. CASE Request \/ UNCHANGED vars
        BY <2>2, <1>b, RequestMoves DEF vars, store
    <2>3. CASE Start
        BY <2>1, <2>3 DEF Start
    <2>4. CASE ServerStep
        BY <2>1, <2>4, <1>2, <1>b
           DEF ServerStep, StopSet, StopUnpause, StopJoin, StopTimeout, AfterJoin, ResetWorker,
               ResetDb, Close, tables, ReadStatus, Observe, StatusSent
    <2> QED BY <1>7, <2>2, <2>3, <2>4
<1> QED BY <1>1, <1>2, <1>3, <1>4, <1>5, <1>6, <1>7, OthersTable DEF Next, Elsewhere

\* The daemon implements the abstract batch: whatever its threads, clients,
\* failures, crashes and restarts do, products are open until they are done or
\* have failed, and only an import, a correction, a retry or a reset changes
\* anything else (db.py as a whole, the job of every thread).
THEOREM BatchImplemented == Spec => ImplementsBatch
<1>1. Init => Abstract!Init
    <2> SUFFICES ASSUME Init PROVE Abstract!Init
        OBVIOUS
    <2>1. CASE rows = <<>>
        BY <2>1 DEF Abstract!Init
    <2>2. ASSUME NEW f \in Files, rows = InsertProducts(<<>>, f.products)
          PROVE  Abstract!Init
        <3>1. Shown(rows) = Abstract!Opened(f.products)
            BY <2>2, FileType, FirstShown
        <3> QED BY <3>1 DEF Abstract!Init, Shown, Face
    <2> QED BY <2>1, <2>2 DEF Init, StoreInit
<1>2. SInv /\ SInv' /\ ItemFits /\ [Next]_vars => [Abstract!Next]_(Shown(rows))
    BY NextWorks DEF Works
<1> QED BY <1>1, <1>2, InStep, ItemFit, PTL DEF Abstract!Spec, Shown, Face, Spec, ImplementsBatch
-----------------------------------------------------------------------------
(***************************************************************************)
(* Exports.  While the rows in scope stand still, the ids written so far,  *)
(* those of the page and those behind it follow each other: a page is the  *)
(* lowest rows behind the last one written, and it is empty only when no   *)
(* row is left.                                                            *)
(***************************************************************************)

\* A set of numbers that is not empty has a least one.
LEMMA LeastNumber ==
    ASSUME NEW S, S \subseteq Nat, S # {}
    PROVE  \E m \in S : \A n \in S : m <= n
<1> DEFINE R == OpToRel(<, Nat)
<1>1. IsWellFoundedOn(R, Nat)
    BY NatLessThanWellFounded
<1>2. R = {p \in Nat \X Nat : p[1] < p[2]}
    BY DEF OpToRel
<1> HIDE DEF R
<1>3. PICK m \in S : \A n \in S : ~(<<n, m>> \in R)
    BY <1>1, WFMin
<1>4. ASSUME NEW n \in S PROVE m <= n
    <2>1. ~(<<n, m>> \in R) /\ m \in Nat /\ n \in Nat
        BY <1>3
    <2> QED BY <1>2, <2>1
<1> QED BY <1>3, <1>4

\* A page holds the lowest rows of the scope behind a row, one at least if
\* there is any.
LEMMA PageIsLowest ==
    ASSUME NEW t \in Table, NEW scope \in Scopes, NEW after \in Nat, NEW limit \in Nat \ {0},
           NEW behind, behind = {i \in InScope(t, scope) : i > after},
           NEW p, p = ExportPage(t, scope, after, limit)
    PROVE  /\ p \subseteq behind
           /\ \A i \in p : \A j \in behind \ p : i < j
           /\ p = {} => behind = {}
<1> DEFINE upTo(i) == {j \in behind : j <= i}
<1>1. p = {i \in behind : Cardinality(upTo(i)) <= limit}
    BY DEF ExportPage
<1>2. behind \subseteq DOMAIN t
    BY SelectionType DEF InScope, Scopes
<1>3. behind \subseteq Nat /\ IsFiniteSet(behind)
    <2>1. DOMAIN t = 1..Len(t) /\ Len(t) \in Nat
        BY TableRows
    <2>2. IsFiniteSet(1..Len(t)) /\ 1..Len(t) \subseteq Nat
        BY <2>1, FS_Interval
    <2> QED BY <1>2, <2>1, <2>2, FS_Subset
<1>4. \A i : IsFiniteSet(upTo(i)) /\ Cardinality(upTo(i)) \in Nat
    BY <1>3, FS_Subset, FS_CardinalityType
<1>5. ASSUME NEW i \in p, NEW j \in behind \ p PROVE i < j
    <2>1. i \in behind /\ Cardinality(upTo(i)) <= limit /\ ~(Cardinality(upTo(j)) <= limit)
        BY <1>1
    <2>2. CASE j <= i
        <3>1. upTo(j) \subseteq upTo(i)
            BY <1>3, <2>1, <2>2
        <3>2. Cardinality(upTo(j)) <= Cardinality(upTo(i))
            BY <1>4, <3>1, FS_Subset
        <3> HIDE DEF upTo
        <3> QED BY <1>4, <2>1, <3>2
    <2>3. i \in Nat /\ j \in Nat
        BY <1>3, <2>1
    <2> QED BY <2>2, <2>3
<1>6. ASSUME p = {}, behind # {} PROVE FALSE
    <2>1. PICK m \in behind : \A n \in behind : m <= n
        BY <1>3, <1>6, LeastNumber
    <2>2. upTo(m) = {m}
        BY <1>3, <2>1
    <2>3. Cardinality(upTo(m)) = 1
        BY <2>2, FS_Singleton
    <2>4. m \in p
        BY <1>1, <2>3
    <2> QED BY <1>6, <2>4
<1> QED BY <1>1, <1>5, <1>6

Written == {temp[n] : n \in DOMAIN temp}

Paging == {"exp_stage", "exp_write", "exp_page", "exp_publish"}

ScopeFits ==
    /\ want = InScope(rows, job.scope)
    /\ Written \subseteq want
    /\ page \subseteq want
    /\ Written \cap page = {}

OrderFits ==
    /\ \A m, n \in DOMAIN temp : m < n => temp[m] < temp[n]
    /\ \A i \in Written : \A j \in want \ Written : i < j
    /\ \A i \in page : \A j \in want \ (Written \cup page) : i < j

ExportFits ==
    /\ pc \in {"exp_open", "dead"} => temp = <<>>
    /\ overruns = 0 =>
           /\ pc \in Paging => ScopeFits /\ OrderFits
           /\ pc \in {"exp_page", "exp_publish"} => page = {}
           /\ pc = "exp_page" => temp # <<>>
           /\ pc = "exp_publish" => Written = want
           /\ {disk.rows[n] : n \in DOMAIN disk.rows} = disk.want
           /\ \A m, n \in DOMAIN disk.rows : m < n => disk.rows[m] < disk.rows[n]

\* The first page.
LEMMA ExpOpenFits ==
    ASSUME SInv, ExportFits, ExpOpen, UNCHANGED <<rows, job, overruns>>
    PROVE  ExportFits'
<1>1. temp = <<>> /\ UNCHANGED <<temp, disk>>
      /\ (pc' = "exp_stage" => /\ page' = ExportPage(rows, job.scope, 0, PageSize)
                               /\ want' = InScope(rows, job.scope))
      /\ pc' \in {"exp_done", "exp_stage", "abort"}
    BY DEF ExpOpen, Go, ExportFits
<1>2. Written' = {}
    BY <1>1 DEF Written
<1>3. ASSUME pc' = "exp_stage" PROVE ScopeFits' /\ OrderFits'
    <2>a. rows \in Table /\ job.scope \in Scopes /\ PageSize \in Nat \ {0}
        BY JobFile, PageAssumption DEF SInv, IInv, TypeOK, StoreTypeOK
    <2>b. page' = ExportPage(rows, job.scope, 0, PageSize) /\ want' = InScope(rows, job.scope)
        BY <1>1, <1>3
    <2> DEFINE behind == {i \in InScope(rows, job.scope) : i > 0}
    <2>1. behind = want'
        <3>1. want' \subseteq DOMAIN rows
            BY <2>a, <2>b, SelectionType DEF InScope, Scopes
        <3>2. DOMAIN rows = 1..Len(rows)
            BY <2>a, TableRows
        <3> QED BY <2>b, <3>1, <3>2
    <2>c. behind = {i \in InScope(rows, job.scope) : i > 0}
        OBVIOUS
    <2> HIDE DEF behind
    <2>2. /\ page' \subseteq behind
          /\ \A i \in page' : \A j \in behind \ page' : i < j
        BY <2>a, <2>b, <2>c, PageIsLowest
    <2> QED BY <1>1, <1>2, <2>b, <2>1, <2>2 DEF ScopeFits, OrderFits
<1> QED BY <1>1, <1>3 DEF ExportFits, Paging

\* One row of the page.
LEMMA ExpWriteFits ==
    ASSUME SInv, ExportFits, ExpWrite, UNCHANGED <<rows, job, overruns>>
    PROVE  ExportFits'
<1>1. CASE pc' = "exp_failed" \/ overruns # 0
    BY <1>1 DEF ExpWrite, Go, ExportFits, Paging, files
<1>2. CASE pc' # "exp_failed" /\ overruns = 0
    <2>1. PICK i \in page : /\ \A j \in page : i <= j
                            /\ temp' = Append(temp, i) /\ page' = page \ {i}
                            /\ pc' = IF page' = {} THEN "exp_page" ELSE "exp_write"
        BY <1>2 DEF ExpWrite, Go
    <2>2. pc = "exp_write" /\ UNCHANGED <<want, disk>>
        BY DEF ExpWrite, files
    <2>3. ScopeFits /\ OrderFits
        BY <1>2, <2>2 DEF ExportFits, Paging
    <2>4. temp \in Seq(Nat) /\ page \subseteq Nat /\ want \subseteq Nat
        BY DEF SInv, IInv, TypeOK, ExportingTypeOK
    <2>5. /\ i \in Nat /\ Len(temp) \in Nat /\ DOMAIN temp = 1..Len(temp)
          /\ temp' \in Seq(Nat) /\ Len(temp') = Len(temp) + 1
          /\ DOMAIN temp' = 1..(Len(temp) + 1)
          /\ \A n \in 1..Len(temp) : temp'[n] = temp[n]
          /\ temp'[Len(temp) + 1] = i
        BY <2>1, <2>4
    <2>6. Written' = Written \cup {i}
        BY <2>5 DEF Written
    <2>7. ScopeFits'
        BY <2>1, <2>2, <2>3, <2>6 DEF ScopeFits
    <2>8. \A m, n \in DOMAIN temp' : m < n => temp'[m] < temp'[n]
        <3> SUFFICES ASSUME NEW m \in DOMAIN temp', NEW n \in DOMAIN temp', m < n
                     PROVE  temp'[m] < temp'[n]
            OBVIOUS
        <3>1. m \in DOMAIN temp /\ temp'[m] = temp[m]
            BY <2>5
        <3>2. CASE n \in DOMAIN temp
            BY <2>3, <2>5, <3>1, <3>2 DEF OrderFits
        <3>3. CASE n = Len(temp) + 1
            <4>1. temp[m] \in Written /\ i \in want \ Written
                BY <2>1, <2>3, <3>1 DEF Written, ScopeFits
            <4> QED BY <2>3, <2>5, <3>1, <3>3, <4>1 DEF OrderFits
        <3> QED BY <2>5, <3>2, <3>3
    <2>9. \A a \in Written' : \A b \in (want \ Written)' : a < b
        <3> SUFFICES ASSUME NEW a \in Written \cup {i}, NEW b \in want, b \notin Written, b # i
                     PROVE  a < b
            BY <2>2, <2>6
        <3>1. CASE a \in Written
            BY <2>3, <3>1 DEF OrderFits
        <3>2. CASE a = i /\ b \in page
            BY <2>1, <2>4, <3>2
        <3>3. CASE a = i /\ b \notin page
            BY <2>1, <2>3, <3>3 DEF OrderFits
        <3> QED BY <3>1, <3>2, <3>3
    <2>10. \A a \in page' : \A b \in (want \ (Written \cup page))' : a < b
        <3>1. (want \ (Written \cup page))' = want \ (Written \cup page)
            BY <2>1, <2>2, <2>6
        <3> QED BY <2>1, <2>3, <3>1 DEF OrderFits
    <2>11. OrderFits'
        BY <2>8, <2>9, <2>10 DEF OrderFits
    <2>12. temp' # <<>>
        BY <2>5
    <2> QED BY <1>2, <2>1, <2>2, <2>7, <2>11, <2>12 DEF ExportFits, Paging
<1> QED BY <1>1, <1>2

\* The next page, or none.
LEMMA ExpPageFits ==
    ASSUME SInv, ExportFits, ExpPage, UNCHANGED <<rows, job, overruns>>
    PROVE  ExportFits'
<1>1. CASE pc' = "exp_failed" \/ overruns # 0
    BY <1>1 DEF ExpPage, Go, ExportFits, Paging, files
<1>2. CASE pc' # "exp_failed" /\ overruns = 0
    <2> DEFINE last == temp[Len(temp)]
    <2>1. /\ page' = ExportPage(rows, job.scope, last, PageSize)
          /\ pc' = IF page' = {} THEN "exp_publish" ELSE "exp_write"
          /\ pc = "exp_page" /\ UNCHANGED <<temp, want, disk>>
        BY <1>2 DEF ExpPage, Go, files
    <2>2. ScopeFits /\ OrderFits /\ page = {} /\ temp # <<>>
        BY <1>2, <2>1 DEF ExportFits, Paging
    <2>3. temp \in Seq(Nat) /\ want \subseteq Nat /\ rows \in Table /\ job.scope \in Scopes
          /\ PageSize \in Nat \ {0}
        BY JobFile, PageAssumption DEF SInv, IInv, TypeOK, StoreTypeOK, ExportingTypeOK
    <2>4. Len(temp) \in DOMAIN temp /\ DOMAIN temp = 1..Len(temp) /\ last \in Nat
          /\ Written \subseteq Nat
        <3>1. Len(temp) \in Nat \ {0} /\ DOMAIN temp = 1..Len(temp)
            BY <2>2, <2>3, EmptySeq
        <3> QED BY <2>3, <3>1 DEF Written
    <2>5. last \in Written
        BY <2>4 DEF Written
    <2>6. \A a \in Written : a <= last
        <3> TAKE a \in Written
        <3>1. PICK n \in DOMAIN temp : a = temp[n]
            BY DEF Written
        <3>2. CASE n = Len(temp)
            BY <2>4, <3>1, <3>2
        <3>3. CASE n < Len(temp)
            BY <2>2, <2>4, <3>1, <3>3 DEF OrderFits
        <3> QED BY <2>4, <3>2, <3>3
    <2> HIDE DEF last
    <2> DEFINE behind == {a \in InScope(rows, job.scope) : a > last}
    <2>7. behind = want \ Written
        <3>1. \A a \in want \ Written : a > last
            BY <2>2, <2>3, <2>4, <2>5 DEF OrderFits
        <3>2. \A a \in Written : ~(a > last)
            BY <2>4, <2>6
        <3> QED BY <2>2, <3>1, <3>2 DEF ScopeFits
    <2>a. behind = {a \in InScope(rows, job.scope) : a > last}
        OBVIOUS
    <2> HIDE DEF behind
    <2>8. /\ page' \subseteq behind
          /\ \A a \in page' : \A b \in behind \ page' : a < b
          /\ page' = {} => behind = {}
        BY SMTT(30), <2>1, <2>3, <2>4, <2>a, PageIsLowest
    <2>9. Written' = Written
        BY <2>1 DEF Written
    <2>10. ScopeFits' /\ OrderFits'
        BY <2>1, <2>2, <2>7, <2>8, <2>9 DEF ScopeFits, OrderFits
    <2>11. pc' = "exp_publish" => page' = {} /\ Written' = want'
        BY <2>1, <2>2, <2>7, <2>8, <2>9 DEF ScopeFits
    <2> QED BY <1>2, <2>1, <2>10, <2>11 DEF ExportFits, Paging
<1> QED BY <1>1, <1>2

\* The file takes the place of the one before.
LEMMA ExpPublishFits ==
    ASSUME SInv, ExportFits, ExpPublish, UNCHANGED <<rows, job, overruns>>
    PROVE  ExportFits'
<1>1. pc' \in {"exp_idle", "exp_failed"} /\ pc = "exp_publish"
    BY DEF ExpPublish, Go
<1>2. CASE UNCHANGED disk
    BY <1>1, <1>2 DEF ExportFits, Paging
<1>3. CASE disk' = [rows |-> temp, want |-> want]
    <2>1. disk'.rows = temp /\ disk'.want = want
        BY <1>3
    <2>2. overruns = 0 => Written = want /\ OrderFits
        BY <1>1 DEF ExportFits, Paging
    <2> QED BY <1>1, <2>1, <2>2 DEF ExportFits, Paging, Written, OrderFits
<1> QED BY <1>2, <1>3 DEF ExpPublish

LEMMA ExportStepFits ==
    ASSUME SInv, ExportFits, ExportStep, UNCHANGED <<rows, job, overruns>>
    PROVE  ExportFits'
<1>1. CASE ExpStage
    <2>1. UNCHANGED <<page, temp, want, disk>> /\ pc = "exp_stage" /\ pc' \in {"exp_write", "abort"}
        BY <1>1 DEF ExpStage, Go, expVars, files
    <2> QED BY <2>1 DEF ExportFits, Paging, ScopeFits, OrderFits, Written
<1>2. CASE ExpIdle \/ ExpDone \/ ExpResult
    <2>1. UNCHANGED <<page, temp, want, disk>>
          /\ pc' \in {"exp_done", "abort", "exp_result", "finally"}
        BY <1>2 DEF ExpIdle, ExpDone, ExpResult, Go, Finish, expVars, files
    <2> QED BY <2>1 DEF ExportFits, Paging
<1> QED BY <1>1, <1>2, ExpOpenFits, ExpWriteFits, ExpPageFits, ExpPublishFits DEF ExportStep

LEMMA NextExportFits == SInv /\ ExportFits /\ [Next]_vars => ExportFits'
<1> SUFFICES ASSUME SInv, ExportFits, [Next]_vars PROVE ExportFits'
    OBVIOUS
<1>a. overruns \in Nat
    BY DEF SInv, IInv, TypeOK
<1>b. ASSUME UNCHANGED disk, overruns' = 0 => overruns = 0, pc' \notin Paging,
             pc' \in {"exp_open", "dead"} => temp' = <<>>
      PROVE  ExportFits'
    BY <1>b DEF ExportFits, Paging
<1>1. CASE WorkerStep
    <2>a. UNCHANGED <<job, overruns>> /\ pc # "dead"
        BY <1>1, WorkerFrame DEF ThreadFrame, bounds
    <2>1. CASE ExportStep
        BY <2>1, <2>a, ExportMoves, ExportStepFits
    <2>2. CASE (OptimizeStep \/ ImportStep) /\ UNCHANGED expVars
        <3>1. pc' \in OptimizeSteps \cup ImportSteps \cup {"abort", "finally"}
            BY <2>2, OptimizeMoves, ImportMoves
        <3>2. pc' \notin Paging /\ pc' \notin {"exp_open", "dead"}
            BY <3>1 DEF Paging, OptimizeSteps, ImportSteps
        <3> QED BY <1>b, <2>a, <2>2, <3>2 DEF expVars, files
    <2>3. CASE (Abort \/ AbortStage \/ Finally) /\ UNCHANGED jobFrames
        <3>1. pc' \in {"abort_stage", "finally", "exiting"}
            BY <2>3, <2>a DEF Abort, AbortStage, Finally, Go
        <3> QED BY <1>b, <2>a, <2>3, <3>1 DEF Paging, jobFrames, expVars, files
    <2>4. CASE ThreadEnds /\ Fresh /\ UNCHANGED files
        BY <1>b, <2>a, <2>4 DEF ThreadEnds, Fresh, FreshExpFrame, Paging, files
    <2> QED BY <1>1, <2>1, <2>2, <2>3, <2>4 DEF WorkerStep
<1>2. CASE Aside \/ Forgets
    <2>1. UNCHANGED <<rows, job, pc, page, temp, want, disk>>
          /\ overruns' \in {overruns, overruns + 1}
        BY <1>2 DEF Aside, Forgets, frames, expVars, files
    <2> QED BY <1>a, <2>1 DEF ExportFits, ScopeFits, OrderFits, Written
<1>3. CASE Clears
    <2>1. UNCHANGED <<pc, temp, disk, overruns>> /\ (pc # "dead" => overruns > 0)
        BY <1>3 DEF Clears, frames, expVars, files, Busy
    <2> QED BY <1>a, <2>1 DEF ExportFits, Paging
<1>4. CASE Begins
    <2>1. UNCHANGED <<temp, disk, overruns>> /\ pc = "dead" /\ pc' \notin Paging
        BY <1>4, StartMoves DEF Begins, frames, expVars, files, Busy, Paging
    <2> QED BY <1>b, <2>1 DEF ExportFits
<1>5. CASE Dies \/ Boots
    <2>1. pc' = "dead" /\ UNCHANGED <<disk, overruns>> /\ temp' = <<>>
        BY <1>5 DEF Dies, Boots, frames, expVars, files, Fresh, FreshExpFrame, ExportFits
    <2> QED BY <1>b, <2>1 DEF Paging
<1> QED BY <1>1, <1>2, <1>3, <1>4, <1>5, OthersTable DEF Next, Elsewhere

\* Where the destination is still the file before, and where it is the new one:
\* after the replacement only a failed database call leads to the error.
PublishFits ==
    /\ pc \in Unpublished => disk = before
    /\ pc \in ExportSteps => lastResult.kind = "none"
    /\ pc = "exp_open" => temp = <<>>
    /\ pc = "exp_idle" => disk.rows = temp
    /\ pc \in {"exp_done", "exp_result"} =>
           disk.rows = temp \/ (Len(temp) = 0 /\ disk = before)
    /\ Up /\ pc \in {"abort", "abort_stage"} /\ job.kind = "export" =>
           disk = before \/ faults >= 1
    /\ Up /\ job.kind = "export" /\ lastResult.kind = "error" =>
           disk = before \/ faults >= 1
    /\ Up /\ job.kind = "export" /\ lastResult.kind = "exported" =>
           \/ lastResult.total = Len(disk.rows)
           \/ lastResult.total = 0 /\ disk = before

\* Each step of an export: from the first one to the replacement,
LEMMA ExportPublishes ==
    ASSUME SInv, PublishFits, ExportStep, UNCHANGED <<job, spc>>
    PROVE  PublishFits'
<1>a. conn = "open" <=> Up
    BY DEF SInv, ThreadsInStep
<1>b. lastResult.kind = "none" /\ faults \in Nat /\ job.kind = "export"
    BY ExportMoves, FaultsAssumption
       DEF PublishFits, SInv, IInv, TypeOK, StoreTypeOK, JobInStep
<1>c. Up' = Up
    BY DEF Up
<1>d. ASSUME UNCHANGED lastResult, pc' \in ExportSteps \cup {"abort"},
             pc' \in Unpublished => disk' = before',
             pc' # "exp_open",
             pc' = "exp_idle" => disk'.rows = temp',
             pc' \in {"exp_done", "exp_result"} =>
                 disk'.rows = temp' \/ (Len(temp') = 0 /\ disk' = before'),
             Up /\ pc' = "abort" => disk' = before' \/ faults' >= 1
      PROVE  PublishFits'
    BY <1>b, <1>c, <1>d DEF PublishFits, ExportSteps
<1>e. Raises => UNCHANGED <<rows, stage, source, conn>> /\ (Up => faults' = faults + 1)
    BY <1>a, RaisesCounted
<1>1. CASE ExpOpen
    <2>1. disk' = disk /\ before' = disk /\ temp' = temp /\ temp = <<>> /\ UNCHANGED lastResult
        BY <1>1 DEF ExpOpen, Go, workerMem, PublishFits
    <2>2. pc' \in {"exp_done", "exp_stage", "abort"}
        BY <1>1 DEF ExpOpen, Go
    <2>3. Len(temp') = 0
        BY <2>1
    <2> QED BY <1>d, <2>1, <2>2, <2>3 DEF ExportSteps
<1>2. CASE ExpStage \/ ExpWrite \/ ExpPage
    <2>1. UNCHANGED <<disk, before, lastResult>> /\ disk = before
        BY <1>2 DEF ExpStage, ExpWrite, ExpPage, Go, workerMem, expVars, files, PublishFits,
                    Unpublished
    <2>2. pc' \in {"exp_write", "exp_page", "exp_publish", "exp_failed", "abort"}
        BY <1>2 DEF ExpStage, ExpWrite, ExpPage, Go
    <2> QED BY <1>d, <2>1, <2>2 DEF ExportSteps, Unpublished
<1>3. CASE ExpPublish
    <2>1. UNCHANGED <<temp, before, lastResult>> /\ disk = before
        BY <1>3 DEF ExpPublish, Go, workerMem, PublishFits, Unpublished
    <2>2. \/ pc' = "exp_idle" /\ disk'.rows = temp
          \/ pc' = "exp_failed" /\ UNCHANGED disk
        BY <1>3 DEF ExpPublish, Go
    <2> QED BY <1>d, <2>1, <2>2 DEF ExportSteps, Unpublished
<1>4. CASE ExpIdle
    <2>1. UNCHANGED <<temp, disk, before, lastResult>>
        BY <1>4 DEF ExpIdle, Go, workerMem, expVars, files
    <2>2. \/ pc = "exp_idle" /\ disk.rows = temp
          \/ pc = "exp_failed" /\ disk = before
        BY <1>4 DEF ExpIdle, PublishFits, Unpublished
    <2>3. \/ pc' = "exp_done" /\ pc = "exp_idle"
          \/ pc' = "abort" /\ (Raises \/ pc = "exp_failed")
        BY <1>4 DEF ExpIdle, Go
    <2>4. Up /\ pc' = "abort" => disk' = before' \/ faults' >= 1
        BY <1>b, <1>e, <2>1, <2>2, <2>3
    <2>5. pc' \in {"exp_done", "abort"} /\ (pc' = "exp_done" => disk'.rows = temp')
        BY <2>1, <2>2, <2>3
    <2> QED BY <1>d, <2>1, <2>4, <2>5 DEF ExportSteps, Unpublished
<1>5. CASE ExpDone
    <2>1. UNCHANGED <<temp, disk, before, lastResult>>
        BY <1>5 DEF ExpDone, Go, workerMem, expVars, files
    <2>2. disk.rows = temp \/ (Len(temp) = 0 /\ disk = before)
        BY <1>5 DEF ExpDone, PublishFits
    <2>3. pc' = "exp_result" \/ (pc' = "abort" /\ Raises)
        BY <1>5 DEF ExpDone, Go, SetStage, Raises
    <2>4. Up /\ pc' = "abort" => faults' >= 1
        BY <1>b, <1>e, <2>3
    <2> QED BY <1>d, <2>1, <2>2, <2>3, <2>4 DEF ExportSteps, Unpublished
<1>6. CASE ExpResult
    <2>1. UNCHANGED <<temp, disk, before, faults>> /\ pc' = "finally"
          /\ lastResult'.kind = "exported" /\ lastResult'.total = Len(temp)
        BY <1>6 DEF ExpResult, Finish, Result, expVars, files, store
    <2>2. disk.rows = temp \/ (Len(temp) = 0 /\ disk = before)
        BY <1>6 DEF ExpResult, PublishFits
    <2> QED BY <2>1, <2>2 DEF PublishFits, ExportSteps, Unpublished
<1> QED BY <1>1, <1>2, <1>3, <1>4, <1>5, <1>6 DEF ExportStep

LEMMA NextPublishFits == SInv /\ ExportFits /\ PublishFits /\ [Next]_vars => PublishFits'
<1> SUFFICES ASSUME SInv, ExportFits, PublishFits, [Next]_vars PROVE PublishFits'
    OBVIOUS
<1>a. faults \in Nat
    BY FaultsAssumption DEF SInv, IInv, TypeOK, StoreTypeOK
<1>b. ASSUME UNCHANGED <<disk, before, job>>, pc' \notin ExportSteps,
             faults' = faults \/ faults' = faults + 1, Up' => Up,
             lastResult' = lastResult \/ lastResult'.kind \notin {"error", "exported"},
             pc' \in {"abort", "abort_stage"} => pc' = pc \/ job.kind # "export"
      PROVE  PublishFits'
    BY <1>a, <1>b DEF PublishFits, ExportSteps, Unpublished
<1>c. ASSUME lastResult' = NoResult, pc' \notin Unpublished,
             pc' \in {"exp_open", "exp_idle", "exp_done", "exp_result"} => pc' = "exp_open",
             pc' = "exp_open" => temp' = <<>>, pc' \notin {"abort", "abort_stage"}
      PROVE  PublishFits'
    BY <1>c DEF PublishFits, NoResult, Result
<1>d. ASSUME UNCHANGED <<disk, before, job, pc, temp>>,
             faults' = faults \/ faults' = faults + 1, Up' => Up,
             lastResult' = lastResult \/ lastResult' = NoResult
      PROVE  PublishFits'
    BY <1>a, <1>d DEF PublishFits, NoResult, Result
<1>1. CASE WorkerStep
    <2>a. UNCHANGED <<job, spc>> /\ pc # "dead" /\ (faults' = faults \/ faults' = faults + 1)
        BY <1>1, WorkerFrame DEF ThreadFrame, server
    <2>b. Up' = Up
        BY <2>a DEF Up
    <2>1. CASE ExportStep
        BY <2>1, <2>a, ExportPublishes
    <2>2. CASE (OptimizeStep \/ ImportStep) /\ UNCHANGED expVars
        <3>1. pc' \in OptimizeSteps \cup ImportSteps \cup {"abort", "finally"}
              /\ pc \in OptimizeSteps \cup ImportSteps
              /\ (lastResult' = lastResult
                  \/ lastResult'.kind \in {"optimized", "imported", "corrected"})
            BY <2>2, OptimizeMoves, ImportMoves
        <3>2. job.kind # "export"
            BY <3>1 DEF SInv, JobInStep
        <3>3. pc' \notin ExportSteps
            BY <3>1, StepsApart DEF ExportSteps
        <3> QED BY <1>b, <2>a, <2>b, <2>2, <3>1, <3>2, <3>3 DEF expVars, files
    <2>3. CASE (Abort \/ AbortStage \/ Finally \/ ThreadEnds) /\ UNCHANGED files
        <3>1. pc' \notin ExportSteps
            BY <2>3, EndMoves DEF ExportSteps
        <3>2. CASE pc = "abort" /\ pc' = "abort_stage" /\ lastResult' = ErrorResult
            <4>1. lastResult'.kind = "error"
                BY <3>2 DEF ErrorResult, Result
            <4> QED BY <1>a, <2>a, <2>b, <2>3, <3>1, <3>2, <4>1
                    DEF PublishFits, files, ExportSteps, Unpublished
        <3>3. CASE pc' \notin {"abort", "abort_stage"} /\ UNCHANGED lastResult
            BY <1>b, <2>a, <2>b, <2>3, <3>1, <3>3 DEF files
        <3> QED BY <2>3, <3>2, <3>3, EndMoves
    <2> QED BY <1>1, <2>1, <2>2, <2>3 DEF WorkerStep, jobFrames, expVars
<1>2. CASE Aside \/ Forgets \/ Clears
    BY <1>d, <1>2 DEF Aside, Forgets, Clears, frames, expVars, files, Up
<1>3. CASE Begins
    <2>1. lastResult' = NoResult
          /\ pc' \in {"opt_stage", "requeue", "imp_open", "staging", "cor_read", "exp_open"}
          /\ UNCHANGED temp /\ pc = "dead"
        BY <1>3, StartMoves DEF Begins, frames, expVars, Busy
    <2>2. pc' = "exp_open" => temp' = <<>>
        BY <2>1 DEF ExportFits
    <2> QED BY <1>c, <2>1, <2>2 DEF Unpublished
<1>4. CASE Dies
    BY <1>4, <1>c DEF Dies, Unpublished
<1>5. CASE Boots
    <2>1. UNCHANGED <<lastResult, pc>> /\ pc = "dead" /\ lastResult = NoResult
        BY <1>5 DEF Boots
    <2> QED BY <1>c, <2>1 DEF Unpublished
<1> QED BY <1>1, <1>2, <1>3, <1>4, <1>5, OthersTable DEF Next, Elsewhere

\* For all tables and page sizes: a published export holds every row that was in
\* scope when its job began, once and in row order; until it takes the place of
\* the file before, that one stays, whatever fails and whenever the process is
\* killed; an error with a new file in place takes a failed database call; and a
\* count reported is that of the file (exporter.py:119-156).
THEOREM ExportsAreWhole == Spec => []ExportIsWhole
<1>1. Init => ExportFits /\ PublishFits
    <2> SUFFICES ASSUME Init PROVE ExportFits /\ PublishFits
        OBVIOUS
    <2>1. pc = "dead" /\ temp = <<>> /\ disk = before /\ disk.rows = <<>> /\ disk.want = {}
          /\ lastResult.kind = "none"
        BY DEF Init, WorkerInit, FramesInit, ExpFrameInit, NoExport, NoResult, Result
    <2>2. ExportFits
        BY <2>1 DEF ExportFits, Paging
    <2> QED BY <2>1, <2>2 DEF PublishFits, Unpublished, ExportSteps
<1>2. ExportFits /\ PublishFits => ExportIsWhole
    BY DEF ExportFits, PublishFits, ExportIsWhole, ExportedRows
<1> QED BY <1>1, <1>2, NextExportFits, NextPublishFits, InStep, PTL DEF Spec
=============================================================================
