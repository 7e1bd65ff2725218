------------------------------ MODULE Service ------------------------------
(***************************************************************************)
(* The daemon as a desktop window sees it: one job at a time, the batch,   *)
(* the status it answers with, and the other clients that use it.  A job   *)
(* is two steps here and a status is read in one; the modules of the       *)
(* daemon have the detail.                                                 *)
(***************************************************************************)
EXTENDS Naturals

CONSTANTS
    MaxJobs,      \* jobs of all clients
    MaxCrashes    \* of the daemon

ASSUME ServiceAssumption == MaxJobs \in Nat /\ MaxCrashes \in Nat

VARIABLES
    up,       \* the daemon answers
    job,      \* of its worker
    jobs,     \* jobs so far
    last,     \* _last_result
    paused,   \* _pause_event
    table,    \* what the products of the batch have come to
    source,   \* the import the batch comes from
    crashes

\* Auxiliary, no part of the program: changes of the status so far.
VARIABLE seq

daemonVars  == <<up, job, jobs, last, paused, table, source, seq>>
serviceVars == <<daemonVars, crashes>>

NoJob    == [n |-> 0, kind |-> "none"]
NoResult == [n |-> 0, error |-> FALSE]
NoStatus == [seq |-> 0, kind |-> "none", paused |-> FALSE, table |-> "empty", last |-> NoResult,
             crashes |-> 0]

\* get_status()
Snapshot == [seq |-> seq, kind |-> job.kind, paused |-> paused, table |-> table, last |-> last,
             crashes |-> crashes]

ServiceInit ==
    /\ up = TRUE /\ job = NoJob /\ jobs = 0 /\ last = NoResult /\ paused = FALSE
    /\ table \in {"empty", "pending"} /\ source = 0
    /\ crashes = 0 /\ seq = 1
-----------------------------------------------------------------------------
\* A job starts: _start_thread clears the result, an optimization its pause,
\* and a retry makes failed products pending again.
Begin(kind, retry) ==
    /\ jobs' = jobs + 1
    /\ job' = [n |-> jobs', kind |-> kind]
    /\ last' = NoResult
    /\ paused' = (paused /\ kind # "optimize")
    /\ table' = IF retry THEN "pending" ELSE table
    /\ seq' = seq + 1
    /\ UNCHANGED <<up, source>>

Ends(error) == last' = [n |-> job.n, error |-> error]

JobSucceeds ==
    /\ Ends(FALSE)
    /\ CASE job.kind = "import"     -> table' = "pending" /\ source' = job.n
         [] job.kind = "correction" -> table' = "pending" /\ UNCHANGED source
         [] job.kind = "optimize"   -> table' \in {"done", "errors"} /\ UNCHANGED source
         [] job.kind = "export"     -> UNCHANGED <<table, source>>

JobFails == Ends(TRUE) /\ UNCHANGED <<table, source>>

JobEnds ==
    /\ job # NoJob
    /\ job.kind = "optimize" => ~paused
    /\ JobSucceeds \/ JobFails
    /\ job' = NoJob
    /\ seq' = seq + 1
    /\ UNCHANGED <<up, jobs, paused, crashes>>

\* pause and resume set an event, whatever the worker does.
SetPaused(value) ==
    /\ paused' = value
    /\ seq' = seq + 1
    /\ UNCHANGED <<up, job, jobs, last, table, source>>

Crash ==
    /\ up /\ crashes < MaxCrashes
    /\ crashes' = crashes + 1
    /\ up' = FALSE /\ job' = NoJob /\ last' = NoResult /\ paused' = FALSE
    /\ seq' = seq + 1
    /\ UNCHANGED <<jobs, table, source>>

\* Some client starts it again; the window does not.
Restart ==
    /\ ~up
    /\ up' = TRUE
    /\ UNCHANGED <<job, jobs, last, paused, table, source, seq, crashes>>

\* Another client imports, exports or optimizes.
OtherJob ==
    /\ up /\ job = NoJob /\ jobs < MaxJobs
    /\ \/ \E kind \in {"import", "export"} : Begin(kind, FALSE)
       \/ table = "pending" /\ Begin("optimize", FALSE)
    /\ UNCHANGED crashes
=============================================================================
