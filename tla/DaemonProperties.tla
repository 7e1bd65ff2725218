-------------------------- MODULE DaemonProperties --------------------------
(***************************************************************************)
(* What the daemon's two threads, its crashes and its restarts must leave  *)
(* true of the batch, of the results it reports and of the files it        *)
(* writes.                                                                 *)
(***************************************************************************)
EXTENDS Daemon

\* The process lives and its database connection is open.
Up == spc \notin {"closed", "down"}

\* The thread has claimed item and not yet recorded what became of it.
Claimed == {"missing", "pace", "unclaim", "call", "save", "save_error"}

\* The thread has picked item and may still write to its row.
Holding == Claimed \cup {"check", "hold", "recheck", "claim", "next_in_try"}

Orphans == {i \in WithStatus(rows, "processing") : ~(pc \in Claimed /\ i = item)}
-----------------------------------------------------------------------------
(***************************************************************************)
(* Invariants                                                              *)
(***************************************************************************)

\* A row holds an optimized description exactly when it is done, the text was
\* written for the data the row has now, and a failed row has an error group:
\* the thread writes by id long after it read the row, and corrections and
\* resets change rows in between (optimizer.py:123-180).
RowsConsistent ==
    \A i \in DOMAIN rows :
        /\ rows[i].status = "done" <=> rows[i].text # None
        /\ rows[i].text # None => rows[i].text = rows[i].data
        /\ rows[i].status = "error" <=> rows[i].kind # None

\* What the thread is about to write still fits: until it writes, the row it
\* picked has the data it read and no text, and belongs to a retry's selection,
\* however long the call took and whatever a pause or a reset did meanwhile
\* (optimizer.py:114-180).
WorkIsCurrent ==
    pc \in Holding =>
        /\ item \in DOMAIN rows => rows[item].data = data /\ rows[item].text = None
        /\ pc \in {"pace", "call", "save"} => data # None
        /\ pc = "save_error" => failure # None
        /\ job.kind = "retry" => item \in ids

\* While the daemon is up, a row in processing belongs to the product the
\* thread is working on.  No optimization and no retry ever picks another one
\* up, only a restart does; each one takes a failed database call, in the
\* handler that records an error (optimizer.py:138-174, db.py:406-422).
OrphansNeedFaults == Up => Cardinality(Orphans) <= faults

\* When no job runs, the stored stage says so: a stage left at optimizing makes
\* a watching client poll for ever.  One failed database call at the wrong
\* moment leaves an import's stage behind, any other stage takes two
\* (worker.py:109-138 and 161-186, exporter.py:150-156, db.py:417-421).
StageSettles ==
    Up /\ ~Busy => \/ stage \in {"idle", "done"}
                   \/ stage = "importing" /\ faults >= 1
                   \/ faults >= 2

\* The totals of a finished optimization are those of the table although the
\* job counts on its own from one early snapshot; each failed database call
\* adds at most one failure that is none (optimizer.py:106-110, 150-183).
ResultMatchesTable ==
    Up /\ lastResult.kind = "optimized" /\ overruns = 0 =>
        /\ lastResult.total = Len(rows)
        /\ lastResult.done = Cardinality(WithStatus(rows, "done"))
        /\ lastResult.error - Cardinality(WithStatus(rows, "error")) \in 0..faults

\* An optimization that was never told to stop leaves no product of its
\* selection pending: pauses, failures and missing data end no run early
\* (optimizer.py:114-180).
RunIsComplete ==
    pc = "finally" /\ lastResult.kind = "optimized" /\ ~stopEv /\ overruns = 0 =>
        \A i \in WithStatus(rows, "pending") : job.kind = "retry" /\ i \notin ids

\* From the moment a pause or a stop is requested, at most one more product is
\* started, also when a paused worker is told to stop (optimizer.py:126-138,
\* worker.py:250-256: the stop event is set before the pause is lifted).
HoldIsPrompt == pauseEv \/ stopEv \/ spc \in {"stop_unpause", "stop_join"} => claims <= 1

ExportedRows == {disk.rows[n] : n \in DOMAIN disk.rows}

\* The steps of an export whose file has not taken the destination's place.
Unpublished == {"exp_stage", "exp_write", "exp_page", "exp_publish", "exp_failed"}

\* A published export holds every row that was in scope when the job began,
\* once and in row order, over page boundaries.  Until the temporary file
\* replaces it, the destination is the file before, so that a failing write or
\* a kill leaves that one; an error is reported with a new file in its place only
\* when a database call has failed (behind the replacement), and a count with the
\* file it counts (exporter.py:119-156).
ExportIsWhole ==
    /\ overruns = 0 => /\ ExportedRows = disk.want
                       /\ \A m, n \in DOMAIN disk.rows : m < n => disk.rows[m] < disk.rows[n]
    /\ pc \in Unpublished => disk = before
    /\ Up /\ job.kind = "export" /\ lastResult.kind = "error" => disk = before \/ faults >= 1
    /\ Up /\ job.kind = "export" /\ lastResult.kind = "exported" =>
           \/ lastResult.total = Len(disk.rows)
           \/ lastResult.total = 0 /\ disk = before

\* A status reply that says the worker is not busy carries the final result of
\* its last job, although the fields are read one after the other
\* (worker.py:278-296).
StatusResultIsFinal ==
    spc = "status_sent" /\ ~view.busy => view.result = lastResult /\ ~Busy
-----------------------------------------------------------------------------
(***************************************************************************)
(* Action properties                                                       *)
(***************************************************************************)

KeepsDone ==
    spc # "db_reset" /\ pc # "replace" =>
        \A i \in WithStatus(rows, "done") : i \in DOMAIN rows' /\ rows'[i] = rows[i]

\* A done row is never touched again, by no job, crash, restart or failed
\* write, until a user resets or replaces the batch (db.py:133-169, 279-337,
\* 406-422).
DoneIsKept == [][KeepsDone]_vars

KeepsBatch ==
    Len(rows') < Len(rows) => \/ spc = "db_reset"
                              \/ pc = "replace" /\ rows' # <<>>

\* Products only disappear in a reset the user asked for or when a replacement
\* import brought at least one product: no failed, empty or interrupted import
\* loses the batch before (worker.py:84-109, db.py:425-439).
BatchIsNotLost == [][KeepsBatch]_vars

KeepsToSelection ==
    job.kind = "retry" /\ pc # "dead" /\ spc # "db_reset" =>
        \A i \in DOMAIN rows :
            \/ rows'[i] = rows[i]
            \/ pc = "requeue" /\ rows[i].kind \in job.groups
            \/ pc # "requeue" /\ i \in ids

\* A retry changes failed rows of the selected groups, and from then on only
\* the rows it requeued: other pending rows are left untouched
\* (optimizer.py:98 and 114-121, db.py:279-303).
RetryKeepsToSelection == [][KeepsToSelection]_vars
-----------------------------------------------------------------------------
(***************************************************************************)
(* Liveness                                                                *)
(***************************************************************************)

\* The language model never answers, and the provider waits without a timeout.
Hanging == pc = "call"

\* Every job ends, unless a client keeps it paused or a call to a language model
\* never returns (optimizer.py:123-183, gemini_optimizer.py:74 and 83).
JobsEnd == <>[]Hanging \/ []<>(~Busy \/ pauseEv)

\* A reset and a shutdown are carried out, also when the worker is paused, unless
\* a call to a language model never returns; then the ten seconds of the stop end
\* the wait, which this leaves out (server.py:80-107 and 398-409,
\* worker.py:250-256).
StopsEnd == <>[]Hanging \/ (goal # "none" ~> goal = "none")
-----------------------------------------------------------------------------
(***************************************************************************)
(* Refinement                                                              *)
(***************************************************************************)

\* Claims, orphans and interrupted work are open products to the abstract batch.
Abstract == INSTANCE Batch WITH
    batch <- [i \in DOMAIN rows |->
                [key |-> rows[i].key, data |-> rows[i].data, text |-> rows[i].text,
                 state |-> CASE rows[i].status = "done"  -> "done"
                             [] rows[i].status = "error" -> "failed"
                             [] OTHER                    -> "open"]]

\* The daemon's steps, its crashes and its restarts change the batch only as
\* the abstract batch allows (db.py as a whole, the job of every thread).
ImplementsBatch == Abstract!Spec
-----------------------------------------------------------------------------
(***************************************************************************)
(* What the documentation says and the code does not do                    *)
(***************************************************************************)

\* "Stop all operations and clear the database." (docs/cli_reference.md,
\* pdo reset): no job is alive when the reset is answered.
ResetStopsAll == [][spc = "db_reset" /\ spc' = "serve" => pc' = "dead"]_vars
=============================================================================
