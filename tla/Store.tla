------------------------------- MODULE Store --------------------------------
(***************************************************************************)
(* The SQLite database of one data directory (src/pdo/core/db.py).  Every  *)
(* method holds the database's lock for its whole body and, but for reset, *)
(* writes in one transaction, so a method call is one step: it commits, or *)
(* it raises and changes nothing.  The database outlives the process.      *)
(***************************************************************************)
EXTENDS ProductTable

CONSTANTS
    Columns,   \* column layouts (header rows) of CSV files
    Keyed,     \* the layouts with exactly one product_id column
    Covers,    \* pairs of layouts: the columns the first maps exist in the second
    Files,     \* the CSV files clients name in an import request
    MaxFaults  \* bound: calls that may fail on an open database

ASSUME ColumnsAssumption ==
    /\ None \notin Columns
    /\ Keyed \subseteq Columns
    /\ Covers \subseteq Columns \X Columns
    /\ \A c \in Columns : <<c, c>> \in Covers
ASSUME FilesAssumption   == Files \subseteq [cols : Columns, products : Seq(Product)]
ASSUME FaultsAssumption  == MaxFaults \in Nat

\* A file with the same header row for all its products.
NoFile == [cols |-> None, products |-> <<>>]

VARIABLES
    rows,    \* table products
    stage,   \* pipeline_state.stage
    source,  \* source_headers (metadata) and column_mappings, named by their layout
    conn,    \* the connection: "open" or "closed"
    faults   \* failed calls on an open connection so far

tables == <<rows, stage, source>>
store  == <<rows, stage, source, conn, faults>>

Stages == {"idle", "importing", "optimizing", "exporting", "done"}
Source == [headers : Columns \cup {None}, mapping : Columns \cup {None}]

StoreTypeOK ==
    /\ rows \in Table
    /\ stage \in Stages
    /\ source \in Source
    /\ conn \in {"open", "closed"}
    /\ faults \in 0..MaxFaults

\* A data directory nobody used yet, or one that holds an imported batch.
StoreInit ==
    /\ \/ rows = <<>> /\ source = [headers |-> None, mapping |-> None]
       \/ \E f \in Files : /\ rows = InsertProducts(<<>>, f.products)
                           /\ source = [headers |-> f.cols, mapping |-> f.cols]
    /\ stage = "idle"
    /\ conn = "open"
    /\ faults = 0
-----------------------------------------------------------------------------
(***************************************************************************)
(* The outcomes of a method call                                           *)
(***************************************************************************)

Reads == conn = "open" /\ UNCHANGED store

Commits == conn = "open" /\ UNCHANGED <<conn, faults>>

SetRows(t) == Commits /\ rows' = t /\ UNCHANGED <<stage, source>>

SetStage(s) == Commits /\ stage' = s /\ UNCHANGED <<rows, source>>

\* source_format and source_headers
SetHeaders(c) == Commits /\ source' = [source EXCEPT !.headers = c] /\ UNCHANGED <<rows, stage>>

SetMappings(c) == Commits /\ source' = [source EXCEPT !.mapping = c] /\ UNCHANGED <<rows, stage>>

\* replace_from: the staging database is copied over this one.
ReplaceFrom(f) ==
    /\ Commits
    /\ rows' = InsertProducts(<<>>, f.products)
    /\ source' = [headers |-> f.cols, mapping |-> f.cols]
    /\ stage' = "idle"

\* The call raises: the connection is closed, or SQLite fails (a full disk, an
\* I/O error, a lock held by another process).
Raises ==
    /\ UNCHANGED <<rows, stage, source, conn>>
    /\ \/ conn = "closed" /\ UNCHANGED faults
       \/ conn = "open" /\ faults < MaxFaults /\ faults' = faults + 1
-----------------------------------------------------------------------------
(***************************************************************************)
(* Maintenance                                                             *)
(***************************************************************************)

Emptied == [rows |-> <<>>, stage |-> "idle", source |-> [headers |-> None, mapping |-> None]]

Reset(keep) ==
    /\ Commits
    /\ IF keep
       THEN rows' = FlagPending(rows) /\ stage' = "idle" /\ UNCHANGED source
       ELSE rows' = Emptied.rows /\ stage' = Emptied.stage /\ source' = Emptied.source

\* The statements of a reset commit one by one: the second one of a reset that
\* keeps the products fails.  (A DROP that fails leaves a process without some
\* of its tables until the next start, which is not modelled.)
FlagsOnly ==
    /\ conn = "open" /\ faults < MaxFaults
    /\ rows' = FlagPending(rows)
    /\ faults' = faults + 1
    /\ UNCHANGED <<stage, source, conn>>

\* These are the tables a process killed between two statements leaves, the
\* missing ones recreated empty by the next start.
HalfReset(keep) ==
    \/ UNCHANGED tables
    \/ keep /\ rows' = FlagPending(rows) /\ UNCHANGED <<stage, source>>
    \/ /\ ~keep
       /\ \/ rows' = rows /\ stage' = stage /\ source' = [source EXCEPT !.mapping = None]
          \/ rows' = <<>> /\ stage' \in {stage, "idle"}
                          /\ source' = [source EXCEPT !.mapping = None]
          \/ rows' = <<>> /\ stage' = "idle" /\ source' = Emptied.source

\* Defect: the rows of the process before stay in processing.
OpenWithoutRequeue ==
    /\ conn' = "open"
    /\ stage' = IF stage = "done" THEN "done" ELSE "idle"
    /\ UNCHANGED <<rows, source, faults>>

\* Database() and initialize() keep what is there; requeue_processing() returns
\* interrupted work to a consistent idle state.
Open ==
    /\ conn' = "open"
    /\ rows' = RequeueProcessing(rows)
    /\ stage' = IF stage = "done" THEN "done" ELSE "idle"
    /\ UNCHANGED <<source, faults>>
=============================================================================
