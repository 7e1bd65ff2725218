----------------------------- MODULE Exporting ------------------------------
(***************************************************************************)
(* The export job (export_csv of src/pdo/core/exporter.py): pages of rows  *)
(* are read one by one, written to a temporary file, and the temporary     *)
(* file replaces the destination at the end.  The job looks at neither the *)
(* stop nor the pause event.                                               *)
(***************************************************************************)
EXTENDS Worker

CONSTANT PageSize   \* rows per page (500 in the code)

ASSUME PageAssumption == PageSize \in Nat \ {0}

VARIABLES
    page,   \* ids of the page that are not written yet
    temp,   \* ids written to the temporary file, in order
    disk    \* the destination file: ids in order; it outlives the process

\* Auxiliary, no part of the program: the rows in scope at the first page, and
\* the destination file at that moment.
VARIABLES want, before

files   == <<disk, before>>
expVars == <<page, temp, want, files>>

File == [rows : Seq(Nat), want : SUBSET Nat]
NoExport == [rows |-> <<>>, want |-> {}]

ExportingTypeOK ==
    /\ page \subseteq Nat
    /\ temp \in Seq(Nat)
    /\ want \subseteq Nat
    /\ disk \in File
    /\ before \in File

ExpFrameInit  == page = {} /\ temp = <<>> /\ want = {}
FreshExpFrame == page' = {} /\ temp' = <<>> /\ want' = {}

\* The source file is no valid destination; an empty scope writes no file.
ExpOpen ==
    /\ pc = "exp_open"
    /\ \/ /\ Reads
          /\ page' = ExportPage(rows, job.scope, 0, PageSize)
          /\ want' = InScope(rows, job.scope)
          /\ Go(IF page' = {} THEN "exp_done" ELSE "exp_stage")
       \/ UNCHANGED <<store, page, want>> /\ Go("abort")
    /\ before' = disk
    /\ UNCHANGED <<temp, disk>>

ExpStage ==
    /\ pc = "exp_stage"
    /\ \/ SetStage("exporting") /\ Go("exp_write")
       \/ Raises /\ Go("abort")
    /\ UNCHANGED expVars

\* One row, in id order, or an OSError or UnicodeError.
ExpWrite ==
    /\ pc = "exp_write"
    /\ \/ \E i \in page :
             /\ \A j \in page : i <= j
             /\ temp' = Append(temp, i)
             /\ page' = page \ {i}
             /\ Go(IF page' = {} THEN "exp_page" ELSE "exp_write")
       \/ UNCHANGED <<page, temp>> /\ Go("exp_failed")
    /\ UNCHANGED <<store, want, files>>

ExpPage ==
    /\ pc = "exp_page"
    /\ \/ /\ Reads
          /\ page' = ExportPage(rows, job.scope, temp[Len(temp)], PageSize)
          /\ Go(IF page' = {} THEN "exp_publish" ELSE "exp_write")
       \/ Raises /\ Go("exp_failed") /\ UNCHANGED page
    /\ UNCHANGED <<temp, want, files>>

\* temporary.replace(output_path)
ExpPublish ==
    /\ pc = "exp_publish"
    /\ \/ disk' = [rows |-> temp, want |-> want] /\ Go("exp_idle")
       \/ UNCHANGED disk /\ Go("exp_failed")
    /\ UNCHANGED <<store, page, temp, want, before>>

\* Defect: the replacement is in the finally clause.
ExpIdlePublishes ==
    /\ pc \in {"exp_idle", "exp_failed"}
    /\ disk' = [rows |-> temp, want |-> want]
    /\ \/ SetStage("idle") /\ Go(IF pc = "exp_idle" THEN "exp_done" ELSE "abort")
       \/ Raises /\ Go("abort")
    /\ UNCHANGED <<page, temp, want, before>>

\* finally, on the way to the result and on the way to the exception
ExpIdle ==
    /\ pc \in {"exp_idle", "exp_failed"}
    /\ \/ SetStage("idle") /\ Go(IF pc = "exp_idle" THEN "exp_done" ELSE "abort")
       \/ Raises /\ Go("abort")
    /\ UNCHANGED expVars

ExpDone ==
    /\ pc = "exp_done"
    /\ \/ SetStage("done") /\ Go("exp_result")
       \/ Raises /\ Go("abort")
    /\ UNCHANGED expVars

ExpResult ==
    /\ pc = "exp_result"
    /\ Finish(Result("exported", Len(temp), 0, 0))
    /\ UNCHANGED <<store, expVars>>

ExportStep ==
    \/ ExpOpen \/ ExpStage \/ ExpWrite \/ ExpPage \/ ExpPublish
    \/ ExpIdle \/ ExpDone \/ ExpResult
=============================================================================
