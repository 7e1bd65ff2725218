----------------------------- MODULE Importing ------------------------------
(***************************************************************************)
(* The import jobs (import_csv and import_corrections of                   *)
(* src/pdo/core/importer.py, as Worker.start_import runs them): "append"   *)
(* adds a file to the active batch in several transactions, "replace"      *)
(* imports it into a staging database and copies that over the active one, *)
(* "corrections" changes failed products.  None of them looks at the stop  *)
(* or the pause event.                                                     *)
(***************************************************************************)
EXTENDS Worker

CONSTANT BatchSize   \* rows per INSERT transaction (500 in the code)

ASSUME BatchAssumption == BatchSize \in Nat \ {0}

VARIABLE loaded      \* products of the file inserted so far

impVars == <<loaded>>

ImportingTypeOK == loaded \in Nat

products == job.file.products

\* The file is read and found to be no usable CSV, or to have no usable row.
Unusable == UNCHANGED <<store, impVars>> /\ Go("abort")

\* Format and columns are validated before anything is written.
ImpOpen ==
    /\ pc = "imp_open"
    /\ \/ UNCHANGED <<store, impVars>> /\ Go("imp_headers")
       \/ Unusable

ImpHeaders ==
    /\ pc = "imp_headers"
    /\ \/ SetHeaders(job.file.cols) /\ Go("imp_mappings")
       \/ Raises /\ Go("abort")
    /\ UNCHANGED impVars

ImpMappings ==
    /\ pc = "imp_mappings"
    /\ \/ SetMappings(job.file.cols) /\ Go("imp_stage")
       \/ Raises /\ Go("abort")
    /\ UNCHANGED impVars

ImpStage ==
    /\ pc = "imp_stage"
    /\ \/ SetStage("importing") /\ Go("imp_rows")
       \/ Raises /\ Go("abort")
    /\ UNCHANGED impVars

NextBatch ==
    LET last == IF loaded + BatchSize < Len(products) THEN loaded + BatchSize ELSE Len(products)
    IN  SubSeq(products, loaded + 1, last)

\* Full batches, then the rest; a row the reader cannot parse ends the import.
ImpRows ==
    /\ pc = "imp_rows"
    /\ \/ /\ loaded < Len(products)
          /\ \/ /\ SetRows(InsertProducts(rows, NextBatch))
                /\ loaded' = loaded + Len(NextBatch)
                /\ Go("imp_rows")
             \/ Raises /\ Go("abort") /\ UNCHANGED loaded
             \/ Unusable
       \/ loaded = Len(products) /\ Go("imp_idle") /\ UNCHANGED <<store, loaded>>

ImpIdle ==
    /\ pc = "imp_idle"
    /\ \/ SetStage("idle") /\ Go("imp_result")
       \/ Raises /\ Go("abort")
    /\ UNCHANGED impVars

ImpResult ==
    /\ pc = "imp_result"
    /\ Finish(Result("imported", Len(products), 0, 0))
    /\ UNCHANGED <<store, impVars>>
-----------------------------------------------------------------------------
\* Defect: a staging import without rows replaces the batch, too.
StagingUnchecked ==
    /\ pc = "staging"
    /\ \/ Go("replace") /\ UNCHANGED <<store, impVars>>
       \/ Unusable

\* The staging import succeeds with at least one row, or it raises.
Staging ==
    /\ pc = "staging"
    /\ \/ products # <<>> /\ Go("replace") /\ UNCHANGED <<store, impVars>>
       \/ Unusable

Replace ==
    /\ pc = "replace"
    /\ \/ ReplaceFrom(job.file) /\ Go("imp_result")
       \/ Raises /\ Go("abort")
    /\ UNCHANGED impVars
-----------------------------------------------------------------------------
\* A file without recorded source headers is compared with itself.
Acceptable ==
    /\ source.mapping \in Keyed
    /\ source.headers \in {None, job.file.cols}
    /\ <<source.mapping, job.file.cols>> \in Covers
    /\ products # <<>>

CorRead ==
    /\ pc = "cor_read"
    /\ \/ Reads /\ Acceptable /\ Go("cor_apply") /\ UNCHANGED impVars
       \/ Unusable

\* apply_corrections commits all rows of the file or, at the first bad one, none.
CorApply ==
    /\ pc = "cor_apply"
    /\ \/ /\ Correctable(rows, products)
          /\ SetRows(ApplyCorrections(rows, products))
          /\ Finish(Result("corrected", Len(products), 0, 0))
       \/ ~Correctable(rows, products) /\ Reads /\ Go("abort")
       \/ Raises /\ Go("abort")
    /\ UNCHANGED impVars

ImportStep ==
    \/ ImpOpen \/ ImpHeaders \/ ImpMappings \/ ImpStage \/ ImpRows \/ ImpIdle \/ ImpResult
    \/ Staging \/ Replace
    \/ CorRead \/ CorApply
=============================================================================
