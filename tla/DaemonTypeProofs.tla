-------------------------- MODULE DaemonTypeProofs --------------------------
(***************************************************************************)
(* Type correctness of the daemon, for all products, files, requests and   *)
(* bounds.  One lemma for each kind of outcome of a database call and of a *)
(* step of the worker's thread, one lemma per job, one for the server.     *)
(***************************************************************************)
EXTENDS DaemonProperties, ProductTableProofs, FiniteSetTheorems, SequenceTheorems

Steps == WorkerSteps \cup OptimizeSteps \cup ImportSteps \cup ExportSteps

\* A database call that changes no table, or fails, keeps the types.
LEMMA StoreSame ==
    ASSUME StoreTypeOK, UNCHANGED store \/ Reads \/ Raises
    PROVE  StoreTypeOK'
<1>1. CASE UNCHANGED store \/ Reads
    BY <1>1 DEF StoreTypeOK, store, Reads
<1>2. CASE Raises
    BY <1>2, FaultsAssumption DEF StoreTypeOK, Raises
<1> QED BY <1>1, <1>2

\* A write of the products table keeps the types.
LEMMA StoreSetRows ==
    ASSUME StoreTypeOK, NEW t \in Table, SetRows(t)
    PROVE  StoreTypeOK'
BY DEF StoreTypeOK, SetRows, Commits

\* So does a write of the stage,
LEMMA StoreSetStage ==
    ASSUME StoreTypeOK, NEW s \in Stages, SetStage(s)
    PROVE  StoreTypeOK'
BY DEF StoreTypeOK, SetStage, Commits

\* of the source's headers or mappings,
LEMMA StoreSetSource ==
    ASSUME StoreTypeOK, NEW c \in Columns \cup {None}, SetHeaders(c) \/ SetMappings(c)
    PROVE  StoreTypeOK'
BY DEF StoreTypeOK, SetHeaders, SetMappings, Commits, Source

\* (a file of an import, or none, has columns and products)
LEMMA FileType ==
    ASSUME NEW f \in Files \cup {NoFile}
    PROVE  f.cols \in Columns \cup {None} /\ f.products \in Seq(Product)
<1>1. CASE f \in Files
    <2>1. f \in [cols : Columns, products : Seq(Product)]
        BY <1>1, FilesAssumption
    <2> QED BY <2>1
<1>2. CASE f = NoFile
    <2>1. <<>> \in Seq(Product)
        OBVIOUS
    <2> QED BY <1>2, <2>1 DEF NoFile
<1> QED BY <1>1, <1>2

\* and the copy of a staging database.
LEMMA StoreReplace ==
    ASSUME StoreTypeOK, NEW f \in Files \cup {NoFile}, ReplaceFrom(f)
    PROVE  StoreTypeOK'
<1>1. f.cols \in Columns \cup {None} /\ f.products \in Seq(Product)
    BY FileType
<1>2. <<>> \in Table
    BY DEF Table
<1>3. InsertProducts(<<>>, f.products) \in Table
    BY <1>1, <1>2, InsertType
<1> QED BY <1>1, <1>3 DEF StoreTypeOK, ReplaceFrom, Commits, Source, Stages

\* A move of the thread keeps the types,
LEMMA WorkerGo ==
    ASSUME WorkerTypeOK, NEW step \in Steps, Go(step)
    PROVE  WorkerTypeOK'
BY DEF WorkerTypeOK, Go, workerMem, Steps

\* its result does,
LEMMA WorkerFinish ==
    ASSUME WorkerTypeOK, NEW r \in Results, Finish(r)
    PROVE  WorkerTypeOK'
BY DEF WorkerTypeOK, Finish, events, WorkerSteps

\* and whatever leaves it alone.
LEMMA WorkerSame ==
    ASSUME WorkerTypeOK, UNCHANGED <<workerMem, pc>>
    PROVE  WorkerTypeOK'
BY DEF WorkerTypeOK, workerMem

\* The names of the steps.
LEMMA StepNames ==
    /\ {"abort", "finally", "exiting", "dead", "abort_stage"} \subseteq Steps
    /\ OptimizeSteps \subseteq Steps
    /\ ImportSteps \subseteq Steps
    /\ ExportSteps \subseteq Steps
BY DEF Steps, WorkerSteps

\* The counts of a table are numbers.
LEMMA ProgressType ==
    ASSUME NEW t \in Table
    PROVE  Progress(t) \in [total : Nat, done : Nat, error : Nat]
<1>1. IsFiniteSet(DOMAIN t) /\ Len(t) \in Nat
    BY TableRows, FS_Interval
<1>2. \A s : IsFiniteSet(WithStatus(t, s))
    BY <1>1, FS_Subset, SelectionType
<1>3. \A s : Cardinality(WithStatus(t, s)) \in Nat
    BY <1>2, FS_CardinalityType
<1> QED BY <1>1, <1>3 DEF Progress
-----------------------------------------------------------------------------
\* An optimization keeps the types.
LEMMA OptimizeTypes ==
    ASSUME StoreTypeOK, WorkerTypeOK, OptimizingTypeOK, OptimizeStep
    PROVE  StoreTypeOK' /\ WorkerTypeOK' /\ OptimizingTypeOK'
<1> USE StepNames DEF OptimizeSteps
<1>a. rows \in Table /\ item \in Nat /\ data \in Data \cup {None}
    BY DEF StoreTypeOK, OptimizingTypeOK
<1>b. ASSUME NEW status \in Statuses, NEW text \in Data \cup {None},
             NEW kind \in ErrorKinds \cup {None},
             SetRows(UpdateProductStatus(rows, item, status, text, kind))
      PROVE  StoreTypeOK'
    <2>1. UpdateProductStatus(rows, item, status, text, kind) \in Table
        BY <1>a, UpdateType
    <2> QED BY <2>1, <1>b, StoreSetRows
<1>c. {"rate_limit", "other"} \subseteq ClassifiedKinds /\ ClassifiedKinds \subseteq ErrorKinds
      /\ "missing_data" \in ErrorKinds
    BY DEF ClassifiedKinds, ErrorKinds
<1>d. ASSUME NEW kind \in ErrorKinds \cup {None}, Failed(kind)
      PROVE  StoreTypeOK' /\ tally' \in [total : Nat, done : Nat, error : Nat]
    <2>1. StoreTypeOK'
        BY <1>d, <1>b DEF Failed, Statuses
    <2>2. tally' = [tally EXCEPT !.error = @ + 1]
        BY <1>d DEF Failed
    <2> QED BY <2>1, <2>2 DEF OptimizingTypeOK
<1>e. ASSUME NEW kind \in ClassifiedKinds, Caught(kind)
      PROVE  WorkerTypeOK' /\ failure' \in ClassifiedKinds
    BY <1>e, WorkerGo DEF Caught
<1>1. CASE Requeue
    <2>1. CASE SetRows(RequeueErrors(rows, job.groups)) /\ Go("opt_stage")
               /\ ids' = ErrorIds(rows, job.groups) /\ left' = ids'
        <3>1. RequeueErrors(rows, job.groups) \in Table /\ ids' \subseteq Nat
            BY <2>1, <1>a, RequeueErrorsType, SelectionType
        <3>2. StoreTypeOK'
            BY <3>1, <2>1, StoreSetRows
        <3>3. WorkerTypeOK'
            BY <2>1, WorkerGo
        <3> QED BY <3>1, <3>2, <3>3, <2>1, <1>1 DEF Requeue, OptimizingTypeOK
    <2>2. CASE Raises /\ Go("abort") /\ UNCHANGED <<ids, left>>
        BY <2>2, <1>1, StoreSame, WorkerGo DEF Requeue, OptimizingTypeOK
    <2> QED BY <2>1, <2>2, <1>1 DEF Requeue
<1>2. CASE OptStage
    <2>1. StoreTypeOK'
        BY <1>2, StoreSame, StoreSetStage DEF OptStage, Stages
    <2>2. WorkerTypeOK'
        BY <1>2, WorkerGo DEF OptStage
    <2> QED BY <2>1, <2>2, <1>2 DEF OptStage, OptimizingTypeOK, optVars
<1>3. CASE OptProgress
    <2>1. StoreTypeOK' /\ WorkerTypeOK'
        BY <1>3, StoreSame, WorkerGo DEF OptProgress
    <2>2. tally' \in [total : Nat, done : Nat, error : Nat]
        BY <1>3, <1>a, ProgressType DEF OptProgress, OptimizingTypeOK
    <2> QED BY <2>1, <2>2, <1>3 DEF OptProgress, OptimizingTypeOK
<1>f. ASSUME NextPending \/ NextSelected
      PROVE  WorkerTypeOK' /\ left' \subseteq left /\ item' \in Nat /\ data' \in Data \cup {None}
    <2>1. ASSUME NEW i \in DOMAIN rows, Picked(i)
          PROVE  WorkerTypeOK' /\ item' \in Nat /\ data' \in Data \cup {None}
        <3>1. i \in Nat /\ rows[i] \in Row
            BY <1>a, TableRows
        <3>2. rows[i].data \in Data \cup {None}
            BY <3>1 DEF Row
        <3> QED BY <3>1, <3>2, <2>1, WorkerGo DEF Picked
    <2>2. CASE NextPending
        BY <2>1, <2>2, <1>a, WorkerGo DEF NextPending
    <2>3. CASE NextSelected
        <3>1. CASE left = {} /\ Go("opt_idle") /\ UNCHANGED <<left, item, data>>
            BY <3>1, <1>a, WorkerGo
        <3>2. ASSUME NEW i \in left, left' = left \ {i},
                     i \in WithStatus(rows, "pending") /\ Picked(i)
              PROVE  WorkerTypeOK' /\ left' \subseteq left /\ item' \in Nat /\ data' \in Data \cup {None}
            BY <3>2, <2>1 DEF WithStatus
        <3>3. ASSUME NEW i \in left, left' = left \ {i}, Go(pc) /\ UNCHANGED <<item, data>>
              PROVE  WorkerTypeOK' /\ left' \subseteq left /\ item' \in Nat /\ data' \in Data \cup {None}
            <4>1. pc \in Steps
                BY DEF WorkerTypeOK, Steps
            <4> QED BY <3>3, <4>1, <1>a, WorkerGo
        <3> QED BY <2>3, <3>1, <3>2, <3>3 DEF NextSelected
    <2> QED BY <1>f, <2>2, <2>3
<1>4. CASE NextProduct
    <2>1. StoreTypeOK'
        BY <1>4, StoreSame DEF NextProduct
    <2>2. WorkerTypeOK' /\ left' \subseteq left /\ item' \in Nat /\ data' \in Data \cup {None}
        BY <1>4, <1>f, <1>a, WorkerGo DEF NextProduct
    <2> QED BY <2>1, <2>2, <1>4 DEF NextProduct, OptimizingTypeOK
<1>5. CASE NextInTry
    <2>1. StoreTypeOK'
        BY <1>5, StoreSame DEF NextInTry
    <2>2. WorkerTypeOK' /\ left' \subseteq left /\ item' \in Nat /\ data' \in Data \cup {None}
        BY <1>5, <1>f, <1>a, <1>c, <1>e DEF NextInTry
    <2>3. failure' \in ClassifiedKinds \cup {None}
        BY <1>5, <1>c, <1>e DEF NextInTry, OptimizingTypeOK
    <2> QED BY <2>1, <2>2, <2>3, <1>5 DEF NextInTry, OptimizingTypeOK
<1>6. CASE CheckStop \/ Hold \/ RecheckStop \/ Pace
    <2>1. UNCHANGED <<store, optVars>>
        BY <1>6 DEF CheckStop, Hold, RecheckStop, Pace
    <2>2. WorkerTypeOK'
        BY <1>6, WorkerGo DEF CheckStop, Hold, RecheckStop, Pace
    <2>3. StoreTypeOK'
        BY <2>1, StoreSame
    <2> QED BY <2>1, <2>2, <2>3 DEF OptimizingTypeOK, optVars
<1>7. CASE Claim
    <2>1. StoreTypeOK'
        BY <1>7, <1>b, StoreSame DEF Claim, Statuses
    <2>2. WorkerTypeOK'
        BY <1>7, WorkerGo DEF Claim, AfterClaim
    <2>3. claims' \in 0..2
        BY <1>7 DEF Claim, OptimizingTypeOK
    <2> QED BY <2>1, <2>2, <2>3, <1>7 DEF Claim, OptimizingTypeOK, optFrame
<1>8. CASE MissingData
    <2>1. StoreTypeOK' /\ tally' \in [total : Nat, done : Nat, error : Nat]
        BY <1>8, <1>c, <1>d, StoreSame DEF MissingData, OptimizingTypeOK
    <2>2. WorkerTypeOK' /\ failure' \in ClassifiedKinds \cup {None}
        BY <1>8, <1>c, <1>e, WorkerGo DEF MissingData, OptimizingTypeOK
    <2> QED BY <2>1, <2>2, <1>8 DEF MissingData, OptimizingTypeOK
<1>9. CASE Unclaim
    <2>1. StoreTypeOK'
        BY <1>9, <1>b, StoreSame DEF Unclaim, Statuses
    <2>2. WorkerTypeOK' /\ failure' \in ClassifiedKinds \cup {None}
        BY <1>9, <1>c, <1>e, WorkerGo DEF Unclaim, OptimizingTypeOK
    <2> QED BY <2>1, <2>2, <1>9 DEF Unclaim, OptimizingTypeOK
<1>10. CASE Call
    <2>1. StoreTypeOK'
        BY <1>10, StoreSame DEF Call
    <2>2. WorkerTypeOK' /\ failure' \in ClassifiedKinds \cup {None}
        BY <1>10, <1>e, WorkerGo, FailuresAssumption DEF Call, OptimizingTypeOK
    <2> QED BY <2>1, <2>2, <1>10 DEF Call, OptimizingTypeOK
<1>11. CASE Save
    <2>1. StoreTypeOK'
        BY <1>11, <1>a, <1>b, StoreSame DEF Save, Statuses
    <2>2. WorkerTypeOK' /\ failure' \in ClassifiedKinds \cup {None}
        BY <1>11, <1>c, <1>e, WorkerGo DEF Save, OptimizingTypeOK
    <2>3. tally' \in [total : Nat, done : Nat, error : Nat]
        BY <1>11 DEF Save, OptimizingTypeOK
    <2> QED BY <2>1, <2>2, <2>3, <1>11 DEF Save, OptimizingTypeOK
<1>12. CASE SaveError
    <2>1. failure \in ErrorKinds \cup {None}
        BY <1>c DEF OptimizingTypeOK
    <2>2. StoreTypeOK' /\ tally' \in [total : Nat, done : Nat, error : Nat]
        BY <1>12, <2>1, <1>d, StoreSame DEF SaveError, OptimizingTypeOK
    <2>3. WorkerTypeOK'
        BY <1>12, WorkerGo DEF SaveError
    <2> QED BY <2>2, <2>3, <1>12 DEF SaveError, OptimizingTypeOK
<1>13. CASE OptIdle
    <2>1. StoreTypeOK'
        BY <1>13, StoreSame, StoreSetStage DEF OptIdle, Stages
    <2>2. WorkerTypeOK'
        BY <1>13, WorkerGo DEF OptIdle
    <2> QED BY <2>1, <2>2, <1>13 DEF OptIdle, OptimizingTypeOK, optVars
<1>14. CASE OptResult
    <2>1. Result("optimized", tally.total, tally.done, tally.error) \in Results
        BY DEF Result, Results, ResultKinds, OptimizingTypeOK
    <2>2. StoreTypeOK' /\ WorkerTypeOK'
        BY <1>14, <2>1, StoreSame, WorkerFinish DEF OptResult
    <2> QED BY <2>2, <1>14 DEF OptResult, OptimizingTypeOK, optVars
<1> QED BY <1>1, <1>2, <1>3, <1>4, <1>5, <1>6, <1>7, <1>8, <1>9, <1>10, <1>11, <1>12, <1>13,
           <1>14 DEF OptimizeStep
-----------------------------------------------------------------------------
\* The products a job imports come from one of the files.
LEMMA JobFile ==
    ASSUME WorkerTypeOK
    PROVE  /\ job.file \in Files \cup {NoFile}
           /\ products \in Seq(Product) /\ Len(products) \in Nat
           /\ job.scope \in Scopes
<1>1. job.file \in Files \cup {NoFile} /\ job.scope \in Scopes
    BY DEF WorkerTypeOK, Jobs
<1>2. \A f \in Files \cup {NoFile} : f.products \in Seq(Product)
    BY FileType
<1>3. products \in Seq(Product)
    BY <1>1, <1>2 DEF products
<1> QED BY <1>1, <1>3

\* A batch of an import is a part of its file.
LEMMA BatchType ==
    ASSUME WorkerTypeOK, ImportingTypeOK, loaded < Len(products)
    PROVE  NextBatch \in Seq(Product) /\ Len(NextBatch) \in Nat
<1> DEFINE last == IF loaded + BatchSize < Len(products)
                   THEN loaded + BatchSize ELSE Len(products)
<1>1. loaded \in Nat /\ BatchSize \in Nat \ {0} /\ Len(products) \in Nat
    BY JobFile, BatchAssumption DEF ImportingTypeOK
<1>2. last \in Nat /\ last <= Len(products)
    BY <1>1
<1>3. NextBatch = SubSeq(products, loaded + 1, last)
    BY DEF NextBatch
<1> HIDE DEF last
<1>4. \A j \in (loaded + 1)..last : products[j] \in Product
    BY <1>1, <1>2, JobFile
<1>5. SubSeq(products, loaded + 1, last) \in Seq(Product)
    BY <1>1, <1>2, JobFile, SubSeqProperties
<1> QED BY <1>3, <1>5

\* An import keeps the types.
LEMMA ImportTypes ==
    ASSUME StoreTypeOK, WorkerTypeOK, ImportingTypeOK, ImportStep
    PROVE  StoreTypeOK' /\ WorkerTypeOK' /\ ImportingTypeOK'
<1> USE StepNames DEF ImportSteps
<1>a. rows \in Table /\ job.file \in Files \cup {NoFile}
      /\ products \in Seq(Product) /\ Len(products) \in Nat
    BY JobFile DEF StoreTypeOK
<1>b. ASSUME Unusable PROVE StoreTypeOK' /\ WorkerTypeOK' /\ ImportingTypeOK'
    BY <1>b, StoreSame, WorkerGo DEF Unusable, ImportingTypeOK, impVars
<1>1. CASE ImpOpen
    BY <1>1, <1>b, StoreSame, WorkerGo DEF ImpOpen, ImportingTypeOK, impVars
<1>2. CASE ImpHeaders \/ ImpMappings
    <2>1. job.file.cols \in Columns \cup {None}
        BY <1>a, FileType
    <2>2. StoreTypeOK'
        BY <1>2, <2>1, StoreSame, StoreSetSource DEF ImpHeaders, ImpMappings
    <2>3. WorkerTypeOK'
        BY <1>2, WorkerGo DEF ImpHeaders, ImpMappings
    <2> QED BY <1>2, <2>2, <2>3 DEF ImpHeaders, ImpMappings, ImportingTypeOK, impVars
<1>3. CASE ImpStage \/ ImpIdle
    <2>1. StoreTypeOK'
        BY <1>3, StoreSame, StoreSetStage DEF ImpStage, ImpIdle, Stages
    <2>2. WorkerTypeOK'
        BY <1>3, WorkerGo DEF ImpStage, ImpIdle
    <2> QED BY <1>3, <2>1, <2>2 DEF ImpStage, ImpIdle, ImportingTypeOK, impVars
<1>4. CASE ImpRows
    <2>1. CASE loaded < Len(products)
        <3>1. NextBatch \in Seq(Product) /\ Len(NextBatch) \in Nat
            BY <2>1, BatchType
        <3>2. InsertProducts(rows, NextBatch) \in Table
            BY <3>1, <1>a, InsertType
        <3>3. CASE SetRows(InsertProducts(rows, NextBatch)) /\ Go("imp_rows")
                   /\ loaded' = loaded + Len(NextBatch)
            BY <3>1, <3>2, <3>3, StoreSetRows, WorkerGo DEF ImportingTypeOK
        <3>4. CASE Raises /\ Go("abort") /\ UNCHANGED loaded
            BY <3>4, StoreSame, WorkerGo DEF ImportingTypeOK
        <3> QED BY <1>4, <1>b, <2>1, <3>3, <3>4 DEF ImpRows
    <2>2. CASE loaded = Len(products) /\ Go("imp_idle") /\ UNCHANGED <<store, loaded>>
        BY <2>2, StoreSame, WorkerGo DEF ImportingTypeOK
    <2> QED BY <1>4, <2>1, <2>2 DEF ImpRows
<1>5. CASE ImpResult
    <2>1. Result("imported", Len(products), 0, 0) \in Results
        BY <1>a DEF Result, Results, ResultKinds
    <2> QED BY <1>5, <2>1, StoreSame, WorkerFinish DEF ImpResult, ImportingTypeOK, impVars
<1>6. CASE Staging
    BY <1>6, <1>b, StoreSame, WorkerGo DEF Staging, ImportingTypeOK, impVars
<1>7. CASE Replace
    <2>1. CASE ReplaceFrom(job.file) /\ Go("imp_result") /\ UNCHANGED impVars
        BY <2>1, <1>a, StoreReplace, WorkerGo DEF ImportingTypeOK, impVars
    <2>2. CASE Raises /\ Go("abort") /\ UNCHANGED impVars
        BY <2>2, StoreSame, WorkerGo DEF ImportingTypeOK, impVars
    <2> QED BY <1>7, <2>1, <2>2 DEF Replace
<1>8. CASE CorRead
    BY <1>8, <1>b, StoreSame, WorkerGo DEF CorRead, ImportingTypeOK, impVars
<1>9. CASE CorApply
    <2>1. ApplyCorrections(rows, products) \in Table
        BY <1>a, ApplyCorrectionsType
    <2>2. Result("corrected", Len(products), 0, 0) \in Results
        BY <1>a DEF Result, Results, ResultKinds
    <2>3. StoreTypeOK'
        BY <1>9, <2>1, StoreSame, StoreSetRows DEF CorApply
    <2>4. WorkerTypeOK'
        BY <1>9, <2>2, WorkerGo, WorkerFinish DEF CorApply
    <2> QED BY <1>9, <2>3, <2>4 DEF CorApply, ImportingTypeOK, impVars
<1> QED BY <1>1, <1>2, <1>3, <1>4, <1>5, <1>6, <1>7, <1>8, <1>9 DEF ImportStep
-----------------------------------------------------------------------------
\* An export keeps the types.
LEMMA ExportTypes ==
    ASSUME StoreTypeOK, WorkerTypeOK, ExportingTypeOK, ExportStep
    PROVE  StoreTypeOK' /\ WorkerTypeOK' /\ ExportingTypeOK'
<1> USE StepNames DEF ExportSteps
<1>a. rows \in Table /\ job.scope \in Scopes
    BY JobFile DEF StoreTypeOK
<1>b. \A after : ExportPage(rows, job.scope, after, PageSize) \subseteq Nat
    BY <1>a, PageType
<1>1. CASE ExpOpen
    <2>1. StoreTypeOK' /\ WorkerTypeOK'
        BY <1>1, StoreSame, WorkerGo DEF ExpOpen
    <2>2. page' \subseteq Nat /\ want' \subseteq Nat
        BY <1>1, <1>a, <1>b, ScopeType DEF ExpOpen, ExportingTypeOK
    <2> QED BY <1>1, <2>1, <2>2 DEF ExpOpen, ExportingTypeOK
<1>2. CASE ExpStage \/ ExpIdle \/ ExpDone
    <2>1. StoreTypeOK'
        BY <1>2, StoreSame, StoreSetStage DEF ExpStage, ExpIdle, ExpDone, Stages
    <2>2. WorkerTypeOK'
        BY <1>2, WorkerGo DEF ExpStage, ExpIdle, ExpDone
    <2> QED BY <1>2, <2>1, <2>2 DEF ExpStage, ExpIdle, ExpDone, ExportingTypeOK, expVars, files
<1>3. CASE ExpWrite
    <2>1. StoreTypeOK' /\ WorkerTypeOK'
        BY <1>3, StoreSame, WorkerGo DEF ExpWrite
    <2>2. page' \subseteq Nat /\ temp' \in Seq(Nat)
        <3>1. page \subseteq Nat /\ temp \in Seq(Nat)
            BY DEF ExportingTypeOK
        <3>2. ASSUME NEW i \in page, temp' = Append(temp, i), page' = page \ {i}
              PROVE  page' \subseteq Nat /\ temp' \in Seq(Nat)
            BY <3>1, <3>2
        <3>3. CASE UNCHANGED <<page, temp>>
            BY <3>1, <3>3
        <3> QED BY <1>3, <3>2, <3>3 DEF ExpWrite
    <2> QED BY <1>3, <2>1, <2>2 DEF ExpWrite, ExportingTypeOK, files
<1>4. CASE ExpPage
    <2>1. StoreTypeOK' /\ WorkerTypeOK'
        BY <1>4, StoreSame, WorkerGo DEF ExpPage
    <2> QED BY <1>4, <1>b, <2>1 DEF ExpPage, ExportingTypeOK, files
<1>5. CASE ExpPublish
    <2>1. StoreTypeOK' /\ WorkerTypeOK'
        BY <1>5, StoreSame, WorkerGo DEF ExpPublish
    <2> QED BY <1>5, <2>1 DEF ExpPublish, ExportingTypeOK, File
<1>6. CASE ExpResult
    <2>1. Result("exported", Len(temp), 0, 0) \in Results
        BY DEF Result, Results, ResultKinds, ExportingTypeOK
    <2> QED BY <1>6, <2>1, StoreSame, WorkerFinish DEF ExpResult, ExportingTypeOK, expVars, files
<1> QED BY <1>1, <1>2, <1>3, <1>4, <1>5, <1>6 DEF ExportStep

\* The end of a thread keeps the types.
LEMMA EndTypes ==
    ASSUME StoreTypeOK, WorkerTypeOK, Abort \/ AbortStage \/ Finally \/ ThreadEnds
    PROVE  StoreTypeOK' /\ WorkerTypeOK'
<1> USE StepNames
<1>1. CASE Abort
    <2>1. ErrorResult \in Results
        BY DEF ErrorResult, Result, Results, ResultKinds
    <2> QED BY <1>1, <2>1, StoreSame DEF Abort, WorkerTypeOK, WorkerSteps, events
<1>2. CASE AbortStage
    BY <1>2, StoreSame, StoreSetStage, WorkerGo DEF AbortStage, Stages
<1>3. CASE Finally
    BY <1>3, StoreSame DEF Finally, WorkerTypeOK, WorkerSteps, events
<1>4. CASE ThreadEnds
    BY <1>4, StoreSame DEF ThreadEnds, WorkerTypeOK, WorkerSteps, workerMem
<1> QED BY <1>1, <1>2, <1>3, <1>4

\* A new thread's frames, and those of no thread, have their types.
LEMMA FreshTypes ==
    ASSUME OptimizingTypeOK, ExportingTypeOK, Fresh, UNCHANGED disk,
           UNCHANGED before \/ before' = disk,
           UNCHANGED claims \/ claims' = 0
    PROVE  OptimizingTypeOK' /\ ImportingTypeOK' /\ ExportingTypeOK'
<1>1. NoTally \in [total : Nat, done : Nat, error : Nat]
    BY DEF NoTally
<1>2. <<>> \in Seq(Nat)
    OBVIOUS
<1> QED BY <1>1, <1>2 DEF Fresh, FreshOptFrame, FreshExpFrame, OptimizingTypeOK,
           ImportingTypeOK, ExportingTypeOK

\* What no step of a job touches keeps its type.
LEMMA FramesSame ==
    ASSUME OptimizingTypeOK, ImportingTypeOK, ExportingTypeOK
    PROVE  /\ UNCHANGED optVars => OptimizingTypeOK'
           /\ UNCHANGED impVars => ImportingTypeOK'
           /\ UNCHANGED expVars => ExportingTypeOK'
BY DEF OptimizingTypeOK, ImportingTypeOK, ExportingTypeOK, optVars, impVars, expVars, files

ServerTypeOK == spc \in ServerSteps /\ goal \in Goals /\ view \in Views
BoundsTypeOK == overruns \in 0..MaxOverruns /\ crashes \in 0..MaxCrashes

\* What a step of the worker's thread leaves alone keeps its type.
LEMMA ServerSame ==
    ASSUME ServerTypeOK, BoundsTypeOK
    PROVE  (UNCHANGED server => ServerTypeOK') /\ (UNCHANGED bounds => BoundsTypeOK')
BY DEF ServerTypeOK, BoundsTypeOK, server, bounds

\* The type invariant is that of its parts.
LEMMA TypeParts ==
    /\ TypeOK => /\ StoreTypeOK /\ WorkerTypeOK /\ OptimizingTypeOK /\ ImportingTypeOK
                 /\ ExportingTypeOK /\ ServerTypeOK /\ BoundsTypeOK
    /\ StoreTypeOK' /\ WorkerTypeOK' /\ OptimizingTypeOK' /\ ImportingTypeOK'
       /\ ExportingTypeOK' /\ ServerTypeOK' /\ BoundsTypeOK' => TypeOK'
BY DEF TypeOK, ServerTypeOK, BoundsTypeOK

\* A step of the worker's thread keeps the types.
LEMMA WorkerStepTypes ==
    ASSUME TypeOK, WorkerStep
    PROVE  TypeOK'
<1> USE TypeParts, FramesSame, ServerSame
<1>1. CASE OptimizeStep /\ UNCHANGED <<impVars, expVars, server, bounds>>
    BY <1>1, OptimizeTypes
<1>2. CASE ImportStep /\ UNCHANGED <<optVars, expVars, server, bounds>>
    BY <1>2, ImportTypes
<1>3. CASE ExportStep /\ UNCHANGED <<optVars, impVars, server, bounds>>
    BY <1>3, ExportTypes
<1>4. CASE (Abort \/ AbortStage \/ Finally) /\ UNCHANGED <<jobFrames, server, bounds>>
    BY <1>4, EndTypes DEF jobFrames
<1>5. CASE ThreadEnds /\ Fresh /\ UNCHANGED <<claims, files, server, bounds>>
    BY <1>5, EndTypes, FreshTypes DEF files
<1> QED BY <1>1, <1>2, <1>3, <1>4, <1>5 DEF WorkerStep

\* A new job has a first step, and its stage is one of the pipeline's.
LEMMA StartTypes ==
    ASSUME WorkerTypeOK, NEW j \in Jobs, j.kind # "none", StartThread(j), pauseEv' \in BOOLEAN
    PROVE  WorkerTypeOK'
<1>1. j.kind \in JobKinds
    BY DEF Jobs
<1>2. FirstStep(j.kind) \in Steps
    BY <1>1 DEF JobKinds, FirstStep, Steps, OptimizeSteps, ImportSteps, ExportSteps
<1>3. StageOf(j.kind) \in Stages
    BY <1>1 DEF JobKinds, StageOf, Stages
<1>4. NoResult \in Results
    BY DEF NoResult, Result, Results, ResultKinds
<1> QED BY <1>2, <1>3, <1>4 DEF StartThread, WorkerTypeOK, Steps

\* The jobs clients start are jobs.
LEMMA JobTypes ==
    /\ NoJob \in Jobs /\ OptimizeJob \in Jobs /\ OptimizeJob.kind = "optimize"
    /\ \A g \in RetryChoices : RetryJob(g) \in Jobs /\ RetryJob(g).kind = "retry"
    /\ \A k \in {"append", "replace", "corrections"}, f \in Files :
           ImportJob(k, f) \in Jobs /\ ImportJob(k, f).kind = k
    /\ \A s \in Scopes : ExportJob(s) \in Jobs /\ ExportJob(s).kind = "export"
<1>1. NoJob \in Jobs
    BY DEF NoJob, Jobs, JobKinds, Scopes
<1>2. OptimizeJob \in Jobs /\ OptimizeJob.kind = "optimize"
    BY DEF NoJob, OptimizeJob, Jobs, JobKinds, Scopes
<1>3. ASSUME NEW g \in RetryChoices
      PROVE  RetryJob(g) \in Jobs /\ RetryJob(g).kind = "retry"
    <2>1. g \in SUBSET RetryableKinds
        BY RetryAssumption
    <2> QED BY <2>1 DEF NoJob, RetryJob, Jobs, JobKinds, Scopes
<1>4. ASSUME NEW k \in {"append", "replace", "corrections"}, NEW f \in Files
      PROVE  ImportJob(k, f) \in Jobs /\ ImportJob(k, f).kind = k
    BY DEF NoJob, ImportJob, Jobs, JobKinds, Scopes
<1>5. ASSUME NEW s \in Scopes
      PROVE  ExportJob(s) \in Jobs /\ ExportJob(s).kind = "export"
    BY DEF NoJob, ExportJob, Jobs, JobKinds
<1> QED BY <1>1, <1>2, <1>3, <1>4, <1>5

\* A request keeps the types.
LEMMA RequestTypes ==
    ASSUME TypeOK, Request
    PROVE  TypeOK'
<1> USE TypeParts, FramesSame, ServerSame, StoreSame
<1>1. CASE HandleOptimize \/ HandleRetry
    <2>1. ASSUME NEW j \in Jobs, j.kind # "none", Optimize(j)
          PROVE  TypeOK'
        <3>1. WorkerTypeOK'
            BY <2>1, StartTypes DEF Optimize, OptimizerUnavailable, WorkerTypeOK
        <3> QED BY <2>1, <3>1 DEF Optimize, jobFrames
    <2> QED BY <1>1, <2>1, JobTypes DEF HandleOptimize, HandleRetry
<1>2. CASE HandleImport
    <2>1. PICK k \in {"append", "replace", "corrections"}, f \in Files :
              StartThread(ImportJob(k, f))
        BY <1>2 DEF HandleImport
    <2>2. WorkerTypeOK'
        <3>1. pauseEv' \in BOOLEAN
            BY <1>2 DEF HandleImport, WorkerTypeOK
        <3> QED BY <2>1, <3>1, JobTypes, StartTypes
    <2> QED BY <1>2, <2>2 DEF HandleImport, jobFrames
<1>3. CASE HandleExport
    <2>1. PICK s \in Scopes : StartThread(ExportJob(s))
        BY <1>3 DEF HandleExport
    <2>2. WorkerTypeOK'
        <3>1. pauseEv' \in BOOLEAN
            BY <1>3 DEF HandleExport, WorkerTypeOK
        <3> QED BY <2>1, <3>1, JobTypes, StartTypes
    <2> QED BY <1>3, <2>2 DEF HandleExport, jobFrames
<1>4. CASE HandlePause
    <2>1. OptimizingTypeOK'
        BY <1>4 DEF HandlePause, CountClaims, OptimizingTypeOK, optFrame
    <2>2. WorkerTypeOK'
        BY <1>4 DEF HandlePause, WorkerTypeOK
    <2> QED BY <1>4, <2>1, <2>2 DEF HandlePause
<1>5. CASE HandleResume
    <2>1. WorkerTypeOK'
        BY <1>5 DEF HandleResume, WorkerTypeOK
    <2> QED BY <1>5, <2>1 DEF HandleResume, jobFrames
<1>6. CASE HandleReset \/ HandleStop
    <2>1. ServerTypeOK'
        BY <1>6 DEF HandleReset, HandleStop, ServerTypeOK, ServerSteps, Goals
    <2> QED BY <1>6, <2>1, WorkerSame DEF HandleReset, HandleStop, jobFrames
<1>7. CASE HandleStatus
    <2>1. ServerTypeOK'
        <3>1. Progress(rows) \in [total : Nat, done : Nat, error : Nat]
            BY ProgressType DEF StoreTypeOK
        <3>2. view' \in Views
            BY <1>7, <3>1 DEF HandleStatus, Observe, ServerTypeOK, Views
        <3> QED BY <1>7, <3>2 DEF HandleStatus, Observe, ServerTypeOK, ServerSteps
    <2> QED BY <1>7, <2>1, WorkerSame DEF HandleStatus, Observe, jobFrames
<1> QED BY <1>1, <1>2, <1>3, <1>4, <1>5, <1>6, <1>7 DEF Request

\* A reset, complete or not, and the start behind it keep the types.
LEMMA ResetTypes ==
    ASSUME StoreTypeOK, NEW keep \in BOOLEAN, Reset(keep)
    PROVE  StoreTypeOK'
<1>1. FlagPending(rows) \in Table /\ <<>> \in Table
    BY FlagPendingType DEF StoreTypeOK, Table
<1> QED BY <1>1 DEF Reset, Emptied, Commits, StoreTypeOK, Stages, Source

LEMMA FlagTypes ==
    ASSUME StoreTypeOK, FlagsOnly
    PROVE  StoreTypeOK'
<1>1. FlagPending(rows) \in Table
    BY FlagPendingType DEF StoreTypeOK
<1> QED BY <1>1, FaultsAssumption DEF FlagsOnly, StoreTypeOK

LEMMA HalfResetTypes ==
    ASSUME StoreTypeOK, NEW keep \in BOOLEAN, HalfReset(keep)
    PROVE  rows' \in Table /\ stage' \in Stages /\ source' \in Source
<1>1. FlagPending(rows) \in Table /\ <<>> \in Table
    BY FlagPendingType DEF StoreTypeOK, Table
<1>2. [source EXCEPT !.mapping = None] \in Source /\ Emptied.source \in Source
    BY DEF StoreTypeOK, Source, Emptied
<1> QED BY <1>1, <1>2 DEF HalfReset, tables, StoreTypeOK, Stages

LEMMA OpenTypes ==
    ASSUME StoreTypeOK, Open
    PROVE  StoreTypeOK'
<1>1. RequeueProcessing(rows) \in Table
    BY RequeueProcessingType DEF StoreTypeOK
<1> QED BY <1>1 DEF Open, StoreTypeOK, Stages

\* The status reply of no request.
LEMMA NoViewType == NoView \in Views /\ NoResult \in Results
<1>1. NoResult \in Results /\ NoTally \in [total : Nat, done : Nat, error : Nat]
    BY DEF NoResult, Result, Results, ResultKinds, NoTally
<1> QED BY <1>1 DEF NoView, Views, Stages

\* What the end of the process leaves keeps the types.
LEMMA GoneTypes ==
    ASSUME TypeOK, ProcessGone, rows' \in Table, stage' \in Stages, source' \in Source
    PROVE  /\ StoreTypeOK' /\ WorkerTypeOK' /\ OptimizingTypeOK' /\ ImportingTypeOK'
           /\ ExportingTypeOK' /\ ServerTypeOK' /\ overruns' \in 0..MaxOverruns
<1> USE TypeParts
<1>1. StoreTypeOK'
    BY DEF ProcessGone, StoreTypeOK
<1>2. WorkerTypeOK'
    BY NoViewType, JobTypes DEF ProcessGone, WorkerTypeOK, WorkerSteps
<1>3. OptimizingTypeOK' /\ ImportingTypeOK' /\ ExportingTypeOK'
    BY FreshTypes DEF ProcessGone
<1>4. ServerTypeOK'
    BY NoViewType DEF ProcessGone, ServerTypeOK, ServerSteps, Goals
<1> QED BY <1>1, <1>2, <1>3, <1>4 DEF ProcessGone, BoundsTypeOK

\* A field of the status reply keeps its type.
LEMMA ObserveTypes ==
    ASSUME TypeOK, ReadStatus
    PROVE  TypeOK'
<1> USE TypeParts, FramesSame, ServerSame, StoreSame
<1>1. view \in Views /\ spc' \in ServerSteps /\ UNCHANGED goal
    BY DEF ReadStatus, Observe, ServerTypeOK, ServerSteps
<1>2. stage \in Stages /\ Busy \in BOOLEAN /\ lastResult \in Results
    BY DEF StoreTypeOK, WorkerTypeOK, Busy
<1>3. StageShown \in Stages
    BY <1>1, <1>2 DEF StageShown, WorkerTypeOK, Views
<1>4. view' \in Views
    <2>1. ASSUME NEW p \in Stages PROVE [view EXCEPT !["pipeline"] = p] \in Views
        BY <1>1 DEF Views
    <2>2. ASSUME NEW b \in BOOLEAN PROVE [view EXCEPT !["busy"] = b] \in Views
        BY <1>1 DEF Views
    <2>3. ASSUME NEW p \in Stages PROVE [view EXCEPT !["stage"] = p] \in Views
        BY <1>1 DEF Views
    <2>4. ASSUME NEW r \in Results PROVE [view EXCEPT !["result"] = r] \in Views
        BY <1>1 DEF Views
    <2> QED BY <1>2, <1>3, <2>1, <2>2, <2>3, <2>4 DEF ReadStatus, Observe
<1>5. ServerTypeOK'
    BY <1>1, <1>4 DEF ServerTypeOK
<1>6. UNCHANGED <<store, workerMem, pc, jobFrames, bounds>>
    BY DEF ReadStatus, Observe
<1> QED BY <1>5, <1>6, WorkerSame DEF jobFrames

\* A step of the server's thread keeps the types.
LEMMA ServerStepTypes ==
    ASSUME TypeOK, ServerStep
    PROVE  TypeOK'
<1> USE TypeParts, FramesSame, ServerSame, StoreSame
<1>1. CASE StopSet \/ StopUnpause
    <2>1. OptimizingTypeOK'
        BY <1>1 DEF StopSet, StopUnpause, CountClaims, OptimizingTypeOK, optFrame, jobFrames,
                    optVars
    <2>2. WorkerTypeOK'
        BY <1>1 DEF StopSet, StopUnpause, WorkerTypeOK
    <2>3. ServerTypeOK'
        BY <1>1 DEF StopSet, StopUnpause, ServerTypeOK, ServerSteps
    <2> QED BY <1>1, <2>1, <2>2, <2>3 DEF StopSet, StopUnpause, jobFrames
<1>2. CASE StopJoin \/ StopTimeout
    <2>1. ServerTypeOK'
        BY <1>2 DEF StopJoin, StopTimeout, AfterJoin, ServerTypeOK, ServerSteps
    <2>2. BoundsTypeOK'
        BY <1>2, BoundsAssumption DEF StopJoin, StopTimeout, BoundsTypeOK, bounds
    <2> QED BY <1>2, <2>1, <2>2, WorkerSame DEF StopJoin, StopTimeout, jobFrames
<1>3. CASE ResetWorker
    <2>1. WorkerTypeOK'
        BY <1>3, NoViewType DEF ResetWorker, WorkerReset, WorkerTypeOK
    <2>2. ServerTypeOK'
        BY <1>3 DEF ResetWorker, ServerTypeOK, ServerSteps
    <2> QED BY <1>3, <2>1, <2>2 DEF ResetWorker, jobFrames
<1>4. CASE ResetDb
    <2>1. StoreTypeOK'
        BY <1>4, ResetTypes, FlagTypes DEF ResetDb
    <2>2. ServerTypeOK'
        BY <1>4 DEF ResetDb, ServerTypeOK, ServerSteps, Goals
    <2> QED BY <1>4, <2>1, <2>2, WorkerSame DEF ResetDb, jobFrames
<1>5. CASE Close
    <2>1. StoreTypeOK'
        BY <1>5 DEF Close, StoreTypeOK, tables
    <2>2. ServerTypeOK'
        BY <1>5 DEF Close, ServerTypeOK, ServerSteps
    <2> QED BY <1>5, <2>1, <2>2, WorkerSame DEF Close, jobFrames
<1>6. CASE Exit
    <2>1. rows' \in Table /\ stage' \in Stages /\ source' \in Source
        BY <1>6 DEF Exit, tables, StoreTypeOK
    <2> QED BY <1>6, <2>1, GoneTypes DEF Exit, BoundsTypeOK
<1>7. CASE ReadStatus
    BY <1>7, ObserveTypes
<1>8. CASE StatusSent
    <2>1. ServerTypeOK'
        BY <1>8, NoViewType DEF StatusSent, ServerTypeOK, ServerSteps
    <2> QED BY <1>8, <2>1, WorkerSame DEF StatusSent, jobFrames
<1> QED BY <1>1, <1>2, <1>3, <1>4, <1>5, <1>6, <1>7, <1>8 DEF ServerStep

\* A kill of the process keeps the types.
LEMMA CrashTypes ==
    ASSUME TypeOK, Crash
    PROVE  TypeOK'
<1> USE TypeParts
<1>1. rows' \in Table /\ stage' \in Stages /\ source' \in Source
    BY HalfResetTypes DEF Crash, tables, StoreTypeOK
<1>2. crashes' \in 0..MaxCrashes
    BY BoundsAssumption DEF Crash, BoundsTypeOK
<1> QED BY <1>1, <1>2, GoneTypes DEF Crash, BoundsTypeOK

\* A start of the process keeps the types.
LEMMA StartOfProcessTypes ==
    ASSUME TypeOK, Start
    PROVE  TypeOK'
<1> USE TypeParts, FramesSame, ServerSame
<1>1. ServerTypeOK'
    BY DEF Start, ServerTypeOK, ServerSteps
<1> QED BY <1>1, OpenTypes, WorkerSame DEF Start, jobFrames

\* The daemon begins with values of the right types.
LEMMA InitTypes == Init => TypeOK
<1> SUFFICES ASSUME Init PROVE TypeOK
    OBVIOUS
<1>1. StoreTypeOK
    <2>1. <<>> \in Table
        BY DEF Table
    <2>2. rows \in Table /\ source \in Source
        <3>1. CASE rows = <<>> /\ source = [headers |-> None, mapping |-> None]
            BY <2>1, <3>1 DEF Source
        <3>2. ASSUME NEW f \in Files, rows = InsertProducts(<<>>, f.products),
                     source = [headers |-> f.cols, mapping |-> f.cols]
              PROVE  rows \in Table /\ source \in Source
            BY <2>1, <3>2, FileType, InsertType DEF Source
        <3> QED BY <3>1, <3>2 DEF Init, StoreInit
    <2> QED BY <2>2, FaultsAssumption DEF Init, StoreInit, StoreTypeOK, Stages
<1>2. WorkerTypeOK
    BY NoViewType, JobTypes DEF Init, WorkerInit, WorkerTypeOK, WorkerSteps
<1>3. OptimizingTypeOK /\ ImportingTypeOK
    BY DEF Init, FramesInit, OptFrameInit, OptimizingTypeOK, ImportingTypeOK, NoTally
<1>4. ExportingTypeOK
    <2>1. <<>> \in Seq(Nat)
        OBVIOUS
    <2>2. NoExport \in File
        BY <2>1 DEF NoExport, File
    <2> QED BY <2>1, <2>2 DEF Init, FramesInit, ExpFrameInit, ExportingTypeOK
<1>5. ServerTypeOK /\ BoundsTypeOK
    BY NoViewType, BoundsAssumption DEF Init, ServerTypeOK, ServerSteps, Goals, BoundsTypeOK
<1> QED BY <1>1, <1>2, <1>3, <1>4, <1>5 DEF TypeOK, ServerTypeOK, BoundsTypeOK

\* Every step of the daemon keeps the types.
LEMMA NextTypes == TypeOK /\ [Next]_vars => TypeOK'
<1> SUFFICES ASSUME TypeOK, [Next]_vars PROVE TypeOK'
    OBVIOUS
<1>1. CASE Next
    BY <1>1, WorkerStepTypes, ServerStepTypes, RequestTypes, CrashTypes, StartOfProcessTypes
       DEF Next
<1>2. CASE UNCHANGED vars
    BY <1>2, TypeParts, FramesSame, ServerSame, StoreSame, WorkerSame DEF vars
<1> QED BY <1>1, <1>2

\* The tables, the worker's memory, every frame and every reply of the daemon
\* have their types in every reachable state, for all files and all bounds.
THEOREM TypeCorrect == Spec => []TypeOK
BY InitTypes, NextTypes, PTL DEF Spec
=============================================================================
