---------------------------- MODULE DaemonProofs ----------------------------
(***************************************************************************)
(* The safety of the batch, for all products, files, requests and bounds.  *)
(* A row is only changed by one of the table's statements; the first part  *)
(* says what each of them does to a table of sound rows, the second that   *)
(* the thread gives them the arguments this needs.                         *)
(***************************************************************************)
EXTENDS DaemonTypeProofs

Sound(r) ==
    /\ r.status = "done" <=> r.text # None
    /\ r.text # None => r.text = r.data
    /\ r.status = "error" <=> r.kind # None

AllSound(t) == \A i \in DOMAIN t : Sound(t[i])

\* A new product is a sound row.
LEMMA NewRowSound ==
    ASSUME NEW p \in Product
    PROVE  Sound(NewRow(p))
BY DEF Sound, NewRow

\* New products are sound rows behind the old ones.
LEMMA InsertSound ==
    ASSUME NEW t \in Table, AllSound(t), NEW ps \in Seq(Product), NEW u,
           u = InsertProducts(t, ps)
    PROVE  AllSound(u) /\ \A i \in DOMAIN t : i \in DOMAIN u /\ u[i] = t[i]
<1>1. u \in Table /\ Len(u) = Len(t) + Len(ps) /\ \A i \in DOMAIN t : u[i] = t[i]
    BY InsertType
<1>2. \A i \in DOMAIN u \ DOMAIN t : Sound(u[i])
    BY InsertType, NewRowSound
<1>3. DOMAIN t \subseteq DOMAIN u
    <2>1. DOMAIN t = 1..Len(t) /\ DOMAIN u = 1..Len(u) /\ Len(t) \in Nat /\ Len(ps) \in Nat
        BY <1>1, TableRows
    <2> QED BY <1>1, <2>1
<1> QED BY <1>1, <1>2, <1>3 DEF AllSound

\* A write of one row keeps soundness when its arguments fit the row.
LEMMA UpdateSound ==
    ASSUME NEW t \in Table, AllSound(t), NEW i \in Nat, NEW status \in Statuses,
           NEW text \in Data \cup {None}, NEW kind \in ErrorKinds \cup {None},
           NEW u, u = UpdateProductStatus(t, i, status, text, kind),
           i \in DOMAIN t => t[i].text = None /\ (text # None => text = t[i].data),
           status = "done" <=> text # None,
           status = "error" => kind # None
    PROVE  /\ AllSound(u)
           /\ \A j \in DOMAIN t : j # i => u[j] = t[j]
           /\ i \in DOMAIN t => u[i].data = t[i].data /\ u[i].text = text
<1>1. DOMAIN u = DOMAIN t /\ \A j \in DOMAIN t : t[j] \in Row
    BY UpdateType, TableRows
<1>2. \A j \in DOMAIN t : j # i => u[j] = t[j]
    BY DEF UpdateProductStatus
<1>3. ASSUME i \in DOMAIN t
      PROVE  u[i].data = t[i].data /\ u[i].text = text /\ Sound(u[i])
    <2> DEFINE newText == IF text = None THEN t[i].text ELSE text
               newKind == IF status = "error" THEN kind ELSE None
    <2>1. u[i] = [t[i] EXCEPT !.status = status, !.text = newText, !.kind = newKind]
        BY <1>3 DEF UpdateProductStatus
    <2>2. newText = text
        BY <1>3
    <2>3. newKind # None <=> status = "error"
        OBVIOUS
    <2> HIDE DEF newText, newKind
    <2>4. /\ u[i].status = status /\ u[i].text = text /\ u[i].kind = newKind
          /\ u[i].data = t[i].data
        BY <1>1, <1>3, <2>1, <2>2 DEF Row
    <2> QED BY <1>3, <2>3, <2>4 DEF Sound
<1> QED BY <1>1, <1>2, <1>3 DEF AllSound

\* The statements on many rows keep soundness, and done rows as they are.
LEMMA RequeueErrorsSound ==
    ASSUME NEW t \in Table, AllSound(t), NEW kinds, NEW u, u = RequeueErrors(t, kinds)
    PROVE  AllSound(u) /\ \A i \in DOMAIN t : i \notin ErrorIds(t, kinds) => u[i] = t[i]
<1>1. DOMAIN u = DOMAIN t /\ \A i \in DOMAIN t : t[i] \in Row
    BY RequeueErrorsType, TableRows
<1>2. ASSUME NEW i \in DOMAIN t PROVE Sound(u[i])
    <2>1. CASE i \in ErrorIds(t, kinds)
        <3>1. u[i] = [t[i] EXCEPT !.status = "pending", !.kind = None]
            BY <2>1 DEF RequeueErrors
        <3>2. t[i].status = "error"
            BY <2>1 DEF ErrorIds, WithStatus
        <3> QED BY <1>1, <3>1, <3>2 DEF Sound, AllSound, Row
    <2>2. CASE i \notin ErrorIds(t, kinds)
        BY <2>2 DEF RequeueErrors, AllSound
    <2> QED BY <2>1, <2>2
<1> QED BY <1>1, <1>2 DEF AllSound, RequeueErrors

LEMMA RequeueProcessingSound ==
    ASSUME NEW t \in Table, AllSound(t), NEW u, u = RequeueProcessing(t)
    PROVE  /\ AllSound(u)
           /\ \A i \in DOMAIN t : /\ t[i].status # "processing" => u[i] = t[i]
                                  /\ u[i].data = t[i].data /\ u[i].text = t[i].text
<1>1. DOMAIN u = DOMAIN t /\ \A i \in DOMAIN t : t[i] \in Row
    BY RequeueProcessingType, TableRows
<1>2. ASSUME NEW i \in DOMAIN t
      PROVE  Sound(u[i]) /\ u[i].data = t[i].data /\ u[i].text = t[i].text
    <2>1. u[i] = t[i] \/ (t[i].status = "processing"
                          /\ u[i] = [t[i] EXCEPT !.status = "pending"])
        BY DEF RequeueProcessing
    <2> QED BY <1>1, <2>1 DEF Sound, AllSound, Row
<1> QED BY <1>1, <1>2 DEF AllSound, RequeueProcessing

LEMMA FlagPendingSound ==
    ASSUME NEW t \in Table, NEW u, u = FlagPending(t)
    PROVE  /\ AllSound(u)
           /\ \A i \in DOMAIN t : u[i].data = t[i].data /\ u[i].text = None
<1>1. DOMAIN u = DOMAIN t /\ \A i \in DOMAIN t : t[i] \in Row
    BY FlagPendingType, TableRows
<1>2. ASSUME NEW i \in DOMAIN t
      PROVE  Sound(u[i]) /\ u[i].data = t[i].data /\ u[i].text = None
    <2>1. u[i] = [t[i] EXCEPT !.status = "pending", !.text = None, !.kind = None]
        BY DEF FlagPending
    <2> QED BY <1>1, <2>1 DEF Sound, Row
<1> QED BY <1>1, <1>2 DEF AllSound

\* Corrections that were accepted change failed rows only.
LEMMA ApplyCorrectionsSound ==
    ASSUME NEW t \in Table, AllSound(t), NEW ps \in Seq(Product), Correctable(t, ps),
           NEW u, u = ApplyCorrections(t, ps)
    PROVE  AllSound(u) /\ \A i \in DOMAIN t : t[i].status # "error" => u[i] = t[i]
<1>1. DOMAIN u = DOMAIN t /\ \A i \in DOMAIN t : t[i] \in Row
    BY ApplyCorrectionsType, TableRows
<1>2. ASSUME NEW i \in DOMAIN t
      PROVE  Sound(u[i]) /\ (t[i].status # "error" => u[i] = t[i])
    <2>1. CASE \E n \in DOMAIN ps : ps[n].key = t[i].key
        <3>1. PICK n \in DOMAIN ps : ps[n].key = t[i].key
            BY <2>1
        <3>2. PICK j \in WithStatus(t, "error") : {k \in DOMAIN t : t[k].key = ps[n].key} = {j}
            BY DEF Correctable
        <3>3. i = j
            BY <3>1, <3>2
        <3>4. t[i].status = "error" /\ t[i].text = None
            BY <3>2, <3>3 DEF WithStatus, AllSound, Sound
        <3> DEFINE m == CHOOSE k \in DOMAIN ps : ps[k].key = t[i].key
        <3>5. u[i] = [t[i] EXCEPT !.data = ps[m].data, !.kind = "corrected"]
            BY <2>1 DEF ApplyCorrections
        <3>6. "corrected" # None
            BY NoneAssumption DEF ErrorKinds
        <3> HIDE DEF m
        <3> QED BY <1>1, <3>4, <3>5, <3>6 DEF Sound, Row
    <2>2. CASE ~ \E n \in DOMAIN ps : ps[n].key = t[i].key
        BY <2>2 DEF ApplyCorrections, AllSound
    <2> QED BY <2>1, <2>2
<1> QED BY <1>1, <1>2 DEF AllSound
-----------------------------------------------------------------------------
(***************************************************************************)
(* The inductive invariant.  RowsConsistent alone is not inductive: that a *)
(* write of the thread leaves the row sound depends on what the thread has *)
(* kept of it (WorkIsCurrent), and that a replacement brings products and  *)
(* a retry runs no import on where a job's steps can be (JobKeepsToSteps), *)
(* which no process has that is down.                                      *)
(***************************************************************************)

JobKeepsToSteps ==
    /\ job.kind = "retry" => pc \in WorkerSteps \cup OptimizeSteps
    /\ pc = "replace" => products # <<>>
    /\ spc = "down" => pc = "dead"

IInv == TypeOK /\ RowsConsistent /\ WorkIsCurrent /\ JobKeepsToSteps

\* A row of a sound table that is pending or failed has no text.
LEMMA SoundRows == RowsConsistent <=> AllSound(rows)
BY DEF RowsConsistent, AllSound, Sound

\* What the thread writes to the row it holds.
LEMMA ItemWritten ==
    ASSUME IInv, pc \in Holding, NEW status \in Statuses, NEW text \in {None, data},
           NEW kind \in ErrorKinds \cup {None},
           SetRows(UpdateProductStatus(rows, item, status, text, kind)),
           status = "done" <=> text # None,
           status = "error" => kind # None
    PROVE  /\ AllSound(rows') /\ DOMAIN rows' = DOMAIN rows
           /\ \A j \in DOMAIN rows : j # item => rows'[j] = rows[j]
           /\ \A j \in DOMAIN rows : rows[j].status = "done" => rows'[j] = rows[j]
           /\ item \in DOMAIN rows' => rows'[item].data = data /\ rows'[item].text = text
<1>1. rows \in Table /\ item \in Nat /\ data \in Data \cup {None} /\ AllSound(rows)
    BY SoundRows DEF IInv, TypeOK, StoreTypeOK, OptimizingTypeOK
<1>2. item \in DOMAIN rows => rows[item].data = data /\ rows[item].text = None
    BY DEF IInv, WorkIsCurrent
<1>3. rows' = UpdateProductStatus(rows, item, status, text, kind)
    BY DEF SetRows
<1>4. text \in Data \cup {None}
    BY <1>1
<1>5. DOMAIN rows' = DOMAIN rows
    BY <1>3 DEF UpdateProductStatus
<1>6. /\ AllSound(rows')
      /\ \A j \in DOMAIN rows : j # item => rows'[j] = rows[j]
      /\ item \in DOMAIN rows => rows'[item].data = rows[item].data /\ rows'[item].text = text
    BY <1>1, <1>2, <1>3, <1>4, UpdateSound
<1>7. item \in DOMAIN rows => rows[item].status # "done"
    BY <1>1, <1>2 DEF AllSound, Sound
<1> QED BY <1>2, <1>5, <1>6, <1>7

\* What a step of an optimization does to the rows: it requeues failed ones or
\* writes to the row the thread holds.
LEMMA OptimizeEffect ==
    ASSUME IInv, OptimizeStep
    PROVE  /\ AllSound(rows') /\ DOMAIN rows' = DOMAIN rows
           /\ \A j \in DOMAIN rows : rows[j].status = "done" => rows'[j] = rows[j]
           /\ \A j \in DOMAIN rows :
                  \/ rows'[j] = rows[j]
                  \/ pc = "requeue" /\ j \in ErrorIds(rows, job.groups)
                  \/ pc \in Holding /\ j = item
<1>a. rows \in Table /\ AllSound(rows) /\ data \in Data \cup {None}
    BY SoundRows DEF IInv, TypeOK, StoreTypeOK, OptimizingTypeOK
<1>b. CASE UNCHANGED rows
    BY <1>a, <1>b
<1>c. ASSUME pc \in Holding, NEW status \in Statuses, NEW text \in {None, data},
             NEW kind \in ErrorKinds \cup {None},
             SetRows(UpdateProductStatus(rows, item, status, text, kind)),
             status = "done" <=> text # None, status = "error" => kind # None
      PROVE  /\ AllSound(rows') /\ DOMAIN rows' = DOMAIN rows
             /\ \A j \in DOMAIN rows : rows[j].status = "done" => rows'[j] = rows[j]
             /\ \A j \in DOMAIN rows : rows'[j] = rows[j] \/ (pc \in Holding /\ j = item)
    BY <1>c, ItemWritten
<1>d. \A kind \in ErrorKinds : kind # None
    BY NoneAssumption
<1>1. CASE Requeue
    <2>1. CASE SetRows(RequeueErrors(rows, job.groups))
        <3>1. rows' = RequeueErrors(rows, job.groups)
            BY <2>1 DEF SetRows
        <3>2. \A j \in DOMAIN rows : rows[j].status = "done" => j \notin ErrorIds(rows, job.groups)
            BY DEF ErrorIds, WithStatus
        <3> QED BY <1>1, <1>a, <3>1, <3>2, RequeueErrorsType, RequeueErrorsSound DEF Requeue
    <2>2. CASE Raises
        BY <2>2, <1>b DEF Raises
    <2> QED BY <1>1, <2>1, <2>2 DEF Requeue
<1>2. CASE OptStage \/ OptProgress \/ OptIdle
    BY <1>2, <1>b DEF OptStage, OptProgress, OptIdle, SetStage, Reads, Raises, store
<1>3. CASE NextProduct \/ NextInTry \/ CheckStop \/ Hold \/ RecheckStop \/ Pace \/ Call \/ OptResult
    BY <1>3, <1>b DEF NextProduct, NextInTry, CheckStop, Hold, RecheckStop, Pace, Call, OptResult,
                      Reads, Raises, store
<1>4. CASE Claim
    <2>1. pc \in Holding
        BY <1>4 DEF Claim, Holding
    <2>2. CASE SetRows(UpdateProductStatus(rows, item, "processing", None, None))
        BY <2>1, <2>2, <1>c DEF Statuses
    <2> QED BY <1>4, <1>b, <2>2 DEF Claim, Raises
<1>5. CASE MissingData
    <2>1. pc \in Holding
        BY <1>5 DEF MissingData, Holding, Claimed
    <2>2. CASE SetRows(UpdateProductStatus(rows, item, "error", None, "missing_data"))
        BY <2>1, <2>2, <1>c, <1>d DEF Statuses, ErrorKinds
    <2> QED BY <1>5, <1>b, <2>2 DEF MissingData, Failed, Raises
<1>6. CASE Unclaim
    <2>1. pc \in Holding
        BY <1>6 DEF Unclaim, Holding, Claimed
    <2>2. CASE SetRows(UpdateProductStatus(rows, item, "pending", None, None))
        BY <2>1, <2>2, <1>c DEF Statuses
    <2> QED BY <1>6, <1>b, <2>2 DEF Unclaim, Raises
<1>7. CASE Save
    <2>1. pc \in Holding /\ data # None
        BY <1>7 DEF Save, Holding, Claimed, IInv, WorkIsCurrent
    <2>2. CASE SetRows(UpdateProductStatus(rows, item, "done", data, None))
        BY <2>1, <2>2, <1>c DEF Statuses
    <2> QED BY <1>7, <1>b, <2>2 DEF Save, Raises
<1>8. CASE SaveError
    <2>1. pc \in Holding
        BY <1>8 DEF SaveError, Holding, Claimed
    <2>2. failure # None /\ failure \in ErrorKinds
        BY <1>8, <2>1 DEF SaveError, IInv, WorkIsCurrent, TypeOK, OptimizingTypeOK, ErrorKinds
    <2>3. CASE SetRows(UpdateProductStatus(rows, item, "error", None, failure))
        BY <2>1, <2>2, <2>3, <1>c DEF Statuses
    <2> QED BY <1>8, <1>b, <2>3 DEF SaveError, Failed, Raises
<1> QED BY <1>1, <1>2, <1>3, <1>4, <1>5, <1>6, <1>7, <1>8 DEF OptimizeStep

\* An optimization keeps to its steps and to its job.
LEMMA OptimizeNames ==
    ASSUME IInv, OptimizeStep
    PROVE  job' = job /\ pc \in OptimizeSteps /\ pc' \in WorkerSteps \cup OptimizeSteps
<1>1. CASE NextProduct \/ NextInTry
    <2>1. pc \in OptimizeSteps
        BY <1>1 DEF NextProduct, NextInTry, OptimizeSteps
    <2> QED BY <1>1, <2>1 DEF NextProduct, NextInTry, NextPending, NextSelected, Picked, Caught, Go,
                              workerMem, OptimizeSteps, WorkerSteps
<1>2. CASE Requeue \/ OptStage \/ OptProgress \/ CheckStop \/ Hold \/ RecheckStop \/ Pace \/ OptIdle
    BY <1>2 DEF Requeue, OptStage, OptProgress, CheckStop, Hold, RecheckStop, Pace, OptIdle, Go,
                workerMem, OptimizeSteps, WorkerSteps
<1>3. CASE Claim \/ MissingData \/ Unclaim \/ Call \/ Save \/ SaveError \/ OptResult
    BY <1>3 DEF Claim, AfterClaim, MissingData, Unclaim, Call, Save, SaveError, OptResult, Caught,
                Go, Finish, workerMem, OptimizeSteps, WorkerSteps
<1> QED BY <1>1, <1>2, <1>3 DEF OptimizeStep

\* The thread goes on with the product it holds.
LEMMA HoldsOn ==
    ASSUME IInv, pc \in Holding, UNCHANGED <<item, data, ids, job>>,
           item \in DOMAIN rows' => rows'[item].data = data /\ rows'[item].text = None,
           pc' \in {"pace", "call", "save"} => data # None,
           pc' = "save_error" => failure' # None
    PROVE  WorkIsCurrent'
BY DEF IInv, WorkIsCurrent

\* The thread takes up another product, or none.
LEMMA PicksCurrent ==
    ASSUME IInv, UNCHANGED <<rows, ids, job>>, pc \in {"opt_next", "next_in_try"},
           UNCHANGED failure, NextPending \/ NextSelected
    PROVE  WorkIsCurrent'
<1>1. ASSUME NEW i \in DOMAIN rows, rows[i].status = "pending", Picked(i),
             job.kind = "retry" => i \in ids
      PROVE  WorkIsCurrent'
    <2>1. rows[i].text = None
        BY <1>1 DEF IInv, RowsConsistent
    <2>2. item' = i /\ data' = rows[i].data /\ pc' = "check"
        BY <1>1 DEF Picked, Go
    <2> QED BY <1>1, <2>1, <2>2 DEF WorkIsCurrent
<1>2. CASE Go("opt_idle")
    BY <1>2 DEF Go, WorkIsCurrent, Holding, Claimed
<1>3. CASE Go(pc) /\ UNCHANGED <<item, data>>
    BY <1>3 DEF Go, IInv, WorkIsCurrent, Holding, Claimed
<1>4. CASE NextPending
    <2>1. job.kind # "retry"
        BY <1>4 DEF NextPending
    <2> QED BY <1>1, <1>2, <1>4, <2>1 DEF NextPending, IsNextPending
<1>5. CASE NextSelected
    <2>1. left \subseteq ids
        BY DEF IInv, TypeOK, OptimizingTypeOK
    <2> QED BY <1>1, <1>2, <1>3, <1>5, <2>1 DEF NextSelected, WithStatus
<1> QED BY <1>4, <1>5

\* What an optimization is about to write stays current.
LEMMA OptimizeCurrent ==
    ASSUME IInv, OptimizeStep
    PROVE  WorkIsCurrent'
<1>a. job' = job
    BY OptimizeNames
<1>b. ASSUME pc' \notin Holding PROVE WorkIsCurrent'
    BY <1>b DEF WorkIsCurrent, Holding, Claimed
<1>c. ASSUME pc \in Holding, NEW status \in Statuses, NEW kind \in ErrorKinds \cup {None},
             SetRows(UpdateProductStatus(rows, item, status, None, kind)),
             status # "done", status = "error" => kind # None
      PROVE  item \in DOMAIN rows' => rows'[item].data = data /\ rows'[item].text = None
    BY <1>c, ItemWritten
<1>d. ASSUME pc \in Holding, UNCHANGED rows
      PROVE  item \in DOMAIN rows' => rows'[item].data = data /\ rows'[item].text = None
    BY <1>d DEF IInv, WorkIsCurrent
<1>e. "other" # None /\ "missing_data" # None /\ \A kind \in Failures : kind # None
    BY NoneAssumption, FailuresAssumption DEF ErrorKinds, ClassifiedKinds
<1>1. CASE Requeue \/ OptStage \/ OptProgress \/ OptIdle \/ OptResult \/ SaveError
    <2>1. pc' \notin Holding
        BY <1>1 DEF Requeue, OptStage, OptProgress, OptIdle, OptResult, SaveError, Go, Finish,
                    Holding, Claimed
    <2> QED BY <2>1, <1>b
<1>2. CASE NextProduct
    <2>1. CASE Reads /\ (NextPending \/ NextSelected)
        BY <1>a, <1>2, <2>1, PicksCurrent DEF NextProduct, Reads, store
    <2>2. CASE Go("abort")
        BY <2>2, <1>b DEF Go, Holding, Claimed
    <2> QED BY <1>2, <2>1, <2>2 DEF NextProduct
<1>3. CASE NextInTry
    <2>1. CASE Reads /\ (NextPending \/ NextSelected) /\ UNCHANGED failure
        BY <1>a, <1>3, <2>1, PicksCurrent DEF NextInTry, Reads, store
    <2>2. CASE Raises /\ Caught("other") /\ UNCHANGED <<left, item, data>>
        <3>1. pc \in Holding /\ UNCHANGED <<rows, ids>>
            BY <1>3, <2>2 DEF NextInTry, Holding, Raises
        <3>2. pc' = "save_error" /\ failure' = "other"
            BY <2>2 DEF Caught, Go
        <3> QED BY <1>a, <1>d, <1>e, <2>2, <3>1, <3>2, HoldsOn
    <2> QED BY <1>3, <2>1, <2>2 DEF NextInTry
<1>4. CASE CheckStop \/ Hold \/ RecheckStop \/ Pace
    <2>1. pc \in Holding /\ UNCHANGED <<rows, item, data, ids>>
        BY <1>4 DEF CheckStop, Hold, RecheckStop, Pace, Holding, Claimed, store, optVars
    <2>2. pc' # "save_error" /\ (pc' \in {"pace", "call", "save"} => pc = "pace")
        BY <1>4 DEF CheckStop, Hold, RecheckStop, Pace, Go
    <2>3. pc = "pace" => data # None
        BY <2>1 DEF IInv, WorkIsCurrent
    <2> QED BY <1>a, <1>d, <2>1, <2>2, <2>3, HoldsOn
<1>5. CASE Claim
    <2>1. pc \in Holding /\ UNCHANGED <<item, data, ids>>
        BY <1>5 DEF Claim, Holding, optFrame
    <2>2. CASE SetRows(UpdateProductStatus(rows, item, "processing", None, None))
               /\ Go(AfterClaim)
        <3>1. item \in DOMAIN rows' => rows'[item].data = data /\ rows'[item].text = None
            BY <2>1, <2>2, <1>c DEF Statuses
        <3>2. pc' = AfterClaim
            BY <2>2 DEF Go
        <3>3. pc' \in {"missing", "pace", "call"} /\ (pc' # "missing" => data # None)
            BY <3>2 DEF AfterClaim
        <3> QED BY <1>a, <2>1, <3>1, <3>3, HoldsOn
    <2>3. CASE Go("abort")
        BY <2>3, <1>b DEF Go, Holding, Claimed
    <2> QED BY <1>5, <2>2, <2>3 DEF Claim
<1>6. CASE MissingData
    <2>1. pc \in Holding /\ UNCHANGED <<item, data, ids>>
        BY <1>6 DEF MissingData, Holding, Claimed
    <2>2. CASE Failed("missing_data") /\ Go("next_in_try")
        <3>1. item \in DOMAIN rows' => rows'[item].data = data /\ rows'[item].text = None
            BY <2>1, <2>2, <1>c, <1>e DEF Statuses, ErrorKinds, Failed
        <3>2. pc' = "next_in_try"
            BY <2>2 DEF Go
        <3> QED BY <1>a, <2>1, <3>1, <3>2, HoldsOn
    <2>3. CASE Raises /\ Caught("other")
        <3>1. UNCHANGED rows /\ pc' = "save_error" /\ failure' = "other"
            BY <2>3 DEF Raises, Caught, Go
        <3> QED BY <1>a, <1>d, <1>e, <2>1, <3>1, HoldsOn
    <2> QED BY <1>6, <2>2, <2>3 DEF MissingData
<1>7. CASE Unclaim \/ Save
    <2>1. pc \in Holding /\ UNCHANGED <<item, data, ids>>
        BY <1>7 DEF Unclaim, Save, Holding, Claimed
    <2>2. CASE pc' \in {"opt_idle", "opt_next"}
        BY <2>2, <1>b DEF Holding, Claimed
    <2>3. CASE Raises /\ Caught("other")
        <3>1. UNCHANGED rows /\ pc' = "save_error" /\ failure' = "other"
            BY <2>3 DEF Raises, Caught, Go
        <3> QED BY <1>a, <1>d, <1>e, <2>1, <3>1, HoldsOn
    <2> QED BY <1>7, <2>2, <2>3 DEF Unclaim, Save, Go
<1>8. CASE Call
    <2>1. pc \in Holding /\ pc = "call" /\ UNCHANGED <<rows, item, data, ids>>
        BY <1>8 DEF Call, Holding, Claimed, store
    <2>2. data # None
        BY <2>1 DEF IInv, WorkIsCurrent
    <2>3. pc' = "save" \/ (pc' = "save_error" /\ failure' # None)
        BY <1>8, <1>e DEF Call, Caught, Go
    <2> QED BY <1>a, <1>d, <2>1, <2>2, <2>3, HoldsOn
<1> QED BY <1>1, <1>2, <1>3, <1>4, <1>5, <1>6, <1>7, <1>8 DEF OptimizeStep

\* What a step of an import does to the rows, and that it keeps to its steps.
LEMMA ImportEffect ==
    ASSUME IInv, ImportStep
    PROVE  /\ AllSound(rows')
           /\ pc # "replace" =>
                  \A j \in DOMAIN rows :
                      j \in DOMAIN rows' /\ (rows[j].status = "done" => rows'[j] = rows[j])
           /\ pc # "replace" => Len(rows') >= Len(rows)
           /\ pc = "replace" => rows' = rows \/ rows' # <<>>
           /\ job' = job /\ pc \in ImportSteps /\ pc' \notin Holding /\ pc' # "dead"
           /\ pc' = "replace" => products # <<>>
<1>a. rows \in Table /\ AllSound(rows) /\ WorkerTypeOK /\ ImportingTypeOK
      /\ Len(rows) \in Nat
    BY SoundRows, TableRows DEF IInv, TypeOK, StoreTypeOK
<1>b. products \in Seq(Product) /\ Len(products) \in Nat
    BY <1>a, JobFile
<1> USE DEF ImportSteps, Holding, Claimed, Go, workerMem
<1>1. CASE ImpOpen \/ ImpHeaders \/ ImpMappings \/ ImpStage \/ ImpIdle \/ CorRead
    <2>1. UNCHANGED rows
        BY <1>1 DEF ImpOpen, ImpHeaders, ImpMappings, ImpStage, ImpIdle, CorRead, Unusable,
                    SetHeaders, SetMappings, SetStage, Raises, Reads, store
    <2>2. job' = job /\ pc \in ImportSteps /\ pc' \notin Holding /\ pc' # "replace" /\ pc' # "dead"
          /\ pc # "replace"
        BY <1>1 DEF ImpOpen, ImpHeaders, ImpMappings, ImpStage, ImpIdle, CorRead, Unusable
    <2> QED BY <1>a, <2>1, <2>2
<1>2. CASE ImpResult \/ Staging
    <2>1. UNCHANGED rows
        BY <1>2 DEF ImpResult, Staging, Unusable, store
    <2>2. job' = job /\ pc \in ImportSteps /\ pc' \notin Holding /\ pc # "replace" /\ pc' # "dead"
        BY <1>2 DEF ImpResult, Staging, Unusable, Finish
    <2>3. pc' = "replace" => products # <<>>
        BY <1>2 DEF ImpResult, Staging, Unusable, Finish
    <2> QED BY <1>a, <2>1, <2>2, <2>3
<1>3. CASE ImpRows
    <2>1. job' = job /\ pc = "imp_rows" /\ pc' \in {"imp_rows", "abort", "imp_idle"}
        BY <1>3 DEF ImpRows, Unusable
    <2>2. CASE UNCHANGED rows
        BY <1>a, <2>1, <2>2
    <2>3. CASE loaded < Len(products) /\ SetRows(InsertProducts(rows, NextBatch))
        <3>1. NextBatch \in Seq(Product) /\ Len(NextBatch) \in Nat
            BY <1>a, <2>3, BatchType
        <3>2. rows' = InsertProducts(rows, NextBatch)
            BY <2>3 DEF SetRows
        <3>3. Len(rows') = Len(rows) + Len(NextBatch)
            BY <1>a, <3>1, <3>2, InsertType
        <3>4. AllSound(rows') /\ \A j \in DOMAIN rows : j \in DOMAIN rows' /\ rows'[j] = rows[j]
            BY <1>a, <3>1, <3>2, InsertSound
        <3> QED BY <1>a, <2>1, <3>1, <3>3, <3>4
    <2> QED BY <1>3, <2>2, <2>3 DEF ImpRows, Unusable, Raises, store
<1>4. CASE Replace
    <2>1. job' = job /\ pc = "replace" /\ pc' \in {"imp_result", "abort"}
        BY <1>4 DEF Replace
    <2>2. CASE UNCHANGED rows
        BY <1>a, <2>1, <2>2
    <2>3. CASE rows' = InsertProducts(<<>>, products)
        <3>1. <<>> \in Table /\ AllSound(<<>>) /\ Len(<<>>) = 0
            BY DEF Table, AllSound
        <3>2. AllSound(rows')
            BY <1>b, <2>3, <3>1, InsertSound
        <3>3. Len(rows') = Len(products)
            BY <1>b, <2>3, <3>1, InsertType
        <3>4. products # <<>>
            BY <2>1 DEF IInv, JobKeepsToSteps
        <3>5. Len(products) # 0
            BY <1>b, <3>4
        <3> QED BY <2>1, <3>1, <3>2, <3>3, <3>5
    <2> QED BY <1>4, <2>2, <2>3 DEF Replace, ReplaceFrom, Raises, products
<1>5. CASE CorApply
    <2>1. job' = job /\ pc = "cor_apply" /\ pc' \in {"finally", "abort"}
        BY <1>5 DEF CorApply, Finish
    <2>2. CASE UNCHANGED rows
        BY <1>a, <2>1, <2>2
    <2>3. CASE Correctable(rows, products) /\ SetRows(ApplyCorrections(rows, products))
        <3>1. rows' = ApplyCorrections(rows, products)
            BY <2>3 DEF SetRows
        <3>2. Len(rows') = Len(rows) /\ DOMAIN rows' = DOMAIN rows
            BY <1>a, <1>b, <3>1, ApplyCorrectionsType
        <3>3. /\ AllSound(rows')
              /\ \A i \in DOMAIN rows : rows[i].status # "error" => rows'[i] = rows[i]
            BY <1>a, <1>b, <2>3, <3>1, ApplyCorrectionsSound
        <3> QED BY <1>a, <2>1, <3>2, <3>3
    <2> QED BY <1>5, <2>2, <2>3 DEF CorApply, Raises, Reads, store
<1> QED BY <1>1, <1>2, <1>3, <1>4, <1>5 DEF ImportStep

\* An export and the end of a thread leave the rows alone.
LEMMA OtherWorkEffect ==
    ASSUME IInv, ExportStep \/ Abort \/ AbortStage \/ Finally \/ ThreadEnds
    PROVE  /\ UNCHANGED <<rows, job>> /\ pc \in ExportSteps \cup WorkerSteps /\ pc # "dead"
           /\ pc' \notin Holding /\ pc' # "replace"
           /\ pc \in WorkerSteps => pc' \in WorkerSteps
<1> USE DEF ExportSteps, WorkerSteps, Holding, Claimed, Go, workerMem, SetStage, Raises, Reads,
            store
<1>1. CASE ExpOpen \/ ExpStage \/ ExpWrite \/ ExpPage
    BY <1>1 DEF ExpOpen, ExpStage, ExpWrite, ExpPage
<1>2. CASE ExpPublish \/ ExpIdle \/ ExpDone \/ ExpResult
    BY <1>2 DEF ExpPublish, ExpIdle, ExpDone, ExpResult, Finish
<1>3. CASE Abort \/ AbortStage \/ Finally \/ ThreadEnds
    BY <1>3 DEF Abort, AbortStage, Finally, ThreadEnds
<1> QED BY <1>1, <1>2, <1>3 DEF ExportStep
-----------------------------------------------------------------------------
\* A step of the thread keeps the invariant.
LEMMA WorkerStepSafe ==
    ASSUME IInv, WorkerStep
    PROVE  /\ RowsConsistent' /\ WorkIsCurrent' /\ JobKeepsToSteps'
           /\ pc # "dead" /\ UNCHANGED spc
<1>a. ASSUME pc' \notin Holding PROVE WorkIsCurrent'
    BY <1>a DEF WorkIsCurrent
<1>b. ASSUME AllSound(rows') PROVE RowsConsistent'
    BY <1>b DEF RowsConsistent, AllSound, Sound
<1>c. UNCHANGED spc
    BY DEF WorkerStep, server
<1>d. ASSUME pc # "dead" PROVE spc' # "down"
    BY <1>c, <1>d DEF IInv, JobKeepsToSteps
<1>e. ASSUME job' = job, pc' \in WorkerSteps \cup OptimizeSteps, pc # "dead"
      PROVE  JobKeepsToSteps'
    BY <1>d, <1>e DEF JobKeepsToSteps, WorkerSteps, OptimizeSteps
<1>1. CASE OptimizeStep
    <2>1. pc # "dead"
        BY <1>1, OptimizeNames DEF OptimizeSteps
    <2> QED BY <1>1, <1>b, <1>c, <1>e, <2>1, OptimizeEffect, OptimizeCurrent, OptimizeNames
<1>2. CASE ImportStep
    <2>1. pc \in ImportSteps /\ pc # "dead" /\ job' = job
        BY <1>2, ImportEffect DEF ImportSteps
    <2>2. job.kind # "retry"
        BY <2>1 DEF IInv, JobKeepsToSteps, ImportSteps, OptimizeSteps, WorkerSteps
    <2>3. pc' = "replace" => products' # <<>>
        BY <1>2, <2>1, ImportEffect DEF products
    <2>4. JobKeepsToSteps'
        BY <1>d, <2>1, <2>2, <2>3 DEF JobKeepsToSteps
    <2> QED BY <1>2, <1>a, <1>b, <1>c, <2>1, <2>4, ImportEffect
<1>3. CASE ExportStep \/ Abort \/ AbortStage \/ Finally \/ ThreadEnds
    <2>1. AllSound(rows')
        BY <1>3, OtherWorkEffect, SoundRows DEF IInv
    <2>2. job.kind = "retry" => pc \in WorkerSteps \cup OptimizeSteps
        BY DEF IInv, JobKeepsToSteps
    <2>3. job.kind = "retry" => pc' \in WorkerSteps
        BY <1>3, <2>2, OtherWorkEffect DEF ExportSteps, OptimizeSteps, WorkerSteps
    <2>4. JobKeepsToSteps'
        BY <1>3, <1>d, <2>3, OtherWorkEffect DEF JobKeepsToSteps
    <2> QED BY <1>3, <1>a, <1>b, <1>c, <2>1, <2>4, OtherWorkEffect
<1> QED BY <1>1, <1>2, <1>3 DEF WorkerStep

\* Where a step leaves the rows, the job and the thread alone, what was current
\* and consistent stays so.
LEMMA NothingMoves ==
    ASSUME IInv, UNCHANGED <<rows, job, pc, ids, item, data, failure>>, spc' # "down"
    PROVE  RowsConsistent' /\ WorkIsCurrent' /\ JobKeepsToSteps'
BY DEF IInv, RowsConsistent, WorkIsCurrent, JobKeepsToSteps, products

\* A new job holds no product yet.
LEMMA StartSafe ==
    ASSUME IInv, NEW j \in Jobs, j.kind # "none", StartThread(j), UNCHANGED <<rows, spc>>,
           spc = "serve"
    PROVE  RowsConsistent' /\ WorkIsCurrent' /\ JobKeepsToSteps'
<1>1. job' = j /\ pc' = FirstStep(j.kind) /\ j.kind \in JobKinds
    BY DEF StartThread, Jobs
<1>2. /\ pc' \notin Holding /\ pc' # "replace"
      /\ j.kind = "retry" => pc' \in OptimizeSteps
    BY <1>1 DEF FirstStep, JobKinds, Holding, Claimed, OptimizeSteps
<1> QED BY <1>1, <1>2 DEF IInv, RowsConsistent, WorkIsCurrent, JobKeepsToSteps

\* A request keeps the invariant, and the rows as they are.
LEMMA RequestSafe ==
    ASSUME IInv, Request
    PROVE  RowsConsistent' /\ WorkIsCurrent' /\ JobKeepsToSteps' /\ UNCHANGED rows
<1> USE DEF store, workerMem, jobFrames, optVars, optFrame, server, Serving
<1>1. CASE HandleOptimize \/ HandleRetry
    <2>1. ASSUME NEW j \in Jobs, j.kind # "none", Optimize(j), spc = "serve"
          PROVE  RowsConsistent' /\ WorkIsCurrent' /\ JobKeepsToSteps' /\ UNCHANGED rows
        BY <2>1, StartSafe, NothingMoves DEF Optimize, OptimizerUnavailable
    <2> QED BY <1>1, <2>1, JobTypes DEF HandleOptimize, HandleRetry
<1>2. CASE HandleImport
    <2>1. PICK k \in {"append", "replace", "corrections"}, f \in Files :
              StartThread(ImportJob(k, f)) /\ spc = "serve"
        BY <1>2 DEF HandleImport
    <2> QED BY <1>2, <2>1, JobTypes, StartSafe DEF HandleImport
<1>3. CASE HandleExport
    <2>1. PICK s \in Scopes : StartThread(ExportJob(s)) /\ spc = "serve"
        BY <1>3 DEF HandleExport
    <2> QED BY <1>3, <2>1, JobTypes, StartSafe DEF HandleExport
<1>4. CASE HandlePause \/ HandleResume \/ HandleReset \/ HandleStop \/ HandleStatus
    BY <1>4, NothingMoves DEF HandlePause, HandleResume, HandleReset, HandleStop, HandleStatus,
                              Observe
<1> QED BY <1>1, <1>2, <1>3, <1>4 DEF Request

\* A step of the server's thread keeps the invariant; only a reset's changes
\* the rows.
LEMMA ServerStepSafe ==
    ASSUME IInv, ServerStep
    PROVE  /\ RowsConsistent' /\ WorkIsCurrent' /\ JobKeepsToSteps'
           /\ spc # "db_reset" => UNCHANGED rows
<1> USE DEF store, tables, workerMem, jobFrames, optVars, optFrame
<1>1. CASE StopSet \/ StopUnpause \/ StopJoin \/ StopTimeout \/ Close \/ ReadStatus \/ StatusSent
    BY <1>1, NothingMoves DEF StopSet, StopUnpause, StopJoin, StopTimeout, AfterJoin, Close,
                              ReadStatus, Observe, StatusSent
<1>2. CASE ResetWorker
    BY <1>2, NothingMoves DEF ResetWorker, WorkerReset
<1>3. CASE ResetDb
    <2>1. spc = "db_reset" /\ spc' = "serve" /\ UNCHANGED <<job, pc, ids, item, data, failure>>
        BY <1>3 DEF ResetDb
    <2>2. CASE UNCHANGED rows
        BY <2>1, <2>2, NothingMoves
    <2>3. CASE rows' = FlagPending(rows) \/ rows' = <<>>
        <3>1. rows \in Table
            BY DEF IInv, TypeOK, StoreTypeOK
        <3>2. RowsConsistent'
            BY <2>3, <3>1, FlagPendingSound DEF RowsConsistent, AllSound, Sound
        <3>3. \A i \in DOMAIN rows' : i \in DOMAIN rows /\ rows'[i].data = rows[i].data
                                      /\ rows'[i].text = None
            BY <2>3, <3>1, FlagPendingType, FlagPendingSound
        <3>4. WorkIsCurrent'
            BY <2>1, <3>3 DEF IInv, WorkIsCurrent
        <3>5. JobKeepsToSteps'
            BY <2>1 DEF IInv, JobKeepsToSteps, products
        <3> QED BY <2>1, <3>2, <3>4, <3>5
    <2> QED BY <1>3, <2>2, <2>3 DEF ResetDb, Reset, Emptied, Raises, FlagsOnly
<1>4. CASE Exit
    <2>1. UNCHANGED rows /\ pc' = "dead" /\ job' = NoJob
        BY <1>4 DEF Exit, ProcessGone
    <2> QED BY <2>1 DEF IInv, RowsConsistent, WorkIsCurrent, JobKeepsToSteps, Holding, Claimed,
                        NoJob
<1> QED BY <1>1, <1>2, <1>3, <1>4 DEF ServerStep

\* A kill keeps the invariant, in the middle of a reset, too.
LEMMA CrashSafe ==
    ASSUME IInv, Crash
    PROVE  /\ RowsConsistent' /\ WorkIsCurrent' /\ JobKeepsToSteps'
           /\ spc # "db_reset" => UNCHANGED rows
<1>1. pc' = "dead" /\ job' = NoJob
    BY DEF Crash, ProcessGone
<1>2. WorkIsCurrent' /\ JobKeepsToSteps'
    BY <1>1 DEF WorkIsCurrent, JobKeepsToSteps, Holding, Claimed, NoJob
<1>3. spc # "db_reset" => UNCHANGED rows
    BY DEF Crash, tables
<1>4. rows' = rows \/ rows' = FlagPending(rows) \/ rows' = <<>>
    BY DEF Crash, HalfReset, tables
<1>5. rows \in Table
    BY DEF IInv, TypeOK, StoreTypeOK
<1>6. RowsConsistent'
    BY <1>4, <1>5, FlagPendingSound DEF IInv, RowsConsistent, AllSound, Sound
<1> QED BY <1>2, <1>3, <1>6

\* A start keeps the invariant, and every row that is not in processing.
LEMMA StartOfProcessSafe ==
    ASSUME IInv, Start
    PROVE  /\ RowsConsistent' /\ WorkIsCurrent' /\ JobKeepsToSteps'
           /\ DOMAIN rows' = DOMAIN rows /\ Len(rows') = Len(rows)
           /\ \A i \in DOMAIN rows : rows[i].status = "done" => rows'[i] = rows[i]
<1>1. rows \in Table /\ AllSound(rows) /\ rows' = RequeueProcessing(rows)
    BY SoundRows DEF IInv, TypeOK, StoreTypeOK, Start, Open
<1>2. pc = "dead" /\ pc' = pc /\ job' = job
    BY DEF Start, IInv, JobKeepsToSteps, workerMem
<1>3. RowsConsistent'
    BY <1>1, RequeueProcessingSound DEF RowsConsistent, AllSound, Sound
<1>4. WorkIsCurrent' /\ JobKeepsToSteps'
    BY <1>2 DEF WorkIsCurrent, JobKeepsToSteps, Holding, Claimed, WorkerSteps
<1> QED BY <1>1, <1>3, <1>4, RequeueProcessingType, RequeueProcessingSound
-----------------------------------------------------------------------------
\* A new data directory, and one with an imported batch, are consistent.
LEMMA InitSafe == Init => IInv
<1> SUFFICES ASSUME Init PROVE IInv
    OBVIOUS
<1>1. AllSound(rows)
    <2>1. <<>> \in Table /\ AllSound(<<>>)
        BY DEF Table, AllSound
    <2>2. ASSUME NEW f \in Files, rows = InsertProducts(<<>>, f.products) PROVE AllSound(rows)
        BY <2>1, <2>2, FileType, InsertSound
    <2> QED BY <2>1, <2>2 DEF Init, StoreInit
<1>2. pc = "dead" /\ job = NoJob
    BY DEF Init, WorkerInit
<1> QED BY <1>1, <1>2, InitTypes, SoundRows
        DEF IInv, WorkIsCurrent, JobKeepsToSteps, Holding, Claimed, NoJob

LEMMA NextSafe == IInv /\ [Next]_vars => IInv'
<1> SUFFICES ASSUME IInv, [Next]_vars PROVE IInv'
    OBVIOUS
<1>1. TypeOK'
    BY NextTypes DEF IInv
<1>2. CASE Next
    <2>1. RowsConsistent' /\ WorkIsCurrent' /\ JobKeepsToSteps'
        BY <1>2, WorkerStepSafe, ServerStepSafe, RequestSafe, CrashSafe, StartOfProcessSafe
           DEF Next
    <2> QED BY <1>1, <2>1 DEF IInv
<1>3. CASE UNCHANGED vars
    <2>1. RowsConsistent' /\ WorkIsCurrent' /\ JobKeepsToSteps'
        BY <1>3 DEF vars, store, workerMem, optVars, server, IInv, RowsConsistent, WorkIsCurrent,
                    JobKeepsToSteps, products
    <2> QED BY <1>1, <2>1 DEF IInv
<1> QED BY <1>2, <1>3

\* In every reachable state a row has a text exactly when it is done, the text
\* was written for the data the row has, and it has an error group exactly when
\* it failed (db.py:140-169, optimizer.py:114-180).
THEOREM Consistency == Spec => []RowsConsistent
<1>1. IInv => RowsConsistent
    BY DEF IInv
<1> QED BY <1>1, InitSafe, NextSafe, PTL DEF Spec

\* In every reachable state the thread works on what its row still is, although
\* pauses, resets and slow calls come between its reading and its writing
\* (optimizer.py:114-180).
THEOREM Currency == Spec => []WorkIsCurrent
<1>1. IInv => WorkIsCurrent
    BY DEF IInv
<1> QED BY <1>1, InitSafe, NextSafe, PTL DEF Spec

\* Sequences over the same indices have the same length.
LEMMA SameLength ==
    ASSUME NEW m \in Nat, NEW n \in Nat, 1..m = 1..n
    PROVE  m = n
<1>1. CASE m < n
    <2>1. n \in 1..n /\ n \notin 1..m
        BY <1>1
    <2> QED BY <2>1
<1>2. CASE n < m
    <2>1. m \in 1..m /\ m \notin 1..n
        BY <1>2
    <2> QED BY <2>1
<1> QED BY <1>1, <1>2

\* What a step of the thread does to done rows, to the batch and to a retry's
\* selection.
LEMMA WorkerStepKeeps ==
    ASSUME IInv, WorkerStep
    PROVE  KeepsDone /\ KeepsBatch /\ KeepsToSelection
<1>a. Len(rows) \in Nat /\ Len(rows') \in Nat
      /\ DOMAIN rows = 1..Len(rows) /\ DOMAIN rows' = 1..Len(rows')
    <2>1. rows \in Table /\ rows' \in Table
        BY NextTypes DEF IInv, TypeOK, StoreTypeOK, Next
    <2> QED BY <2>1, TableRows
<1>1. CASE OptimizeStep
    <2>1. DOMAIN rows' = DOMAIN rows /\ Len(rows') = Len(rows)
        BY <1>1, <1>a, OptimizeEffect, SameLength
    <2>2. KeepsDone /\ KeepsBatch
        BY <1>1, <1>a, <2>1, OptimizeEffect DEF KeepsDone, KeepsBatch, WithStatus
    <2>3. KeepsToSelection
        <3>1. \A j \in ErrorIds(rows, job.groups) : rows[j].kind \in job.groups
            BY DEF ErrorIds
        <3>2. pc \in Holding /\ job.kind = "retry" => item \in ids /\ pc # "requeue"
            BY DEF IInv, WorkIsCurrent, Holding, Claimed
        <3> QED BY <1>1, <3>1, <3>2, OptimizeEffect DEF KeepsToSelection
    <2> QED BY <2>2, <2>3
<1>2. CASE ImportStep
    <2>1. job.kind # "retry"
        BY <1>2, ImportEffect DEF IInv, JobKeepsToSteps, ImportSteps, OptimizeSteps, WorkerSteps
    <2>2. pc = "replace" => rows' = rows \/ rows' # <<>>
        BY <1>2, ImportEffect
    <2>3. pc # "replace" => ~(Len(rows') < Len(rows))
        BY <1>2, <1>a, ImportEffect
    <2> QED BY <1>2, <1>a, <2>1, <2>2, <2>3, ImportEffect
            DEF KeepsDone, KeepsBatch, KeepsToSelection, WithStatus
<1>3. CASE ExportStep \/ Abort \/ AbortStage \/ Finally \/ ThreadEnds
    <2>1. rows' = rows
        BY <1>3, OtherWorkEffect
    <2> QED BY <1>a, <2>1 DEF KeepsDone, KeepsBatch, KeepsToSelection, WithStatus
<1> QED BY <1>1, <1>2, <1>3 DEF WorkerStep

\* No step of the daemon does more than it may.
LEMMA NextKeeps == IInv /\ [Next]_vars => KeepsDone /\ KeepsBatch /\ KeepsToSelection
<1> SUFFICES ASSUME IInv, [Next]_vars PROVE KeepsDone /\ KeepsBatch /\ KeepsToSelection
    OBVIOUS
<1>1. Len(rows) \in Nat
    BY TableRows DEF IInv, TypeOK, StoreTypeOK
<1>2. CASE UNCHANGED rows
    BY <1>1, <1>2 DEF KeepsDone, KeepsBatch, KeepsToSelection, WithStatus
<1>4. CASE WorkerStep
    BY <1>4, WorkerStepKeeps
<1>5. CASE Request
    BY <1>2, <1>5, RequestSafe
<1>6. CASE ServerStep \/ Crash
    BY <1>1, <1>2, <1>6, ServerStepSafe, CrashSafe DEF KeepsDone, KeepsBatch, KeepsToSelection
<1>7. CASE Start
    <2>1. pc = "dead"
        BY <1>7 DEF Start, IInv, JobKeepsToSteps
    <2> QED BY <1>1, <1>7, <2>1, StartOfProcessSafe
            DEF KeepsDone, KeepsBatch, KeepsToSelection, WithStatus
<1>8. CASE UNCHANGED vars
    BY <1>2, <1>8 DEF vars, store
<1> QED BY <1>4, <1>5, <1>6, <1>7, <1>8 DEF Next

\* Nothing but a reset or a replacement ever changes a done row, in any
\* behaviour (db.py:133-169, 279-337, 406-422).
THEOREM DoneRowsStay == Spec => DoneIsKept
<1>1. IInv /\ [Next]_vars => [KeepsDone]_vars
    BY NextKeeps
<1> QED BY <1>1, InitSafe, NextSafe, PTL DEF Spec, DoneIsKept

\* Products only disappear in a reset or in a replacement that brings others
\* (worker.py:84-109, db.py:425-439).
THEOREM BatchStays == Spec => BatchIsNotLost
<1>1. IInv /\ [Next]_vars => [KeepsBatch]_vars
    BY NextKeeps
<1> QED BY <1>1, InitSafe, NextSafe, PTL DEF Spec, BatchIsNotLost

\* A retry changes no row outside its selection (optimizer.py:98 and 114-121,
\* db.py:279-303).
THEOREM RetryStays == Spec => RetryKeepsToSelection
<1>1. IInv /\ [Next]_vars => [KeepsToSelection]_vars
    BY NextKeeps
<1> QED BY <1>1, InitSafe, NextSafe, PTL DEF Spec, RetryKeepsToSelection
=============================================================================
