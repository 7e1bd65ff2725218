----------------------------- MODULE Optimizing -----------------------------
(***************************************************************************)
(* The optimization job: run_optimization (src/pdo/core/optimizer.py) as   *)
(* Worker.start_optimization runs it, for all pending products or, in a    *)
(* retry, for the failed ones of the selected error groups.  Each read and *)
(* each write of the database is a step of its own; the call to the        *)
(* language model lasts as long as the thread stays at "call".             *)
(***************************************************************************)
EXTENDS Worker

CONSTANT Failures   \* what classify_error makes of a failed call

ASSUME FailuresAssumption == Failures \subseteq ClassifiedKinds

VARIABLES
    ids,      \* product_ids: the selection of a retry
    left,     \* what its iterator has not delivered yet
    item,     \* product["id"], 0 for None
    data,     \* the data in product, read when the row was picked
    failure,  \* classify_error(exc)
    tally     \* total, succeeded and failed

\* Auxiliary, no part of the program: products claimed since a pause or a stop
\* was requested (2 stands for more).
VARIABLE claims

optFrame == <<ids, left, item, data, failure, tally>>
optVars  == <<ids, left, item, data, failure, tally, claims>>

NoTally == [total |-> 0, done |-> 0, error |-> 0]

OptimizingTypeOK ==
    /\ ids \subseteq Nat
    /\ left \subseteq ids
    /\ item \in Nat
    /\ data \in Data \cup {None}
    /\ failure \in ClassifiedKinds \cup {None}
    /\ tally \in [total : Nat, done : Nat, error : Nat]
    /\ claims \in 0..2

\* A call frame before its first statement.
OptFrameInit ==
    /\ ids = {} /\ left = {} /\ item = 0
    /\ data = None /\ failure = None /\ tally = NoTally

FreshOptFrame ==
    /\ ids' = {} /\ left' = {} /\ item' = 0
    /\ data' = None /\ failure' = None /\ tally' = NoTally

Requeue ==
    /\ pc = "requeue"
    /\ \/ /\ SetRows(RequeueErrors(rows, job.groups))
          /\ ids' = ErrorIds(rows, job.groups)
          /\ left' = ids'
          /\ Go("opt_stage")
       \/ Raises /\ Go("abort") /\ UNCHANGED <<ids, left>>
    /\ UNCHANGED <<item, data, failure, tally, claims>>

OptStage ==
    /\ pc = "opt_stage"
    /\ \/ SetStage("optimizing") /\ Go("opt_progress")
       \/ Raises /\ Go("abort")
    /\ UNCHANGED optVars

OptProgress ==
    /\ pc = "opt_progress"
    /\ \/ Reads /\ tally' = Progress(rows) /\ Go("opt_next")
       \/ Raises /\ Go("abort") /\ UNCHANGED tally
    /\ UNCHANGED <<ids, left, item, data, failure, claims>>

\* An exception of the loop's try block, which its handler records.
Caught(kind) == failure' = kind /\ Go("save_error")

Picked(i) == item' = i /\ data' = rows[i].data /\ Go("check")

NextPending ==
    /\ job.kind = "optimize"
    /\ \/ \E i \in DOMAIN rows : IsNextPending(rows, i) /\ Picked(i)
       \/ NonePending(rows) /\ Go("opt_idle") /\ UNCHANGED <<item, data>>
    /\ UNCHANGED left

\* Defect: a retry goes on with every pending row.
NextAnyPending ==
    /\ job.kind = "retry"
    /\ \/ \E i \in DOMAIN rows : IsNextPending(rows, i) /\ Picked(i)
       \/ NonePending(rows) /\ Go("opt_idle") /\ UNCHANGED <<item, data>>
    /\ UNCHANGED left

\* Defect: the selection is iterated from its beginning each time.
NextFromStart ==
    /\ job.kind = "retry"
    /\ \/ \E i \in left :
             \/ i \in WithStatus(rows, "pending") /\ Picked(i)
             \/ i \notin WithStatus(rows, "pending") /\ Go(pc) /\ UNCHANGED <<item, data>>
       \/ left = {} /\ Go("opt_idle") /\ UNCHANGED <<item, data>>
    /\ UNCHANGED left

\* The iterator's next id; the order the query delivered them in is open.
NextSelected ==
    /\ job.kind = "retry"
    /\ \/ \E i \in left :
             /\ left' = left \ {i}
             /\ \/ i \in WithStatus(rows, "pending") /\ Picked(i)
                \/ i \notin WithStatus(rows, "pending") /\ Go(pc) /\ UNCHANGED <<item, data>>
       \/ left = {} /\ Go("opt_idle") /\ UNCHANGED <<left, item, data>>

\* next_product(), before the loop and at the end of its body.
NextProduct ==
    /\ pc = "opt_next"
    /\ \/ Reads /\ (NextPending \/ NextSelected)
       \/ Raises /\ Go("abort") /\ UNCHANGED <<left, item, data>>
    /\ UNCHANGED <<ids, failure, tally, claims>>

\* next_product() behind a product without data: this call is inside the try
\* block, whose handler then records a second failure of the same product.
NextInTry ==
    /\ pc = "next_in_try"
    /\ \/ Reads /\ (NextPending \/ NextSelected) /\ UNCHANGED failure
       \/ Raises /\ Caught("other") /\ UNCHANGED <<left, item, data>>
    /\ UNCHANGED <<ids, tally, claims>>

CheckStop ==
    /\ pc = "check"
    /\ Go(IF stopEv THEN "opt_idle" ELSE "hold")
    /\ UNCHANGED <<store, optVars>>

\* Defect: only a stop ends the loop.
HoldUntilStop ==
    /\ pc = "hold"
    /\ stopEv
    /\ Go("recheck")
    /\ UNCHANGED <<store, optVars>>

\* The sleeping loop: left when the pause or the wait for its end is over.
Hold ==
    /\ pc = "hold"
    /\ ~pauseEv \/ stopEv
    /\ Go("recheck")
    /\ UNCHANGED <<store, optVars>>

\* Defect: the stop that ended the pause is not looked at again.
NoRecheck ==
    /\ pc = "recheck"
    /\ Go("claim")
    /\ UNCHANGED <<store, optVars>>

RecheckStop ==
    /\ pc = "recheck"
    /\ Go(IF stopEv THEN "opt_idle" ELSE "claim")
    /\ UNCHANGED <<store, optVars>>

Paced == job.kind = "retry" /\ "rate_limit" \in job.groups

AfterClaim == IF data = None THEN "missing" ELSE IF Paced THEN "pace" ELSE "call"

Claim ==
    /\ pc = "claim"
    /\ \/ /\ SetRows(UpdateProductStatus(rows, item, "processing", None, None))
          /\ claims' = IF claims = 2 THEN 2 ELSE claims + 1
          /\ Go(AfterClaim)
       \/ Raises /\ Go("abort") /\ UNCHANGED claims
    /\ UNCHANGED optFrame

Failed(kind) ==
    /\ SetRows(UpdateProductStatus(rows, item, "error", None, kind))
    /\ tally' = [tally EXCEPT !.error = @ + 1]

MissingData ==
    /\ pc = "missing"
    /\ \/ Failed("missing_data") /\ Go("next_in_try") /\ UNCHANGED failure
       \/ Raises /\ Caught("other") /\ UNCHANGED tally
    /\ UNCHANGED <<ids, left, item, data, claims>>

\* stop_event.wait(request_interval)
Pace ==
    /\ pc = "pace"
    /\ Go(IF stopEv THEN "unclaim" ELSE "call")
    /\ UNCHANGED <<store, optVars>>

\* Defect: the product given back counts as failed.
UnclaimCounts ==
    /\ pc = "unclaim"
    /\ \/ /\ SetRows(UpdateProductStatus(rows, item, "pending", None, None))
          /\ tally' = [tally EXCEPT !.error = @ + 1]
          /\ Go("opt_idle") /\ UNCHANGED failure
       \/ Raises /\ Caught("other") /\ UNCHANGED tally
    /\ UNCHANGED <<ids, left, item, data, claims>>

Unclaim ==
    /\ pc = "unclaim"
    /\ \/ /\ SetRows(UpdateProductStatus(rows, item, "pending", None, None))
          /\ Go("opt_idle") /\ UNCHANGED failure
       \/ Raises /\ Caught("other")
    /\ UNCHANGED <<ids, left, item, data, tally, claims>>

\* optimizer.optimize() returns or raises.
Call ==
    /\ pc = "call"
    /\ \/ Go("save") /\ UNCHANGED failure
       \/ \E kind \in Failures : Caught(kind)
    /\ UNCHANGED <<store, ids, left, item, data, tally, claims>>

Save ==
    /\ pc = "save"
    /\ \/ /\ SetRows(UpdateProductStatus(rows, item, "done", data, None))
          /\ tally' = [tally EXCEPT !.done = @ + 1]
          /\ Go("opt_next") /\ UNCHANGED failure
       \/ Raises /\ Caught("other") /\ UNCHANGED tally
    /\ UNCHANGED <<ids, left, item, data, claims>>

\* Defect: the first failure ends the run.
SaveErrorBreaks ==
    /\ pc = "save_error"
    /\ \/ Failed(failure) /\ Go("opt_idle")
       \/ Raises /\ Go("abort") /\ UNCHANGED tally
    /\ UNCHANGED <<ids, left, item, data, failure, claims>>

SaveError ==
    /\ pc = "save_error"
    /\ \/ Failed(failure) /\ Go("opt_next")
       \/ Raises /\ Go("abort") /\ UNCHANGED tally
    /\ UNCHANGED <<ids, left, item, data, failure, claims>>

OptIdle ==
    /\ pc = "opt_idle"
    /\ \/ SetStage("idle") /\ Go("opt_result")
       \/ Raises /\ Go("abort")
    /\ UNCHANGED optVars

OptResult ==
    /\ pc = "opt_result"
    /\ Finish(Result("optimized", tally.total, tally.done, tally.error))
    /\ UNCHANGED <<store, optVars>>

OptimizeStep ==
    \/ Requeue \/ OptStage \/ OptProgress \/ NextProduct \/ NextInTry
    \/ CheckStop \/ Hold \/ RecheckStop \/ Claim
    \/ MissingData \/ Pace \/ Unclaim \/ Call \/ Save \/ SaveError
    \/ OptIdle \/ OptResult
=============================================================================
