---------------------------- MODULE ProductTable ----------------------------
(***************************************************************************)
(* The products table of one data directory (src/pdo/core/db.py) as a      *)
(* value, and every statement the program runs on it as an operator.  A    *)
(* table is a sequence of rows: the id of a row is its position, because   *)
(* AUTOINCREMENT numbers rows from 1 and rows are only ever deleted all    *)
(* together (reset, replace_from).                                         *)
(***************************************************************************)
EXTENDS Naturals, Sequences, FiniteSets

CONSTANTS
    Keys,     \* external product IDs (product_id_value)
    Data,     \* source data of a product: description and context fields
    None      \* SQL NULL, the empty ID and "no description and no context"

Statuses == {"pending", "processing", "done", "error"}

\* classify_error never answers "missing_data" or "corrected".
ClassifiedKinds == {"rate_limit", "authentication", "timeout", "connection", "other"}
ErrorKinds      == ClassifiedKinds \cup {"missing_data", "corrected"}
RetryableKinds  == ErrorKinds \ {"missing_data"}

ASSUME NoneAssumption == None \notin Keys \cup Data \cup ErrorKinds

Scopes == {"done", "all", "completed", "errors", "corrections"}

\* What one CSV row becomes before it is stored.
Product == [key : Keys \cup {None}, data : Data \cup {None}]

\* text is the optimized description, named by the data it was written for;
\* kind stands for error_kind and error_message, which are set together.
Row == [key : Keys \cup {None}, data : Data \cup {None}, status : Statuses,
        text : Data \cup {None}, kind : ErrorKinds \cup {None}]

Table == Seq(Row)

NewRow(p) ==
    [key |-> p.key, data |-> p.data, status |-> "pending", text |-> None, kind |-> None]

InsertProducts(t, ps) == t \o [n \in DOMAIN ps |-> NewRow(ps[n])]

\* get_next_pending answers i.
IsNextPending(t, i) ==
    /\ t[i].status = "pending"
    /\ \A j \in DOMAIN t : t[j].status = "pending" => i <= j

NonePending(t) == \A i \in DOMAIN t : t[i].status # "pending"

\* update_product_status: the text is only overwritten by a new one, the error
\* is always overwritten, and an unknown id changes nothing.
UpdateProductStatus(t, i, status, text, kind) ==
    [j \in DOMAIN t |->
        IF j # i THEN t[j]
        ELSE [t[j] EXCEPT !.status = status,
                          !.text   = IF text = None THEN @ ELSE text,
                          !.kind   = IF status = "error" THEN kind ELSE None]]

WithStatus(t, status) == {i \in DOMAIN t : t[i].status = status}

ErrorIds(t, kinds) == {i \in WithStatus(t, "error") : t[i].kind \in kinds}

RequeueErrors(t, kinds) ==
    [i \in DOMAIN t |->
        IF i \in ErrorIds(t, kinds)
        THEN [t[i] EXCEPT !.status = "pending", !.kind = None]
        ELSE t[i]]

\* Defect: corrections are accepted for rows in any state.
CorrectableAnyStatus(t, ps) ==
    \A n \in DOMAIN ps :
        /\ ps[n].key # None
        /\ \A m \in 1..(n - 1) : ps[m].key # ps[n].key
        /\ ps[n].data # None
        /\ Cardinality({j \in DOMAIN t : t[j].key = ps[n].key}) = 1

\* Defect: an ID that several rows share is accepted.
CorrectableAmbiguous(t, ps) ==
    \A n \in DOMAIN ps :
        /\ ps[n].key # None
        /\ \A m \in 1..(n - 1) : ps[m].key # ps[n].key
        /\ ps[n].data # None
        /\ \E i \in WithStatus(t, "error") : t[i].key = ps[n].key

\* Every row of a correction file names one failed product, and no two rows
\* name the same one.
Correctable(t, ps) ==
    \A n \in DOMAIN ps :
        /\ ps[n].key # None
        /\ \A m \in 1..(n - 1) : ps[m].key # ps[n].key
        /\ ps[n].data # None
        /\ \E i \in WithStatus(t, "error") :
               {j \in DOMAIN t : t[j].key = ps[n].key} = {i}

ApplyCorrections(t, ps) ==
    [i \in DOMAIN t |->
        IF \E n \in DOMAIN ps : ps[n].key = t[i].key
        THEN [t[i] EXCEPT
                !.data = ps[CHOOSE n \in DOMAIN ps : ps[n].key = t[i].key].data,
                !.kind = "corrected"]
        ELSE t[i]]

\* Startup: a row a dead daemon left in processing is pending again.
RequeueProcessing(t) ==
    [i \in DOMAIN t |->
        IF t[i].status = "processing" THEN [t[i] EXCEPT !.status = "pending"] ELSE t[i]]

\* Defect: the old texts stay.
FlagKeepsText(t) ==
    [i \in DOMAIN t |-> [t[i] EXCEPT !.status = "pending", !.kind = None]]

\* Defect: only done rows are flagged.
FlagDoneOnly(t) ==
    [i \in DOMAIN t |->
        IF t[i].status = "done" THEN [t[i] EXCEPT !.status = "pending", !.text = None] ELSE t[i]]

\* reset(keep=True)
FlagPending(t) ==
    [i \in DOMAIN t |-> [t[i] EXCEPT !.status = "pending", !.text = None, !.kind = None]]

InScope(t, scope) ==
    CASE scope = "done"        -> WithStatus(t, "done")
      [] scope = "all"         -> DOMAIN t
      [] scope = "completed"   -> WithStatus(t, "done") \cup WithStatus(t, "error")
      [] scope = "errors"      -> WithStatus(t, "error")
      [] scope = "corrections" -> ErrorIds(t, {"missing_data"})

\* export_page: the first limit rows of the scope behind the id after.
ExportPage(t, scope, after, limit) ==
    LET behind == {i \in InScope(t, scope) : i > after}
    IN  {i \in behind : Cardinality({j \in behind : j <= i}) <= limit}

\* get_progress
Progress(t) ==
    [total |-> Len(t),
     done  |-> Cardinality(WithStatus(t, "done")),
     error |-> Cardinality(WithStatus(t, "error"))]
=============================================================================
