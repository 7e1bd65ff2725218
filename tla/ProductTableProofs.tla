------------------------- MODULE ProductTableProofs -------------------------
(***************************************************************************)
(* What the statements on the products table return, for every table.      *)
(***************************************************************************)
EXTENDS ProductTable, TLAPS

\* A function over 1..n whose values are rows is a table.
LEMMA RowsMakeTable ==
    ASSUME NEW n \in Nat, NEW t, t = [i \in 1..n |-> t[i]], \A i \in 1..n : t[i] \in Row
    PROVE  t \in Table /\ Len(t) = n /\ DOMAIN t = 1..n
<1>1. t \in [1..n -> Row]
    OBVIOUS
<1> QED BY <1>1 DEF Table

\* A new product becomes a row.
LEMMA NewRowType ==
    ASSUME NEW p \in Product PROVE NewRow(p) \in Row
BY DEF NewRow, Product, Row, Statuses

\* insert_products appends pending rows and leaves the others alone.
LEMMA InsertType ==
    ASSUME NEW t \in Table, NEW ps \in Seq(Product)
    PROVE  /\ InsertProducts(t, ps) \in Table
           /\ Len(InsertProducts(t, ps)) = Len(t) + Len(ps)
           /\ \A i \in DOMAIN t : InsertProducts(t, ps)[i] = t[i]
           /\ \A i \in DOMAIN InsertProducts(t, ps) \ DOMAIN t :
                  \E p \in Product : InsertProducts(t, ps)[i] = NewRow(p)
<1> DEFINE new == [n \in DOMAIN ps |-> NewRow(ps[n])]
<1>1. DOMAIN ps = 1..Len(ps) /\ Len(ps) \in Nat /\ \A n \in 1..Len(ps) : ps[n] \in Product
    OBVIOUS
<1>2. \A n \in 1..Len(ps) : new[n] \in Row
    BY <1>1, NewRowType
<1>3. new \in Table /\ Len(new) = Len(ps) /\ DOMAIN new = 1..Len(ps)
    BY <1>1, <1>2, RowsMakeTable
<1>4. InsertProducts(t, ps) = t \o new
    BY DEF InsertProducts
<1>5. t \o new \in Table /\ Len(t \o new) = Len(t) + Len(new)
    BY <1>3 DEF Table
<1>6. \A i \in DOMAIN t : (t \o new)[i] = t[i]
    BY <1>3 DEF Table
<1>7. ASSUME NEW i \in DOMAIN (t \o new) \ DOMAIN t
      PROVE  \E p \in Product : (t \o new)[i] = NewRow(p)
    <2>1. i - Len(t) \in 1..Len(ps) /\ (t \o new)[i] = new[i - Len(t)]
        BY <1>3, <1>5 DEF Table
    <2>2. new[i - Len(t)] = NewRow(ps[i - Len(t)])
        BY <2>1, <1>1
    <2> QED BY <2>1, <2>2, <1>1
<1> QED BY <1>3, <1>4, <1>5, <1>6, <1>7

\* A table has rows at 1..Len.
LEMMA TableRows ==
    ASSUME NEW t \in Table
    PROVE  /\ Len(t) \in Nat /\ DOMAIN t = 1..Len(t)
           /\ \A i \in DOMAIN t : t[i] \in Row
BY DEF Table

\* A row stays a row when its status, text and kind change.
LEMMA RowUpdate ==
    ASSUME NEW r \in Row, NEW status \in Statuses, NEW text \in Data \cup {None},
           NEW kind \in ErrorKinds \cup {None}
    PROVE  [r EXCEPT !.status = status, !.text = text, !.kind = kind] \in Row
BY DEF Row

\* update_product_status changes one row at most.
LEMMA UpdateType ==
    ASSUME NEW t \in Table, NEW i \in Nat, NEW status \in Statuses,
           NEW text \in Data \cup {None}, NEW kind \in ErrorKinds \cup {None},
           NEW u, u = UpdateProductStatus(t, i, status, text, kind)
    PROVE  u \in Table /\ Len(u) = Len(t) /\ DOMAIN u = DOMAIN t
<1>1. ASSUME NEW j \in DOMAIN t PROVE u[j] \in Row
    <2>1. t[j] \in Row
        BY TableRows
    <2>2. CASE j # i
        BY <2>1, <2>2 DEF UpdateProductStatus
    <2>3. CASE j = i
        <3> DEFINE newText == IF text = None THEN t[j].text ELSE text
                   newKind == IF status = "error" THEN kind ELSE None
        <3>1. newText \in Data \cup {None} /\ newKind \in ErrorKinds \cup {None}
            BY <2>1 DEF Row
        <3>2. u[j] = [t[j] EXCEPT !.status = status, !.text = newText, !.kind = newKind]
            BY <2>3 DEF UpdateProductStatus
        <3> HIDE DEF newText, newKind
        <3>3. [t[j] EXCEPT !.status = status, !.text = newText, !.kind = newKind] \in Row
            BY <2>1, <3>1, RowUpdate
        <3> QED BY <3>2, <3>3
    <2> QED BY <2>2, <2>3
<1>2. u = [j \in 1..Len(t) |-> u[j]]
    BY TableRows DEF UpdateProductStatus
<1> QED BY <1>1, <1>2, TableRows, RowsMakeTable

\* The other statements keep every row's place.
LEMMA RequeueErrorsType ==
    ASSUME NEW t \in Table, NEW kinds, NEW u, u = RequeueErrors(t, kinds)
    PROVE  u \in Table /\ Len(u) = Len(t) /\ DOMAIN u = DOMAIN t
<1>1. ASSUME NEW j \in DOMAIN t PROVE u[j] \in Row
    <2>1. t[j] \in Row
        BY TableRows
    <2>2. u[j] = t[j] \/ u[j] = [t[j] EXCEPT !.status = "pending", !.kind = None]
        BY DEF RequeueErrors
    <2> QED BY <2>1, <2>2 DEF Row, Statuses
<1>2. u = [j \in 1..Len(t) |-> u[j]]
    BY TableRows DEF RequeueErrors
<1> QED BY <1>1, <1>2, TableRows, RowsMakeTable

LEMMA RequeueProcessingType ==
    ASSUME NEW t \in Table, NEW u, u = RequeueProcessing(t)
    PROVE  u \in Table /\ Len(u) = Len(t) /\ DOMAIN u = DOMAIN t
<1>1. ASSUME NEW j \in DOMAIN t PROVE u[j] \in Row
    <2>1. t[j] \in Row
        BY TableRows
    <2>2. u[j] = t[j] \/ u[j] = [t[j] EXCEPT !.status = "pending"]
        BY DEF RequeueProcessing
    <2> QED BY <2>1, <2>2 DEF Row, Statuses
<1>2. u = [j \in 1..Len(t) |-> u[j]]
    BY TableRows DEF RequeueProcessing
<1> QED BY <1>1, <1>2, TableRows, RowsMakeTable

LEMMA FlagPendingType ==
    ASSUME NEW t \in Table, NEW u, u = FlagPending(t)
    PROVE  u \in Table /\ Len(u) = Len(t) /\ DOMAIN u = DOMAIN t
<1>1. ASSUME NEW j \in DOMAIN t PROVE u[j] \in Row
    <2>1. t[j] \in Row
        BY TableRows
    <2>2. u[j] = [t[j] EXCEPT !.status = "pending", !.text = None, !.kind = None]
        BY DEF FlagPending
    <2> QED BY <2>1, <2>2 DEF Row, Statuses
<1>2. u = [j \in 1..Len(t) |-> u[j]]
    BY TableRows DEF FlagPending
<1> QED BY <1>1, <1>2, TableRows, RowsMakeTable

LEMMA ApplyCorrectionsType ==
    ASSUME NEW t \in Table, NEW ps \in Seq(Product), NEW u, u = ApplyCorrections(t, ps)
    PROVE  u \in Table /\ Len(u) = Len(t) /\ DOMAIN u = DOMAIN t
<1>1. ASSUME NEW j \in DOMAIN t PROVE u[j] \in Row
    <2>1. CASE \E n \in DOMAIN ps : ps[n].key = t[j].key
        <3> DEFINE m == CHOOSE n \in DOMAIN ps : ps[n].key = t[j].key
        <3>1. m \in DOMAIN ps
            BY <2>1
        <3>2. ps[m].data \in Data \cup {None}
            <4>1. ps[m] \in Product
                BY <3>1
            <4> QED BY <4>1 DEF Product
        <3>3. u[j] = [t[j] EXCEPT !.data = ps[m].data, !.kind = "corrected"]
            BY <2>1, <1>1 DEF ApplyCorrections
        <3>4. t[j] \in Row
            BY TableRows, <1>1
        <3> HIDE DEF m
        <3> QED BY <3>2, <3>3, <3>4 DEF Row, ErrorKinds
    <2>2. CASE ~ \E n \in DOMAIN ps : ps[n].key = t[j].key
        BY <2>2, <1>1, TableRows DEF ApplyCorrections
    <2> QED BY <2>1, <2>2
<1>2. u = [j \in 1..Len(t) |-> u[j]]
    BY TableRows DEF ApplyCorrections
<1> QED BY <1>1, <1>2, TableRows, RowsMakeTable

\* The rows of a status or a scope are rows of the table.
LEMMA SelectionType ==
    ASSUME NEW t \in Table, NEW status, NEW kinds
    PROVE  /\ WithStatus(t, status) \subseteq DOMAIN t
           /\ ErrorIds(t, kinds) \subseteq DOMAIN t
           /\ DOMAIN t \subseteq Nat
BY TableRows DEF WithStatus, ErrorIds

LEMMA ScopeType ==
    ASSUME NEW t \in Table, NEW scope \in Scopes
    PROVE  InScope(t, scope) \subseteq Nat
BY SelectionType DEF InScope, Scopes

LEMMA PageType ==
    ASSUME NEW t \in Table, NEW scope \in Scopes, NEW after, NEW limit
    PROVE  ExportPage(t, scope, after, limit) \subseteq Nat
BY ScopeType DEF ExportPage
=============================================================================
