------------------------------ MODULE MCDaemon ------------------------------
(***************************************************************************)
(* Small instances of the daemon for TLC.                                  *)
(***************************************************************************)
EXTENDS DaemonProperties

CONSTANTS k1, k2, d1, d2, c1, c2

MCKeys    == {k1, k2}
MCData    == {d1, d2}
MCColumns == {c1, c2}
MCKeyed   == {c1}
MCCovers  == {<<c1, c1>>, <<c1, c2>>, <<c2, c2>>}

Good(k, d) == [key |-> k, data |-> d]
Bare(k)    == [key |-> k, data |-> None]

\* Two products with data.
Pair  == [cols |-> c1, products |-> <<Good(k1, d1), Good(k2, d1)>>]
\* A product with data and one without.
Mixed == [cols |-> c1, products |-> <<Good(k1, d1), Bare(k2)>>]
\* Other data for one product; appended, an ID that two rows share.
Fix   == [cols |-> c1, products |-> <<Good(k2, d2)>>]
\* The same in another layout, which has the columns of the first one.
Moved == [cols |-> c2, products |-> <<Good(k2, d2)>>]
\* No row at all.
Empty == [cols |-> c1, products |-> <<>>]

WorkFiles   == {Pair, Mixed}
ImportFiles == {Mixed, Fix, Moved, Empty}
ExportFiles == {[cols |-> c1, products |-> <<Good(k1, d1), Bare(k2), Good(None, d2)>>]}

RateLimited == {{"rate_limit"}}
AllChoices  == {{"rate_limit"}, {"other"}}
Corrected   == {{"rate_limit", "corrected"}}

WorkRequests   == {"optimize", "retry", "pause", "resume", "stop", "status"}
ResetRequests  == {"optimize", "retry", "pause", "reset", "keep", "stop"}
ImportRequests == {"optimize", "append", "replace", "corrections", "retry"}
ExportRequests == {"optimize", "export", "reset", "keep"}
LiveRequests   == {"optimize", "retry", "export", "pause", "resume", "reset", "stop"}
=============================================================================
