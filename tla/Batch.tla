------------------------------- MODULE Batch --------------------------------
(***************************************************************************)
(* What the program promises about a batch, whatever happens inside it:    *)
(* products are open until they are done or have failed, a done product    *)
(* keeps its result, and only an import, a correction, a retry or a reset  *)
(* a user asked for changes anything else.  Pauses, stops, crashes and     *)
(* restarts do not show.                                                   *)
(***************************************************************************)
EXTENDS Naturals, Sequences

CONSTANTS None, Files

VARIABLE batch   \* sequence of [key, data, text, state] with state open, done or failed

Opened(ps) ==
    [n \in DOMAIN ps |->
        [key |-> ps[n].key, data |-> ps[n].data, text |-> None, state |-> "open"]]

Init == batch = <<>> \/ \E f \in Files : batch = Opened(f.products)

\* One open product gets the text written for its data, or fails.
Work(i) ==
    /\ batch[i].state = "open"
    /\ \/ /\ batch[i].data # None
          /\ batch' = [batch EXCEPT ![i].state = "done", ![i].text = batch[i].data]
       \/ batch' = [batch EXCEPT ![i].state = "failed"]

\* A retry opens failed products, all of its selection at once.
Retry(chosen) ==
    /\ \A i \in chosen : batch[i].state = "failed"
    /\ batch' = [i \in DOMAIN batch |->
                    IF i \in chosen THEN [batch[i] EXCEPT !.state = "open"] ELSE batch[i]]

\* A correction gives failed products other data, all of the file's at once;
\* each row of the file names exactly one product of the batch.
Correct(ps) ==
    /\ \A n \in DOMAIN ps :
           \E i \in DOMAIN batch :
               /\ batch[i].state = "failed"
               /\ {j \in DOMAIN batch : batch[j].key = ps[n].key} = {i}
    /\ batch' = [i \in DOMAIN batch |->
                    IF \E n \in DOMAIN ps : ps[n].key = batch[i].key
                    THEN [batch[i] EXCEPT !.data =
                            ps[CHOOSE n \in DOMAIN ps : ps[n].key = batch[i].key].data]
                    ELSE batch[i]]

\* An import adds a run of a file's products, or puts the file in the batch's place.
Extend(ps, first, last) == batch' = batch \o Opened(SubSeq(ps, first, last))

Replace(ps) == batch' = Opened(ps)

\* A reset forgets the results or everything.
Reopen == batch' = [i \in DOMAIN batch |-> [batch[i] EXCEPT !.state = "open", !.text = None]]

Clear == batch' = <<>>

Next ==
    \/ \E i \in DOMAIN batch : Work(i)
    \/ \E chosen \in SUBSET DOMAIN batch : Retry(chosen)
    \/ \E f \in Files :
           \/ Correct(f.products)
           \/ Replace(f.products)
           \/ \E first, last \in DOMAIN f.products : Extend(f.products, first, last)
    \/ Reopen
    \/ Clear

Spec == Init /\ [][Next]_batch
=============================================================================
