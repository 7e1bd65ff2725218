-------------------------- MODULE WindowProperties --------------------------
(***************************************************************************)
(* What the statuses of the daemon, which arrive in two ways and at any    *)
(* time, must make of the main window.                                     *)
(***************************************************************************)
EXTENDS Window

Kinds == {"none", "import", "correction", "optimize", "export"}

Results  == [n : Nat, error : BOOLEAN]
Statuses == [seq : Nat, kind : Kinds, paused : BOOLEAN, table : {"empty", "pending", "done", "errors"},
             last : Results, crashes : Nat]
Dialogs  == {"message", "product", "settings", "source", "replace", "correction", "export"}

\* The type invariant of the window: its request flag is set exactly while a
\* request is in the pool.
TypeOK ==
    /\ ui \in {"idle", "poll", "product"}
    /\ page \in {"import", "optimize", "results", "export", "settings"}
    /\ {status, poll.status, Snapshot, held.status} \subseteq Statuses
    /\ pending.kind \in Kinds
    /\ poll.at \in {"none", "answered", "failed"}
    /\ polling = (poll.at # "none")
    /\ {closed, preview, tray, hidden, up} \subseteq BOOLEAN
    /\ Len(dialogs) <= MaxDialogs
    /\ \A n \in DOMAIN dialogs : dialogs[n].what \in Dialogs
-----------------------------------------------------------------------------
\* The window never goes back to an older status than the one it shows: an
\* answer from the pool that a request of the window's own thread has overtaken
\* is dropped (app.py:1324-1347; test_desktop.py:769 tries one such order).
StatusNeverGoesBack == [][status'.seq >= status.seq]_vars

\* What ends an action of the window, with its message or its page, is the
\* result of the job that was asked for or of a later one, unless the daemon was
\* restarted since: never a status from before the request, whether it was on
\* its way or waited under a dialog (app.py:1006-1012, 1349-1352, 1408-1464).
ActionIsAnswered == answer.n >= answer.asked \/ answer.restarted

\* Whatever fails in between, an action is at last over for the window, so that
\* its buttons do not stay disabled: unless the job is kept paused, the daemon
\* stays away or the window is closed (app.py:1324-1347 and 1408-1464).
PendingIsSettled == []<>(pending = NoAction \/ ~up \/ closed \/ paused)

\* A window hidden in a tray that has gone comes back, with the next status
\* (app.py:1349-1351 and 1563-1596).
HiddenIsReachable == []<>(~hidden \/ tray \/ ~up \/ closed)
=============================================================================
