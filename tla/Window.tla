------------------------------- MODULE Window -------------------------------
(***************************************************************************)
(* The main window of the desktop application (DesktopWindow of            *)
(* src/pdo/desktop/app.py): the actions it starts in the daemon, the       *)
(* statuses that answer them, its pages and the tray.  Its thread handles  *)
(* one event at a time, but a dialog runs an event loop of its own: what a *)
(* handler still has to do waits under the dialog while statuses are       *)
(* delivered above it.  The settings and the export page have a module of  *)
(* their own (Pages).                                                      *)
(***************************************************************************)
EXTENDS Service, Sequences

CONSTANTS
    None,
    MaxGestures,  \* of the user
    MaxDialogs    \* dialogs on top of each other

ASSUME WindowAssumption == MaxGestures \in Nat /\ MaxDialogs \in Nat \ {0}

VARIABLES
    ui,           \* idle, or what the handler of the window does next
    held,         \* what follows the refresh of the products
    dialogs,      \* open dialogs, the top one first
    closed,       \* _closed
    gestures,
    status,       \* _status
    progress,     \* _last_progress
    pending,      \* _pending_action
    polling,      \* _polling
    poll,         \* the status request in the pool
    page,
    preview,      \* a CSV file is selected
    tray,         \* there is a tray to hide in
    hidden        \* _hidden_to_tray

\* Auxiliary, no part of the program: the result that last answered an action.
VARIABLE answer

pollVars == <<polling, poll>>
pageVars == <<page, preview>>
vars == <<serviceVars, ui, held, dialogs, closed, gestures, status, progress, pending, pollVars,
          pageVars, tray, hidden, answer>>

Busy(s)       == s.kind # "none"
Optimizing(s) == s.kind = "optimize"

NoPoll   == [at |-> "none", fresh |-> TRUE, status |-> NoStatus]
NoHeld   == [resumes |-> FALSE, read |-> FALSE, rows |-> 0, status |-> NoStatus, first |-> FALSE]
NoAction == [kind |-> "none", asked |-> 0, crashes |-> 0]

\* A job that another client started is followed to its end.
Followed == [NoAction EXCEPT !.kind = "optimize"]

Dialog(what, value) == [what |-> what, value |-> value]
Message             == Dialog("message", None)

\* One dialog more; one too many for the bound is closed at once.
Over(d, open) == IF Len(open) < MaxDialogs THEN <<d>> \o open ELSE open

\* The constructor, up to its poll.
Init ==
    /\ ServiceInit
    /\ ui = "poll" /\ held = NoHeld /\ dialogs = <<>> /\ closed = FALSE /\ gestures = 0
    /\ status = NoStatus /\ progress = None /\ pending = NoAction
    /\ polling = FALSE /\ poll = NoPoll
    /\ page = "import" /\ preview = FALSE
    /\ tray = TRUE /\ hidden = FALSE
    /\ answer = [asked |-> 0, n |-> 0, restarted |-> FALSE]
-----------------------------------------------------------------------------
(***************************************************************************)
(* Statuses: _poll, _poll_async and _apply_status                          *)
(***************************************************************************)

\* The products are read, then the details of the first one.
Refreshing(h) == [h EXCEPT !.read = up /\ table # "empty", !.rows = source]

\* _show_page, with the dialogs that stay open.
Turn(to, open) ==
    /\ page' = to
    /\ dialogs' = open
    /\ IF to = "results"
       THEN ui' = "product" /\ held' = Refreshing(NoHeld)
       ELSE ui' = "idle" /\ held' = NoHeld

Stay(open) ==
    /\ ui' = "idle" /\ held' = NoHeld
    /\ dialogs' = open
    /\ UNCHANGED page

\* What _apply_status does with a result: the action it answers is over.
Conclude(action, s, open) ==
    CASE s.last.error -> Stay(Over(Message, open))
      [] ~s.last.error /\ action.kind = "import" ->
             \E skipped \in BOOLEAN :
                 Turn("optimize", IF skipped THEN Over(Message, open) ELSE open)
      [] ~s.last.error /\ action.kind \in {"optimize", "correction"} -> Turn("results", open)
      [] ~s.last.error /\ action.kind = "export" -> Stay(open)

\* The second half of _apply_status, after the refresh of the products.
Finish(h, open) ==
    LET s       == h.status
        action  == IF Optimizing(s) /\ pending = NoAction THEN Followed ELSE pending
        over    == action # NoAction /\ ~Busy(s)
        opening == h.first /\ s.table # "empty"
    IN  /\ pending' = IF over THEN NoAction ELSE action
        /\ answer' = IF over THEN [asked |-> action.asked, n |-> s.last.n,
                                    restarted |-> s.crashes # action.crashes]
                     ELSE answer
        /\ CASE over -> Conclude(action, s, open)
             [] Optimizing(s) /\ page # "optimize" -> Turn("optimize", open)
             [] ~over /\ ~Optimizing(s) /\ opening ->
                    Turn(IF s.table = "pending" \/ Busy(s) THEN "optimize" ELSE "results", open)
             [] OTHER -> Stay(open)

\* Defect: the window stays hidden when the tray has gone.
AppliesHidden(s) ==
    /\ UNCHANGED hidden
    /\ status' = s

\* The window comes back when the tray has gone.
Applies(s) ==
    /\ hidden' = (hidden /\ tray)
    /\ status' = s

\* The first half, up to the products: they are read when a count changed.
Receive(s) ==
    LET h == [NoHeld EXCEPT !.resumes = TRUE, !.status = s, !.first = (status = NoStatus)] IN
    /\ Applies(s)
    /\ IF s.table # progress \/ (pending.kind = "correction" /\ ~Busy(s))
       THEN /\ progress' = s.table
            /\ ui' = "product" /\ held' = Refreshing(h)
            /\ UNCHANGED <<dialogs, pending, page, answer>>
       ELSE UNCHANGED progress /\ Finish(h, dialogs)

receiveVars == <<ui, held, dialogs, status, progress, pending, page, hidden, answer>>

\* The event loop of the window, or that of a dialog, may handle an event.
Free == ui = "idle" /\ ~closed

\* _poll: what the pool still asks for is stale from now on.
SyncPoll ==
    /\ ui = "poll"
    /\ poll' = [poll EXCEPT !.fresh = (poll.at # "answered")]
    /\ IF up
       THEN Receive(Snapshot)
       ELSE ui' = "idle" /\ UNCHANGED <<held, dialogs, status, progress, pending, page, hidden, answer>>
    /\ UNCHANGED <<serviceVars, closed, gestures, polling, preview, tray>>

pollFrame == <<serviceVars, closed, gestures, preview, tray>>

\* _poll_async.  The status is read when it is asked for, and delivered later:
\* a stale answer only differs from a lost one in what it must not do.
TimerFires ==
    /\ Free /\ ~polling
    /\ polling' = TRUE
    /\ poll' = IF up THEN [NoPoll EXCEPT !.at = "answered", !.status = Snapshot]
               ELSE [NoPoll EXCEPT !.at = "failed"]
    /\ UNCHANGED <<receiveVars, pollFrame>>

\* Defect: polling stops for good once a request has failed.
PollFailedStops ==
    /\ Free /\ poll.at = "failed"
    /\ poll' = NoPoll
    /\ UNCHANGED <<receiveVars, polling, pollFrame>>

PollFailed ==
    /\ Free /\ poll.at = "failed"
    /\ polling' = FALSE
    /\ poll' = NoPoll
    /\ UNCHANGED <<receiveVars, pollFrame>>

\* Defect: a status is applied whatever was asked since.
IsFreshAlways(p) == TRUE

\* Its generation is still the current one.
IsFresh(p) == p.fresh

PollDelivered ==
    /\ Free /\ poll.at = "answered"
    /\ polling' = FALSE
    /\ poll' = NoPoll
    /\ IF IsFresh(poll) THEN Receive(poll.status) ELSE UNCHANGED receiveVars
    /\ UNCHANGED pollFrame

\* The details of the first product cannot be read: the daemon has gone or the
\* batch was replaced after the rows were read.
ProductFails ==
    /\ held.read
    /\ ~up \/ source # held.rows
    /\ Len(dialogs) < MaxDialogs

productFrame == <<serviceVars, closed, gestures, status, progress, pollVars, preview, tray, hidden>>

Resume(h, open) ==
    IF h.resumes THEN Finish(h, open) ELSE Stay(open) /\ UNCHANGED <<pending, answer>>

ProductRead ==
    /\ ui = "product"
    /\ IF ProductFails
       THEN /\ dialogs' = <<Dialog("product", held)>> \o dialogs
            /\ ui' = "idle" /\ held' = NoHeld
            /\ UNCHANGED <<pending, page, answer>>
       ELSE Resume(held, dialogs)
    /\ UNCHANGED productFrame
-----------------------------------------------------------------------------
(***************************************************************************)
(* Requests: _start_action                                                 *)
(***************************************************************************)

\* The request fails, with a message; an action that was pending still is.
Refused(open) ==
    /\ dialogs' = Over(Message, open)
    /\ UNCHANGED <<daemonVars, ui, pending>>

\* The request is answered, then the window polls.  It may also be refused for
\* what it asks for: a mapping, a file or settings that cannot be used.
Request(kind, retry, open) ==
    \/ /\ up /\ job = NoJob /\ jobs < MaxJobs
       /\ Begin(kind, retry)
       /\ pending' = [kind |-> kind, asked |-> jobs', crashes |-> crashes]
       /\ ui' = "poll"
       /\ dialogs' = open
    \/ Refused(open)
-----------------------------------------------------------------------------
(***************************************************************************)
(* The user, while no dialog is open; a button is enabled as the last      *)
(* status had it                                                           *)
(***************************************************************************)

Gesture ==
    /\ Free /\ dialogs = <<>> /\ ~hidden
    /\ gestures < MaxGestures
    /\ gestures' = gestures + 1

Idle == ~Busy(status)

Opens(d) == dialogs' = Over(d, dialogs)

quiet        == <<daemonVars, ui, pending>>
gestureFrame == <<crashes, held, closed, status, progress, pollVars, tray, hidden, answer>>

\* _choose_source, and _new_batch that shows the import page before.
Browse ==
    /\ Gesture /\ Idle /\ page \in {"import", "results"}
    /\ Opens(Dialog("source", page))
    /\ page' = "import"
    /\ UNCHANGED <<quiet, preview, gestureFrame>>

StartImport ==
    /\ Gesture /\ Idle /\ page = "import" /\ preview
    /\ IF status.table # "empty"
       THEN Opens(Dialog("replace", None)) /\ UNCHANGED quiet
       ELSE Request("import", FALSE, dialogs)
    /\ UNCHANGED <<pageVars, gestureFrame>>

ImportCorrections ==
    /\ Gesture /\ Idle /\ page = "results" /\ status.table = "errors"
    /\ Opens(Dialog("correction", None))
    /\ UNCHANGED <<quiet, pageVars, gestureFrame>>

RetryErrors ==
    /\ Gesture /\ Idle /\ page = "results" /\ status.table = "errors"
    /\ Request("optimize", TRUE, dialogs)
    /\ UNCHANGED <<pageVars, gestureFrame>>

\* Incomplete settings are told, and then shown; the session asks for the
\* status before it requests anything.
StartOptimization ==
    /\ Gesture /\ Idle /\ page = "optimize" /\ status.table = "pending"
    /\ \/ Opens(Dialog("settings", None)) /\ UNCHANGED quiet
       \/ table = "pending" /\ Request("optimize", FALSE, dialogs)
       \/ table # "pending" /\ Refused(dialogs)
    /\ UNCHANGED <<pageVars, gestureFrame>>

TogglePause ==
    /\ Gesture /\ page = "optimize" /\ Optimizing(status)
    /\ \/ up /\ SetPaused(~status.paused) /\ ui' = "poll" /\ UNCHANGED <<dialogs, pending>>
       \/ ~up /\ Refused(dialogs)
    /\ UNCHANGED <<pageVars, gestureFrame>>

OpenExport ==
    /\ Gesture /\ Idle /\ page = "results" /\ status.table \in {"done", "errors"}
    /\ page' = "export"
    /\ UNCHANGED <<quiet, dialogs, preview, gestureFrame>>

StartExport ==
    /\ Gesture /\ Idle /\ page = "export"
    /\ Opens(Dialog("export", None))
    /\ UNCHANGED <<quiet, pageVars, gestureFrame>>

turnFrame == <<serviceVars, closed, status, progress, pending, pollVars, preview, tray, hidden, answer>>

Navigate ==
    /\ Gesture
    /\ \/ Idle /\ Turn("import", dialogs)
       \/ status.table # "empty" /\ Turn("optimize", dialogs)
       \/ Idle /\ status.table \in {"done", "errors"} /\ Turn("results", dialogs)
    /\ UNCHANGED <<turnFrame>>

OpenSettings ==
    /\ Gesture /\ Idle
    /\ page' = "settings"
    /\ UNCHANGED <<quiet, dialogs, preview, gestureFrame>>

\* Back to the page they were opened from.
LeaveSettings ==
    /\ Gesture /\ page = "settings"
    /\ \E to \in {"import", "optimize", "results", "export"} : Turn(to, dialogs)
    /\ UNCHANGED turnFrame
-----------------------------------------------------------------------------
(***************************************************************************)
(* Dialogs: the user closes the top one, and its handler goes on           *)
(***************************************************************************)

Closes(what) == Free /\ dialogs # <<>> /\ Head(dialogs).what = what

Rest == Tail(dialogs)

dialogFrame == <<gestures, gestureFrame>>

CloseMessage ==
    /\ Closes("message")
    /\ dialogs' = Rest
    /\ UNCHANGED <<quiet, pageVars, dialogFrame>>

CloseProduct ==
    /\ Closes("product")
    /\ Resume(Head(dialogs).value, Rest)
    /\ UNCHANGED productFrame

CloseIncomplete ==
    /\ Closes("settings")
    /\ dialogs' = Rest
    /\ page' = "settings"
    /\ UNCHANGED <<quiet, preview, dialogFrame>>

\* A file is chosen and read, or _new_batch goes back where it was.
CloseSource ==
    /\ Closes("source")
    /\ \/ /\ preview' = TRUE
          /\ Stay(Rest)
       \/ /\ IF Head(dialogs).value = "import" THEN Stay(Rest) ELSE Turn(Head(dialogs).value, Rest)
          /\ UNCHANGED preview
    /\ UNCHANGED <<serviceVars, closed, gestures, status, progress, pending, pollVars, tray, hidden,
                   answer>>

\* "Load the new CSV?", the file of an export or of a correction.
CloseQuestion ==
    /\ Free /\ dialogs # <<>>
    /\ \/ Head(dialogs).what = "replace" /\ Request("import", FALSE, Rest)
       \/ Head(dialogs).what \in {"correction", "export"} /\ Request(Head(dialogs).what, FALSE, Rest)
       \/ Head(dialogs).what \in {"replace", "correction", "export"} /\ dialogs' = Rest /\ UNCHANGED quiet
    /\ UNCHANGED <<pageVars, dialogFrame>>
-----------------------------------------------------------------------------
(***************************************************************************)
(* The tray and the end                                                    *)
(***************************************************************************)

trayFrame == <<crashes, held, status, progress, pending, pollVars, pageVars, answer>>

\* closeEvent: the window hides if there is a tray at this moment, or the
\* application ends.
CloseWindow ==
    /\ Gesture
    /\ \/ tray /\ hidden' = TRUE /\ UNCHANGED closed
       \/ closed' = TRUE /\ UNCHANGED hidden
    /\ UNCHANGED <<daemonVars, ui, dialogs, tray, trayFrame>>

ShowFromTray ==
    /\ Free /\ tray /\ hidden
    /\ hidden' = FALSE
    /\ UNCHANGED <<daemonVars, ui, dialogs, closed, gestures, tray, trayFrame>>

\* quit: the daemon stops and the application ends, or the window says why not.
Quit ==
    /\ Free /\ tray
    /\ \/ /\ closed' = TRUE
          /\ up' = FALSE /\ job' = NoJob /\ last' = NoResult /\ paused' = FALSE
          /\ UNCHANGED <<jobs, table, source, seq, ui, dialogs, hidden>>
       \/ /\ hidden' = FALSE
          /\ Opens(Message)
          /\ UNCHANGED <<daemonVars, ui, closed>>
    /\ UNCHANGED <<gestures, tray, trayFrame>>

\* The tray host goes and comes.  Only a hidden window depends on it, and one
\* that is closed, which has the choice.
TrayChanges ==
    /\ ~closed
    /\ tray => hidden
    /\ tray' = ~tray
    /\ UNCHANGED <<daemonVars, ui, dialogs, closed, gestures, hidden, trayFrame>>
-----------------------------------------------------------------------------
UserStep ==
    \/ Browse \/ StartImport \/ ImportCorrections \/ RetryErrors \/ StartOptimization \/ TogglePause
    \/ OpenExport \/ StartExport \/ Navigate \/ OpenSettings \/ LeaveSettings
    \/ CloseMessage \/ CloseProduct \/ CloseIncomplete \/ CloseSource \/ CloseQuestion
    \/ CloseWindow \/ ShowFromTray \/ Quit

windowVars == <<ui, held, dialogs, closed, gestures, status, progress, pending, pollVars, pageVars, tray,
                hidden, answer>>

\* What a handler of the window does next, and the answers from the pool.
HandlerStep == SyncPoll \/ ProductRead
PollStep    == PollFailed \/ PollDelivered

\* Nobody looks any more once the window is closed.
JobStep   == ~closed /\ JobEnds /\ UNCHANGED windowVars
OtherStep == ~closed /\ (Crash \/ Restart \/ OtherJob) /\ UNCHANGED windowVars

Next == UserStep \/ HandlerStep \/ PollStep \/ TimerFires \/ JobStep \/ OtherStep \/ TrayChanges

Spec == Init /\ [][Next]_vars

\* The event loop and the pool make progress, jobs end unless they are paused.
\* The user, other clients, crashes and the tray are free.
FairSpec ==
    Spec /\ WF_vars(HandlerStep) /\ WF_vars(PollStep) /\ WF_vars(TimerFires) /\ WF_vars(JobStep)
=============================================================================
