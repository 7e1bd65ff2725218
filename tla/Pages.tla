-------------------------------- MODULE Pages --------------------------------
(***************************************************************************)
(* The settings page and the export page of the desktop application        *)
(* (src/pdo/desktop/app.py and session.py), and the configuration file     *)
(* they share with the daemon and with `pdo config set`.  Previews and     *)
(* checks of the connection run in a pool, while what they are for may     *)
(* change; a request that saves settings is several steps of the daemon.   *)
(* Jobs and statuses are reduced to what they do to these pages: Window    *)
(* has the rest.  Messages to the user are left out: they only delay him.  *)
(***************************************************************************)
EXTENDS Form, Naturals, FiniteSets

CONSTANTS
    CliSettings,   \* that `pdo config set` sets
    MaxGestures    \* of the user, in the window and on the command line

ASSUME PagesAssumption ==
    /\ Formats # {}
    /\ MaxGestures \in Nat
    /\ CliSettings \subseteq {"local_llm.address", "openai.api_key", "optimizer"}

VARIABLES
    \* the window
    ui,            \* idle, or what its request is about to do
    call,          \* the request
    dialog,        \* "Save CSV", with the format it was opened with
    gestures,
    page, from,    \* the page shown (other is none of these two), _settings_from
    known,         \* session.config
    form,          \* the controls of the settings page
    checks,        \* discoveries in the pool
    format, scope, \* of the export page; None is an invalid format
    valid,         \* _export_valid
    shown,         \* what the preview was made for
    previews,      \* in the pool
    timer,         \* export_timer
    \* the other processes
    busy,          \* the worker has a job
    file,          \* config.toml
    workerConfig,  \* the configuration of the worker
    cli            \* a `pdo config set` that has read the file

\* Auxiliary, no part of the program: the configuration the page last loaded,
\* what the file would hold if each save were one step, whether two met, the
\* models it has ever held, and whether the window has come to know another key
\* than the one it sent.
VARIABLES loaded, saved, met, remembered, rekeyed

requestVars == <<ui, call>>
formVars    == <<form, checks, loaded>>
pageVars    == <<page, from, formVars>>
previewVars == <<valid, previews>>
exportVars  == <<format, scope, previewVars, shown, timer>>
fileVars    == <<file, saved, met, remembered>>
otherVars   == <<busy, workerConfig, cli>>
vars == <<requestVars, dialog, gestures, pageVars, known, rekeyed, exportVars, fileVars, otherVars>>

DefaultFormat == CHOOSE f \in Formats : TRUE   \* CsvFormat()

Scopes == {"done", "errors"}

NoValues == [s \in {} |-> None]   \* {}: no settings
NoCall   == [kind |-> "none", values |-> NoValues, base |-> Empty, sent |-> None, shown |-> None]
NoDialog == [format |-> None, shown |-> None]
NoSave   == [base |-> Empty, values |-> NoValues]

\* A generation number that has moved on makes what was submitted before stale.
Stale(tasks) == {[t EXCEPT !.fresh = FALSE] : t \in tasks}

Check(f, config) == [query |-> Query(f, config), fresh |-> TRUE]

\* The constructor; a local server is checked at once.
Init ==
    /\ file \in {Merge(Empty, Only("optimizer", b)) : b \in Backends}
    /\ known = file /\ loaded = file /\ workerConfig = file /\ saved = file
    /\ ui = "idle" /\ call = NoCall /\ dialog = NoDialog /\ gestures = 0
    /\ page = "other" /\ from = "other"
    /\ form = LoadSettings(BackendChanged(Blank, file), file)
    /\ checks = IF form.backend = "local_llm" THEN {Check(form, file)} ELSE {}
    /\ format = DefaultFormat /\ scope = "done" /\ valid = FALSE /\ shown = <<None, None>>
    /\ previews = {} /\ timer = FALSE
    /\ busy \in BOOLEAN /\ cli = NoSave /\ met = FALSE /\ remembered = {} /\ rekeyed = FALSE
-----------------------------------------------------------------------------
(***************************************************************************)
(* Pages: _show_page and the preview                                       *)
(***************************************************************************)

\* Defect: leaving the settings page keeps what was typed there.
LeaveKeeps(to, config) ==
    /\ page' = to
    /\ checks' = IF page = "settings" /\ to # "settings" THEN Stale(checks) ELSE checks
    /\ UNCHANGED <<form, loaded>>

\* Leaving the settings page loads the configuration again and may check the
\* connection.
Leave(to, config) ==
    /\ page' = to
    /\ IF page = "settings" /\ to # "settings"
       THEN /\ form' = LoadSettings(form, config)
            /\ loaded' = config
            /\ checks' = Stale(checks) \cup
                   IF form'.backend = "local_llm" /\ form'.models = {}
                   THEN {Check(form', config)} ELSE {}
       ELSE UNCHANGED formVars

\* _refresh_export_preview; an invalid format is not sent.
RefreshPreview(f, s) ==
    /\ valid' = FALSE
    /\ previews' = Stale(previews) \cup
           IF f = None THEN {} ELSE {[for |-> <<f, s>>, fresh |-> TRUE]}

\* Defect: a preview on its way survives the change.
SchedulePreviewKeeps ==
    /\ valid' = FALSE
    /\ timer' = TRUE
    /\ UNCHANGED previews

\* _schedule_preview
SchedulePreview ==
    /\ valid' = FALSE
    /\ previews' = Stale(previews)
    /\ timer' = TRUE

ShowPage(to, config) ==
    /\ Leave(to, config)
    /\ IF to = "export" THEN RefreshPreview(format, scope) ELSE UNCHANGED previewVars
-----------------------------------------------------------------------------
(***************************************************************************)
(* Requests, and the handlers of the daemon behind them.  The window waits *)
(* for the answer, ten seconds at most.                                    *)
(***************************************************************************)

\* The handler finds the worker idle; if there are settings, it reads the file.
Ask(kind, values, sent, showed) ==
    IF busy THEN UNCHANGED requestVars
    ELSE /\ ui' = IF values = NoValues THEN "start" ELSE "save"
         /\ call' = [kind |-> kind, values |-> values, base |-> file, sent |-> sent, shown |-> showed]

callFrame == <<dialog, gestures, exportVars>>
quietFrame == <<from, pageVars, known, rekeyed, cli>>

\* The connection breaks, the file cannot be written, or the optimizer cannot be
\* created.
CallRefused ==
    /\ ui \in {"save", "saved", "start"}
    /\ ui' = "idle" /\ call' = NoCall
    /\ UNCHANGED <<callFrame, quietFrame, fileVars, busy, workerConfig>>

\* save_config_values has read the file before, and replaces it now.
Replace(base, values) ==
    /\ file' = Merge(base, values)
    /\ saved' = Merge(saved, values)
    /\ remembered' = remembered \cup {values[s] : s \in ModelSettings \cap DOMAIN values}

\* Defect: the handler merges into the settings the daemon has loaded.
SettingsSavedStale ==
    /\ ui = "save"
    /\ Replace(workerConfig, call.values)
    /\ met' = (met \/ cli # NoSave)
    /\ ui' = "saved"
    /\ UNCHANGED <<call, callFrame, quietFrame, busy, workerConfig>>

SettingsSaved ==
    /\ ui = "save"
    /\ Replace(call.base, call.values)
    /\ met' = (met \/ cli # NoSave)
    /\ ui' = "saved"
    /\ UNCHANGED <<call, callFrame, quietFrame, busy, workerConfig>>

\* Defect: a request that also starts a job leaves the worker its settings.
SettingsLoadedNot ==
    /\ ui = "saved" /\ ~busy
    /\ workerConfig' = IF call.kind = "settings" THEN file ELSE workerConfig
    /\ ui' = IF call.kind = "settings" THEN "answered" ELSE "start"
    /\ UNCHANGED <<call, callFrame, quietFrame, fileVars, busy>>

\* The handler loads the file for the worker.
SettingsLoaded ==
    /\ ui = "saved" /\ ~busy
    /\ workerConfig' = file
    /\ ui' = IF call.kind = "settings" THEN "answered" ELSE "start"
    /\ UNCHANGED <<call, callFrame, quietFrame, fileVars, busy>>

JobStarted ==
    /\ ui = "start" /\ ~busy
    /\ busy' = TRUE
    /\ ui' = "answered"
    /\ UNCHANGED <<call, callFrame, quietFrame, fileVars, workerConfig>>

\* _reload_config, where settings were sent; then a mere save leaves the page
\* and a job is followed by a poll.
CallAnswered ==
    /\ ui = "answered"
    /\ known' = IF call.values = NoValues THEN known ELSE file
    /\ rekeyed' = (rekeyed \/ (/\ known'["openai.api_key"] # known["openai.api_key"]
                               /\ "openai.api_key" \notin DOMAIN call.values))
    /\ call' = NoCall
    /\ \/ call.kind = "settings" /\ ui' = "idle" /\ ShowPage(from, file)
       \/ call.kind # "settings" /\ ui' = "poll" /\ UNCHANGED <<page, formVars, previewVars>>
    /\ UNCHANGED <<dialog, gestures, from, format, scope, shown, timer, fileVars, otherVars>>
-----------------------------------------------------------------------------
(***************************************************************************)
(* The user.  What a busy status disables counts as enabled: the status of *)
(* the window is older than the state of the daemon.                       *)
(***************************************************************************)

\* The event loop of the window, or that of the dialog, may handle an event.
Free == ui = "idle"

Spend   == gestures < MaxGestures /\ gestures' = gestures + 1
Gesture == Free /\ dialog = NoDialog /\ Spend

idleFrame == <<known, rekeyed, fileVars, otherVars>>
pageFrame == <<requestVars, dialog, idleFrame>>

\* The button stays where it is on every page, the settings page included.
OpenSettings ==
    /\ Gesture
    /\ from' = page
    /\ page' = "settings"
    /\ UNCHANGED <<formVars, exportVars, pageFrame>>

CancelSettings ==
    /\ Gesture /\ page = "settings"
    /\ ShowPage(from, known)
    /\ UNCHANGED <<from, format, scope, shown, timer, pageFrame>>

\* Incomplete settings are refused.
SaveSettings ==
    /\ Gesture /\ page = "settings" /\ ~Incomplete(form)
    /\ Ask("settings", ProviderSettings(form), None, None)
    /\ UNCHANGED <<dialog, pageVars, exportVars, idleFrame>>

\* The navigation, and the pages that other buttons lead to.
Navigate ==
    /\ Gesture /\ page # "other"
    /\ ShowPage("other", known)
    /\ UNCHANGED <<from, format, scope, shown, timer, pageFrame>>

\* Of the page for the optimization; incomplete settings are shown.
StartOptimization ==
    /\ Gesture /\ page = "other"
    /\ IF Incomplete(form)
       THEN from' = page /\ page' = "settings" /\ UNCHANGED requestVars
       ELSE Ask("optimize", ProviderSettings(form), None, None) /\ UNCHANGED <<page, from>>
    /\ UNCHANGED <<dialog, formVars, exportVars, idleFrame>>

editFrame == <<page, from, loaded, exportVars, pageFrame>>
Editing   == Gesture /\ page = "settings"

\* What _address_changed hears of makes a discovery stale.
EditAddress ==
    /\ Editing /\ form.backend = "local_llm"
    /\ \E a \in Addresses \ {form.address} : form' = AddressChanged([form EXCEPT !.address = a])
    /\ checks' = Stale(checks)
    /\ UNCHANGED editFrame

EditKey ==
    /\ Editing /\ form.backend = "openai" /\ form.auth = "api_key"
    /\ \E k \in (Keys \cup {None}) \ {form.key} : form' = KeyChanged([form EXCEPT !.key = k], known)
    /\ checks' = Stale(checks)
    /\ UNCHANGED editFrame

PickBackend ==
    /\ Editing
    /\ \E b \in Backends \ {form.backend} : form' = BackendChanged([form EXCEPT !.backend = b], known)
    /\ checks' = Stale(checks)
    /\ UNCHANGED editFrame

PickAuth ==
    /\ Editing /\ form.backend = "openai"
    /\ \E a \in {"api_key", "chatgpt"} \ {form.auth} :
           form' = OpenaiAuthChanged([form EXCEPT !.auth = a], known)
    /\ checks' = Stale(checks)
    /\ UNCHANGED editFrame

\* The model: typed, or chosen from the list.
EditModel ==
    /\ Editing /\ form.backend # "dummy"
    /\ \/ form' = [form EXCEPT !.manual = ~form.manual]
       \/ form.manual /\ form' = [form EXCEPT !.written = Model(ModelKey(form), "typed", "typed")]
       \/ ~form.manual /\ \E m \in form.box \ {form.chosen} :
              form' = [form EXCEPT !.chosen = m, !.picked = TRUE]
    /\ UNCHANGED <<checks, editFrame>>

\* Its buttons are disabled while a check is fresh.
CheckConnection ==
    /\ Editing /\ form.backend # "dummy"
    /\ \A c \in checks : ~c.fresh
    /\ checks' = checks \cup {Check(form, known)}
    /\ UNCHANGED <<form, editFrame>>

OpenExport ==
    /\ Gesture /\ page = "other"
    /\ scope' \in Scopes
    /\ page' = "export"
    /\ RefreshPreview(format, scope')
    /\ UNCHANGED <<from, formVars, format, shown, timer, pageFrame>>

ChangeFormat ==
    /\ Gesture /\ page = "export"
    /\ format' \in (Formats \cup {None}) \ {format}
    /\ SchedulePreview
    /\ UNCHANGED <<pageVars, scope, shown, pageFrame>>

ChangeScope ==
    /\ Gesture /\ page = "export"
    /\ scope' \in Scopes \ {scope}
    /\ RefreshPreview(format, scope')
    /\ UNCHANGED <<pageVars, format, shown, timer, pageFrame>>

\* The format is read before the file dialog opens.
StartExport ==
    /\ Gesture /\ page = "export" /\ valid
    /\ dialog' = [format |-> format, shown |-> shown]
    /\ UNCHANGED <<pageVars, exportVars, requestVars, idleFrame>>

\* Defect: the format is read when the dialog closes.
ChooseFileLate ==
    /\ Free /\ dialog # NoDialog
    /\ dialog' = NoDialog
    /\ \/ UNCHANGED requestVars
       \/ \E remember \in BOOLEAN :
              Ask("export", IF remember THEN Only("export.format", format) ELSE NoValues,
                  <<format, scope>>, dialog.shown)
    /\ UNCHANGED <<gestures, pageVars, exportVars, idleFrame>>

\* The scope after it closes.  The format may be remembered, which saves it.
ChooseFile ==
    /\ Free /\ dialog # NoDialog
    /\ dialog' = NoDialog
    /\ \/ UNCHANGED requestVars
       \/ \E remember \in BOOLEAN :
              Ask("export", IF remember THEN Only("export.format", dialog.format) ELSE NoValues,
                  <<dialog.format, scope>>, dialog.shown)
    /\ UNCHANGED <<gestures, pageVars, exportVars, idleFrame>>
-----------------------------------------------------------------------------
(***************************************************************************)
(* What the event loop delivers, also above the dialog                     *)
(***************************************************************************)

eventFrame == <<from, known, rekeyed, scope, fileVars, otherVars>>

\* A status: a new source brings its format, unless one is remembered, and the
\* start or the end of a job turns the page.
StatusApplied ==
    /\ ui \in {"idle", "poll"}
    /\ ui' = "idle"
    /\ \/ /\ Spend
          /\ \E f \in Formats : format' = Or(known["export.format"], f)
          /\ SchedulePreview
       \/ UNCHANGED <<gestures, format, previewVars, timer>>
    /\ Leave("other", known) \/ UNCHANGED <<page, formVars>>
    /\ UNCHANGED <<call, dialog, shown, eventFrame>>

TimerPreview ==
    /\ Free /\ timer
    /\ timer' = FALSE
    /\ RefreshPreview(format, scope)
    /\ UNCHANGED <<requestVars, dialog, gestures, page, formVars, format, shown, eventFrame>>

\* A preview without products is not valid, nor is one that failed.
PreviewReady ==
    /\ Free
    /\ \E p \in previews :
           /\ previews' = previews \ {p}
           /\ \/ p.fresh /\ shown' = p.for /\ valid' \in BOOLEAN
              \/ ~p.fresh /\ UNCHANGED <<shown, valid>>
    /\ UNCHANGED <<requestVars, dialog, gestures, page, formVars, format, timer, eventFrame>>

\* It may have failed.
CheckReady ==
    /\ Free
    /\ \E c \in checks :
           /\ checks' = checks \ {c}
           /\ \/ c.fresh /\ \E names \in Offers : form' \in Found(form, c.query, names, known)
              \/ UNCHANGED form
    /\ UNCHANGED <<requestVars, dialog, gestures, page, loaded, format, previewVars, shown, timer,
                   eventFrame>>
-----------------------------------------------------------------------------
(***************************************************************************)
(* The daemon, its other clients and the command line                      *)
(***************************************************************************)

windowVars == <<requestVars, dialog, pageVars, known, rekeyed, exportVars>>

\* The daemon handles one request at a time.
JobOfOther ==
    /\ ui \notin {"save", "saved", "start"}
    /\ busy' = ~busy
    /\ UNCHANGED <<windowVars, gestures, fileVars, workerConfig, cli>>

\* A request on its way has failed before.
DaemonRestarts ==
    /\ ui \notin {"save", "saved", "start"}
    /\ busy' = FALSE /\ workerConfig' = file
    /\ UNCHANGED <<windowVars, gestures, fileVars, cli>>

CliValues(setting) ==
    CASE setting = "local_llm.address" -> Addresses
      [] setting = "openai.api_key"    -> Keys
      [] setting = "optimizer"         -> Backends

CliReads ==
    /\ Spend /\ cli = NoSave
    /\ \E s \in CliSettings : \E value \in CliValues(s) :
           /\ file[s] # value
           /\ cli' = [base |-> file, values |-> Only(s, value)]
    /\ UNCHANGED <<windowVars, fileVars, busy, workerConfig>>

CliReplaces ==
    /\ cli # NoSave
    /\ Replace(cli.base, cli.values)
    /\ met' = (met \/ ui \in {"save", "saved", "start"})
    /\ cli' = NoSave
    /\ UNCHANGED <<windowVars, gestures, busy, workerConfig>>
-----------------------------------------------------------------------------
SettingsStep ==
    \/ OpenSettings \/ CancelSettings \/ SaveSettings \/ EditAddress \/ EditKey \/ PickBackend
    \/ PickAuth \/ EditModel \/ CheckConnection \/ CheckReady

ExportStep ==
    \/ OpenExport \/ ChangeFormat \/ ChangeScope \/ StartExport \/ ChooseFile \/ TimerPreview
    \/ PreviewReady

RequestStep ==
    \/ StartOptimization \/ CallRefused \/ SettingsSaved \/ SettingsLoaded \/ JobStarted \/ CallAnswered

OtherStep == JobOfOther \/ DaemonRestarts \/ CliReads \/ CliReplaces

Next == SettingsStep \/ ExportStep \/ RequestStep \/ Navigate \/ StatusApplied \/ OtherStep

Spec == Init /\ [][Next]_vars
=============================================================================
