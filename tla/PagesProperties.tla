--------------------------- MODULE PagesProperties ---------------------------
(***************************************************************************)
(* What late answers, other writers of the configuration file and changes  *)
(* under a dialog must not do to what the window shows and sends.          *)
(***************************************************************************)
EXTENDS Pages

Sent == {None} \cup (Formats \X Scopes)

\* The type invariant of the pages and of the configuration.
TypeOK ==
    /\ ui \in {"idle", "save", "saved", "start", "answered", "poll"}
    /\ {page, from} \subseteq {"settings", "export", "other"}
    /\ format \in Formats \cup {None} /\ scope \in Scopes
    /\ {valid, timer, busy, met} \subseteq BOOLEAN
    /\ \A c \in {file, known, workerConfig, saved, loaded} : DOMAIN c = Settings
    /\ {call.sent, call.shown} \subseteq Sent
    /\ (call = NoCall) = (ui \in {"idle", "poll"})
-----------------------------------------------------------------------------
\* The button that exports is only enabled by a preview of the very format and
\* scope the page has now, however late the preview of another one arrives
\* (app.py:1206-1275).
PreviewFits == valid => shown = <<format, scope>>

\* An export asks for what was previewed when its button was pressed, although
\* a status may change the page while the file dialog is open (app.py:1277-1301
\* and 1419-1431).
ExportAsShown == call.kind = "export" => call.sent = call.shown

\* A model that is sent belongs to the setting it is sent for, and it was typed,
\* is the default, was saved once, or was offered by the very server, key or
\* account it is sent with, unless somebody else has changed the key
\* (app.py:642-903; test_desktop.py:959 and 984 try two orders).
NoForeignModel ==
    ui = "save" /\ call.kind # "export" =>
        \A s \in ModelSettings \cap DOMAIN call.values :
            LET m == call.values[s] IN
            /\ m.setting = s
            /\ \/ m.at \in {"typed", "default"}
               \/ m \in remembered
               \/ m.at = Query(form, known).at
               \/ rekeyed

\* Wherever the settings page is left for, by a button or by a status, what was
\* typed there is gone and every control shows what the page last loaded, so
\* that an optimization is started with that.  The one draft that stays is a
\* choice in the list of a local server, where no saved model is in the list
\* (app.py:642-708, 860-903 and 920-926; test_desktop_interactions.py:139).
DraftsStayOnThePage ==
    page # "settings" =>
        /\ form.key = None
        /\ form.backend = Or(loaded["optimizer"], "local_llm")
        /\ form.address = Or(loaded["local_llm.address"], LocalAddress)
        /\ form.auth = Or(loaded["openai.auth_mode"], "api_key")
        /\ form.manual = (form.backend # "dummy" /\ loaded[ManualKey(form)] = TRUE)
        /\ form.written \in {None, DefaultModel, Saved(ModelKey(form), loaded)}
        /\ form.picked => /\ form.backend = "local_llm"
                          /\ ~Lists(form, loaded["local_llm.model"])

\* The file is what all saves make of it, one after the other, as long as no
\* two overlapped: neither the daemon nor the command line writes back what it
\* has only loaded earlier (config.py:142-175, server.py:270-292).
SavesSurvive == ~met => file = saved

\* A job that is started with settings runs with these, unless somebody else
\* saved at the same time (server.py:270-316, session.py:133-163).
RunsAsSent ==
    [][ui = "start" /\ ui' = "answered" /\ call.values # NoValues =>
          met \/ workerConfig = Merge(workerConfig, call.values)]_vars
=============================================================================
