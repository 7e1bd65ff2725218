----------------------------- MODULE PagesProofs -----------------------------
(***************************************************************************)
(* Safety of the settings page, of the export page and of the file both    *)
(* save to, for every set of addresses, keys and formats and any number of *)
(* gestures.                                                               *)
(***************************************************************************)
EXTENDS PagesProperties, TLAPS

-----------------------------------------------------------------------------
(***************************************************************************)
(* Previews                                                                *)
(***************************************************************************)

\* All fresh previews on their way are for the format f and the scope s.
Fitting(ps, f, s) ==
    \A p \in ps : p = [for |-> p.for, fresh |-> p.fresh] /\ (p.fresh => p.for = <<f, s>>)

\* What the page shows, what is on its way and what a dialog was opened with.
Previewed ==
    /\ PreviewFits
    /\ Fitting(previews, format, scope)
    /\ dialog = NoDialog \/ dialog.shown = <<dialog.format, scope>>

\* Stale previews are for nothing.
LEMMA StaleFits ==
    ASSUME NEW ps, NEW f, NEW s, NEW g, NEW t, Fitting(ps, f, s)
    PROVE  Fitting(Stale(ps), g, t)
<1>1. SUFFICES ASSUME NEW q \in Stale(ps) PROVE q = [for |-> q.for, fresh |-> q.fresh] /\ ~q.fresh
      BY DEF Fitting
<1>2. PICK p \in ps : q = [p EXCEPT !.fresh = FALSE] BY DEF Stale
<1>3. p = [for |-> p.for, fresh |-> p.fresh] BY DEF Fitting
<1>4. q = [for |-> p.for, fresh |-> FALSE] BY <1>2, <1>3
<1> QED BY <1>4

\* A refresh asks for a preview of what the page has.
LEMMA RefreshFits ==
    ASSUME NEW f, NEW s, Fitting(previews, format, scope), RefreshPreview(f, s)
    PROVE  ~valid' /\ Fitting(previews', f, s)
<1>1. Fitting(Stale(previews), f, s) BY StaleFits
<1>2. Fitting({[for |-> <<f, s>>, fresh |-> TRUE]}, f, s) BY DEF Fitting
<1> QED BY <1>1, <1>2 DEF RefreshPreview, Fitting

\* Turning a page does not touch the preview unless it refreshes it.
LEMMA ShowPageFits ==
    ASSUME NEW to, NEW config, Fitting(previews, format, scope), ShowPage(to, config)
    PROVE  \/ ~valid' /\ Fitting(previews', format, scope)
           \/ UNCHANGED <<valid, previews>>
BY RefreshFits DEF ShowPage, previewVars

\* A step that leaves the export page and the dialog alone.
LEMMA PreviewedStays ==
    ASSUME Previewed, UNCHANGED <<format, scope, valid, previews, shown, dialog>>
    PROVE  Previewed'
BY DEF Previewed, PreviewFits, Fitting

\* The steps of the export page.
LEMMA ExportIsPreviewed ==
    ASSUME Previewed, ExportStep
    PROVE  Previewed'
<1>0. Fitting(previews, format, scope) /\ PreviewFits BY DEF Previewed
<1>1. CASE OpenExport
  <2>1. RefreshPreview(format, scope') /\ UNCHANGED <<format, dialog>> /\ dialog = NoDialog
        BY <1>1 DEF OpenExport, pageFrame, Gesture
  <2> QED BY <1>0, <2>1, RefreshFits DEF Previewed, PreviewFits
<1>2. CASE ChangeFormat
  <2>1. ~valid' /\ previews' = Stale(previews) /\ UNCHANGED <<scope, dialog>> /\ dialog = NoDialog
        BY <1>2 DEF ChangeFormat, SchedulePreview, pageFrame, Gesture
  <2> QED BY <1>0, <2>1, StaleFits DEF Previewed, PreviewFits
<1>3. CASE ChangeScope
  <2>1. RefreshPreview(format, scope') /\ UNCHANGED <<format, dialog>> /\ dialog = NoDialog
        BY <1>3 DEF ChangeScope, pageFrame, Gesture
  <2> QED BY <1>0, <2>1, RefreshFits DEF Previewed, PreviewFits
<1>4. CASE StartExport
  <2>1. /\ valid /\ UNCHANGED <<format, scope, valid, previews, shown>>
        /\ dialog' = [format |-> format, shown |-> shown]
        BY <1>4 DEF StartExport, exportVars, previewVars
  <2> QED BY <1>0, <2>1 DEF Previewed, PreviewFits, Fitting
<1>5. CASE ChooseFile
  <2>1. dialog' = NoDialog /\ UNCHANGED <<format, scope, valid, previews, shown>>
        BY <1>5 DEF ChooseFile, exportVars, previewVars
  <2> QED BY <1>0, <2>1 DEF Previewed, PreviewFits, Fitting
<1>6. CASE TimerPreview
  <2>1. RefreshPreview(format, scope) /\ UNCHANGED <<format, scope, dialog>>
        BY <1>6 DEF TimerPreview, eventFrame
  <2> QED BY <1>0, <2>1, RefreshFits DEF Previewed, PreviewFits
<1>7. CASE PreviewReady
  <2>1. UNCHANGED <<format, scope, dialog>> BY <1>7 DEF PreviewReady, eventFrame
  <2>2. PICK p \in previews :
           /\ previews' = previews \ {p}
           /\ \/ p.fresh /\ shown' = p.for /\ valid' \in BOOLEAN
              \/ ~p.fresh /\ UNCHANGED <<shown, valid>>
        BY <1>7 DEF PreviewReady
  <2> QED BY <1>0, <2>1, <2>2 DEF Previewed, PreviewFits, Fitting
<1> QED BY <1>1, <1>2, <1>3, <1>4, <1>5, <1>6, <1>7 DEF ExportStep

\* The steps of the settings page.
LEMMA SettingsArePreviewed ==
    ASSUME Previewed, SettingsStep
    PROVE  Previewed'
<1>1. CASE CancelSettings
  <2>1. ShowPage(from, known) /\ UNCHANGED <<format, scope, shown, dialog>>
        BY <1>1 DEF CancelSettings, pageFrame
  <2> QED BY <2>1, ShowPageFits DEF Previewed, PreviewFits
<1>2. CASE OpenSettings \/ SaveSettings
      BY <1>2, PreviewedStays DEF OpenSettings, SaveSettings, pageFrame, exportVars, previewVars
<1>3. CASE EditAddress \/ EditKey \/ PickBackend \/ PickAuth \/ EditModel \/ CheckConnection
      BY <1>3, PreviewedStays DEF EditAddress, EditKey, PickBackend, PickAuth, EditModel,
         CheckConnection, editFrame, pageFrame, exportVars, previewVars
<1>4. CASE CheckReady
      BY <1>4, PreviewedStays DEF CheckReady, eventFrame, previewVars
<1> QED BY <1>1, <1>2, <1>3, <1>4 DEF SettingsStep

\* The steps of a request: its answer may turn the page.
LEMMA RequestIsPreviewed ==
    ASSUME Previewed, RequestStep
    PROVE  Previewed'
<1>1. CASE CallAnswered
  <2>1. UNCHANGED <<format, scope, shown, dialog>> BY <1>1 DEF CallAnswered
  <2>2. CASE UNCHANGED previewVars BY <2>1, <2>2, PreviewedStays DEF previewVars
  <2>3. CASE ShowPage(from, file) BY <2>1, <2>3, ShowPageFits DEF Previewed, PreviewFits
  <2> QED BY <1>1, <2>2, <2>3 DEF CallAnswered
<1>2. CASE StartOptimization
      BY <1>2, PreviewedStays DEF StartOptimization, exportVars, previewVars
<1>3. CASE CallRefused \/ SettingsSaved \/ SettingsLoaded \/ JobStarted
      BY <1>3, PreviewedStays DEF CallRefused, SettingsSaved, SettingsLoaded, JobStarted,
         callFrame, exportVars, previewVars
<1> QED BY <1>1, <1>2, <1>3 DEF RequestStep

\* Every step of the window and of the other processes.
LEMMA NextIsPreviewed ==
    ASSUME Previewed, [Next]_vars
    PROVE  Previewed'
<1>1. CASE Navigate
  <2>1. ShowPage("other", known) /\ UNCHANGED <<format, scope, shown, dialog>>
        BY <1>1 DEF Navigate, pageFrame
  <2> QED BY <2>1, ShowPageFits DEF Previewed, PreviewFits
<1>2. CASE StatusApplied
  <2>1. UNCHANGED <<scope, shown, dialog>> BY <1>2 DEF StatusApplied, eventFrame
  <2>2. CASE SchedulePreview
        BY <2>1, <2>2, StaleFits DEF SchedulePreview, Previewed, PreviewFits
  <2>3. CASE UNCHANGED <<format, previewVars>> BY <2>1, <2>3, PreviewedStays DEF previewVars
  <2> QED BY <1>2, <2>2, <2>3 DEF StatusApplied
<1>3. CASE OtherStep
      BY <1>3, PreviewedStays DEF OtherStep, JobOfOther, DaemonRestarts, CliReads, CliReplaces,
         windowVars, exportVars, previewVars
<1>4. CASE UNCHANGED vars BY <1>4, PreviewedStays DEF vars, exportVars, previewVars
<1> QED BY <1>1, <1>2, <1>3, <1>4, ExportIsPreviewed, SettingsArePreviewed, RequestIsPreviewed
        DEF Next

\* The page starts without a preview.
LEMMA InitIsPreviewed == Init => Previewed
BY DEF Init, Previewed, PreviewFits, Fitting

\* For every order of changes and late previews: the export is only enabled by
\* a preview of what the page has (app.py:1206-1275).
THEOREM PreviewsFit == Spec => []PreviewFits
<1>1. Previewed => PreviewFits BY DEF Previewed
<1> QED BY <1>1, InitIsPreviewed, NextIsPreviewed, PTL DEF Spec

-----------------------------------------------------------------------------
(***************************************************************************)
(* What an export asks for                                                 *)
(***************************************************************************)

\* A request that is no export is not an export afterwards either.
LEMMA AskIsNoExport ==
    ASSUME ExportAsShown, NEW kind, NEW values, NEW sent, NEW showed,
           Ask(kind, values, sent, showed), kind # "export" \/ sent = showed
    PROVE  ExportAsShown'
BY DEF Ask, ExportAsShown, requestVars

\* Every step keeps the export that is on its way what was shown.
LEMMA NextIsAsShown ==
    ASSUME Previewed, ExportAsShown, [Next]_vars
    PROVE  ExportAsShown'
<1>1. CASE ChooseFile
  <2>1. dialog.shown = <<dialog.format, scope>> BY <1>1 DEF ChooseFile, Previewed
  <2>2. CASE UNCHANGED requestVars BY <2>2 DEF requestVars, ExportAsShown
  <2>3. CASE \E remember \in BOOLEAN :
                 Ask("export", IF remember THEN Only("export.format", dialog.format) ELSE NoValues,
                     <<dialog.format, scope>>, dialog.shown)
        BY <2>1, <2>3, AskIsNoExport
  <2> QED BY <1>1, <2>2, <2>3 DEF ChooseFile
<1>2. CASE SaveSettings BY <1>2, AskIsNoExport DEF SaveSettings
<1>3. CASE StartOptimization
      BY <1>3, AskIsNoExport DEF StartOptimization, requestVars, ExportAsShown
<1>4. CASE CallAnswered \/ CallRefused
      BY <1>4 DEF CallAnswered, CallRefused, NoCall, ExportAsShown
<1>5. CASE UNCHANGED call BY <1>5 DEF ExportAsShown
<1>6. CASE ExportStep /\ ~ChooseFile
      BY <1>5, <1>6 DEF ExportStep, OpenExport, ChangeFormat, ChangeScope, StartExport, TimerPreview,
         PreviewReady, pageFrame, requestVars
<1>7. CASE SettingsStep /\ ~SaveSettings
      BY <1>5, <1>7 DEF SettingsStep, OpenSettings, CancelSettings, EditAddress, EditKey,
         PickBackend, PickAuth, EditModel, CheckConnection, CheckReady, editFrame, pageFrame,
         requestVars
<1>8. CASE SettingsSaved \/ SettingsLoaded \/ JobStarted
      BY <1>5, <1>8 DEF SettingsSaved, SettingsLoaded, JobStarted
<1>9. CASE Navigate \/ StatusApplied
      BY <1>5, <1>9 DEF Navigate, StatusApplied, pageFrame, requestVars
<1>10. CASE OtherStep
       BY <1>5, <1>10 DEF OtherStep, JobOfOther, DaemonRestarts, CliReads, CliReplaces, windowVars,
          requestVars
<1>11. CASE UNCHANGED vars BY <1>5, <1>11 DEF vars, requestVars
<1> QED BY <1>1, <1>2, <1>3, <1>4, <1>6, <1>7, <1>8, <1>9, <1>10, <1>11 DEF Next, RequestStep

\* For every format and scope: an export asks for what its button was enabled
\* for, whatever a status does under the dialog (app.py:1277-1301).
THEOREM ExportsAsShown == Spec => []ExportAsShown
<1>1. Init => ExportAsShown BY DEF Init, ExportAsShown, NoCall
<1> QED BY <1>1, InitIsPreviewed, NextIsPreviewed, NextIsAsShown, PTL DEF Spec

-----------------------------------------------------------------------------
(***************************************************************************)
(* The configuration file                                                  *)
(***************************************************************************)

\* Saves on their way have read the file as it is, and what a request has
\* saved and loaded has its settings, unless two saves met.
Kept ==
    met \/ /\ file = saved
           /\ ui = "save" => call.base = file
           /\ cli # NoSave => cli.base = file
           /\ ui = "saved" => file = Merge(file, call.values)
           /\ ui = "start" /\ call.values # NoValues => workerConfig = Merge(workerConfig, call.values)

\* Merging settings once more changes nothing.
LEMMA MergeTwice ==
    ASSUME NEW base, NEW values
    PROVE  Merge(base, values) = Merge(Merge(base, values), values)
BY DEF Merge

\* A new request reads the file when it has settings to save.
LEMMA AskIsKept ==
    ASSUME Kept, UNCHANGED <<file, saved, met, cli, workerConfig>>, ui = "idle",
           NEW kind, NEW values, NEW sent, NEW showed,
           Ask(kind, values, sent, showed)
    PROVE  Kept'
<1>1. CASE UNCHANGED requestVars BY <1>1 DEF Kept, requestVars
<1>2. CASE /\ ui' = IF values = NoValues THEN "start" ELSE "save"
           /\ call' = [kind |-> kind, values |-> values, base |-> file, sent |-> sent, shown |-> showed]
  <2>1. call'.base = file /\ call'.values = values BY <1>2
  <2> QED BY <1>2, <2>1 DEF Kept
<1> QED BY <1>1, <1>2 DEF Ask

\* A step that leaves the file, the saves and the request alone.
LEMMA KeptStays ==
    ASSUME Kept, UNCHANGED <<file, saved, met, cli, workerConfig, ui, call>>
    PROVE  Kept'
BY DEF Kept

\* The steps of a request on its way.
LEMMA RequestIsKept ==
    ASSUME Kept, RequestStep
    PROVE  Kept'
<1>1. CASE StartOptimization
  <2>1. UNCHANGED <<file, saved, met, cli, workerConfig>> /\ ui = "idle"
        BY <1>1 DEF StartOptimization, idleFrame, fileVars, otherVars, Gesture, Free
  <2> QED BY <1>1, <2>1, AskIsKept, KeptStays DEF StartOptimization, requestVars
<1>2. CASE CallRefused
      BY <1>2 DEF Kept, CallRefused, quietFrame, fileVars
<1>3. CASE SettingsSaved
  <2>1. ui = "save" /\ ui' = "saved" /\ UNCHANGED <<call, cli>> /\ met' = (met \/ cli # NoSave)
        BY <1>3 DEF SettingsSaved, quietFrame
  <2>2. file' = Merge(call.base, call.values) /\ saved' = Merge(saved, call.values)
        BY <1>3 DEF SettingsSaved, Replace
  <2>3. file' = Merge(file', call'.values) BY <2>1, <2>2, MergeTwice
  <2> QED BY <2>1, <2>2, <2>3 DEF Kept
<1>4. CASE SettingsLoaded
  <2>1. /\ ui = "saved" /\ ui' \in {"answered", "start"} /\ workerConfig' = file
        /\ UNCHANGED <<call, cli, file, saved, met>>
        BY <1>4 DEF SettingsLoaded, quietFrame, fileVars
  <2> QED BY <2>1 DEF Kept
<1>5. CASE JobStarted
      BY <1>5 DEF Kept, JobStarted, quietFrame, fileVars
<1>6. CASE CallAnswered
  <2>1. ui' \in {"idle", "poll"} /\ UNCHANGED <<file, saved, met, cli>>
        BY <1>6 DEF CallAnswered, fileVars, otherVars
  <2> QED BY <2>1 DEF Kept
<1> QED BY <1>1, <1>2, <1>3, <1>4, <1>5, <1>6 DEF RequestStep

\* The daemon restarts only between requests; the command line saves.
LEMMA OtherIsKept ==
    ASSUME Kept, OtherStep
    PROVE  Kept'
<1>1. CASE JobOfOther
      BY <1>1, KeptStays DEF JobOfOther, windowVars, requestVars, fileVars
<1>2. CASE DaemonRestarts
      BY <1>2 DEF Kept, DaemonRestarts, windowVars, requestVars, fileVars
<1>3. CASE CliReads
  <2>1. UNCHANGED <<ui, call, file, saved, met, workerConfig>>
        BY <1>3 DEF CliReads, windowVars, requestVars, fileVars
  <2>2. cli'.base = file BY <1>3 DEF CliReads
  <2> QED BY <2>1, <2>2 DEF Kept
<1>4. CASE CliReplaces
  <2>1. /\ cli # NoSave /\ cli' = NoSave /\ UNCHANGED <<ui, call, workerConfig>>
        /\ met' = (met \/ ui \in {"save", "saved", "start"})
        /\ file' = Merge(cli.base, cli.values) /\ saved' = Merge(saved, cli.values)
        BY <1>4 DEF CliReplaces, windowVars, requestVars, Replace
  <2> QED BY <2>1 DEF Kept
<1> QED BY <1>1, <1>2, <1>3, <1>4 DEF OtherStep

\* Every step of the window and of the other processes.
LEMMA NextIsKept ==
    ASSUME Kept, [Next]_vars
    PROVE  Kept'
<1>1. CASE ExportStep
  <2>1. CASE ChooseFile
    <3>1. UNCHANGED <<file, saved, met, cli, workerConfig>> /\ ui = "idle"
          BY <2>1 DEF ChooseFile, idleFrame, fileVars, otherVars, Free
    <3> QED BY <2>1, <3>1, AskIsKept, KeptStays DEF ChooseFile, requestVars
  <2>2. CASE ~ChooseFile
        BY <1>1, <2>2, KeptStays DEF ExportStep, OpenExport, ChangeFormat, ChangeScope, StartExport,
           TimerPreview, PreviewReady, pageFrame, idleFrame, eventFrame, requestVars, fileVars,
           otherVars
  <2> QED BY <2>1, <2>2
<1>2. CASE SettingsStep
  <2>1. CASE SaveSettings
    <3>1. UNCHANGED <<file, saved, met, cli, workerConfig>> /\ ui = "idle"
          BY <2>1 DEF SaveSettings, idleFrame, fileVars, otherVars, Gesture, Free
    <3> QED BY <2>1, <3>1, AskIsKept DEF SaveSettings
  <2>2. CASE ~SaveSettings
        BY <1>2, <2>2, KeptStays DEF SettingsStep, OpenSettings, CancelSettings, EditAddress,
           EditKey, PickBackend, PickAuth, EditModel, CheckConnection, CheckReady, editFrame,
           pageFrame, idleFrame, eventFrame, requestVars, fileVars, otherVars
  <2> QED BY <2>1, <2>2
<1>3. CASE Navigate
      BY <1>3, KeptStays DEF Navigate, pageFrame, idleFrame, requestVars, fileVars, otherVars
<1>4. CASE StatusApplied
  <2>1. ui \in {"idle", "poll"} /\ ui' = "idle" /\ UNCHANGED <<file, saved, met, cli>>
        BY <1>4 DEF StatusApplied, eventFrame, fileVars, otherVars
  <2> QED BY <2>1 DEF Kept
<1>5. CASE UNCHANGED vars BY <1>5, KeptStays DEF vars, requestVars, fileVars, otherVars
<1> QED BY <1>1, <1>2, <1>3, <1>4, <1>5, RequestIsKept, OtherIsKept DEF Next

\* At first the window and the worker have what the file has.
LEMMA InitIsKept == Init => Kept
BY DEF Init, Kept

\* For every configuration: no save is lost unless two overlapped
\* (config.py:142-175, server.py:270-292).
THEOREM NoLostSave == Spec => []SavesSurvive
<1>1. Kept => SavesSurvive BY DEF Kept, SavesSurvive
<1> QED BY <1>1, InitIsKept, NextIsKept, PTL DEF Spec

\* And a job runs with the settings its request has sent
\* (server.py:270-316, session.py:133-163).
THEOREM JobsRunAsSent == Spec => RunsAsSent
<1>1. Kept /\ [Next]_vars
          => [ui = "start" /\ ui' = "answered" /\ call.values # NoValues =>
                  met \/ workerConfig = Merge(workerConfig, call.values)]_vars
      BY DEF Kept
<1> QED BY <1>1, InitIsKept, NextIsKept, PTL DEF Spec, RunsAsSent

-----------------------------------------------------------------------------
(***************************************************************************)
(* The settings page                                                       *)
(***************************************************************************)

Controls == {"backend", "auth", "address", "key", "manual", "written", "box", "chosen", "picked",
             "models", "modelAddress", "modelBackend"}

IsForm(f) == f = [c \in Controls |-> f[c]]

\* Two states of the page differ at most in what the model is.
SameSetting(f, g) ==
    g.backend = f.backend /\ g.auth = f.auth /\ g.address = f.address /\ g.key = f.key

\* What is found for a model, offered or forgotten is no other setting.
LEMMA OfferKeeps ==
    ASSUME NEW f, IsForm(f), NEW model
    PROVE  IsForm(Offer(f, model)) /\ SameSetting(f, Offer(f, model))
BY DEF IsForm, Controls, SameSetting, Offer

\* A changed address forgets the models found at the old one.
LEMMA AddressKeeps ==
    ASSUME NEW f, IsForm(f)
    PROVE  IsForm(AddressChanged(f)) /\ SameSetting(f, AddressChanged(f))
BY DEF IsForm, Controls, SameSetting, AddressChanged

\* A changed key does, too.
LEMMA KeyKeeps ==
    ASSUME NEW f, IsForm(f), NEW config
    PROVE  IsForm(KeyChanged(f, config)) /\ SameSetting(f, KeyChanged(f, config))
<1>1. IsForm(AddressChanged(f)) /\ SameSetting(f, AddressChanged(f)) BY AddressKeeps
<1>2. \A model : /\ IsForm(Offer(AddressChanged(f), model))
                 /\ SameSetting(f, Offer(AddressChanged(f), model))
      BY <1>1, OfferKeeps DEF SameSetting
<1> QED BY <1>2 DEF KeyChanged, SameSetting

\* A changed access of OpenAI.
LEMMA AuthKeeps ==
    ASSUME NEW f, IsForm(f), NEW config
    PROVE  IsForm(OpenaiAuthChanged(f, config)) /\ SameSetting(f, OpenaiAuthChanged(f, config))
<1>1. IsForm(AddressChanged(f)) /\ SameSetting(f, AddressChanged(f)) BY AddressKeeps
<1>2. PICK model :
          OpenaiAuthChanged(f, config) =
              [Offer(AddressChanged(f), model) EXCEPT !.modelBackend = ModelKey(f), !.written = model]
      BY DEF OpenaiAuthChanged
<1>3. PICK g : g = Offer(AddressChanged(f), model) OBVIOUS
<1>4. IsForm(g) /\ SameSetting(f, g) BY <1>1, <1>3, OfferKeeps DEF SameSetting
<1>5. PICK h : h = [g EXCEPT !.modelBackend = ModelKey(f), !.written = model] OBVIOUS
<1>6. IsForm(h) /\ SameSetting(g, h) BY <1>4, <1>5 DEF IsForm, Controls, SameSetting
<1> QED BY <1>2, <1>3, <1>4, <1>5, <1>6 DEF SameSetting

\* The models of another backend are forgotten.
LEMMA ForgetKeeps ==
    ASSUME NEW f, IsForm(f)
    PROVE  IsForm(ForgetModels(f)) /\ SameSetting(f, ForgetModels(f))
<1>1. PICK g : g = Offer(AddressChanged(f), None) OBVIOUS
<1>2. IsForm(g) /\ SameSetting(f, g) BY <1>1, AddressKeeps, OfferKeeps DEF SameSetting
<1>3. PICK h : h = [g EXCEPT !.modelBackend = ModelKey(f)] OBVIOUS
<1>4. IsForm(h) /\ SameSetting(g, h) BY <1>2, <1>3 DEF IsForm, Controls, SameSetting
<1> QED BY <1>1, <1>2, <1>3, <1>4 DEF ForgetModels, SameSetting

\* Or loaded.
LEMMA ModelsKeep ==
    ASSUME NEW f, IsForm(f), NEW config
    PROVE  IsForm(LoadModels(f, config)) /\ SameSetting(f, LoadModels(f, config))
<1>1. IsForm(ForgetModels(f)) /\ SameSetting(f, ForgetModels(f)) BY ForgetKeeps
<1>2. /\ IsForm(OpenaiAuthChanged(ForgetModels(f), config))
      /\ SameSetting(f, OpenaiAuthChanged(ForgetModels(f), config))
      BY <1>1, AuthKeeps DEF SameSetting
<1>3. CASE ModelKey(f) = f.modelBackend BY <1>3 DEF LoadModels, SameSetting
<1>4. CASE ModelKey(f) # f.modelBackend /\ f.backend = "openai" BY <1>2, <1>4 DEF LoadModels
<1>5. CASE ModelKey(f) # f.modelBackend /\ f.backend # "openai" BY <1>1, <1>5 DEF LoadModels
<1> QED BY <1>3, <1>4, <1>5

\* Turning to a backend loads its access and clears the key.
LEMMA BackendLoads ==
    ASSUME NEW f, IsForm(f), NEW config
    PROVE  LET g == BackendChanged(f, config) IN
           /\ IsForm(g)
           /\ g.backend = f.backend /\ g.address = f.address /\ g.key = None
           /\ g.auth = Or(config["openai.auth_mode"], "api_key")
<1>1. PICK a : a = LoadAuth(f, config) OBVIOUS
<1>2. /\ IsForm(a) /\ a.backend = f.backend /\ a.address = f.address
      /\ a.auth = Or(config["openai.auth_mode"], "api_key")
      BY <1>1 DEF LoadAuth, IsForm, Controls
<1>3. PICK k : k = ClearKey(a, config) OBVIOUS
<1>4. /\ IsForm(k) /\ k.backend = a.backend /\ k.address = a.address /\ k.auth = a.auth
      /\ k.key = None
  <2>1. PICK b : b = [a EXCEPT !.key = None] OBVIOUS
  <2>2. /\ IsForm(b) /\ b.backend = a.backend /\ b.address = a.address /\ b.auth = a.auth
        /\ b.key = None
        BY <1>2, <2>1 DEF IsForm, Controls
  <2>3. IsForm(KeyChanged(b, config)) /\ SameSetting(b, KeyChanged(b, config)) BY <2>2, KeyKeeps
  <2> QED BY <1>2, <1>3, <2>1, <2>2, <2>3 DEF ClearKey, SameSetting
<1>5. PICK m : m = LoadManual(k, config) OBVIOUS
<1>6. IsForm(m) /\ SameSetting(k, m)
      BY <1>4, <1>5 DEF LoadManual, IsForm, Controls, SameSetting
<1>7. IsForm(LoadModels(m, config)) /\ SameSetting(m, LoadModels(m, config)) BY <1>6, ModelsKeep
<1> QED BY <1>1, <1>2, <1>3, <1>4, <1>5, <1>6, <1>7 DEF BackendChanged, SameSetting

\* The page shows the backend, the access, the key and the address of a
\* configuration.
Fresh(f, config) ==
    /\ f.key = None
    /\ f.backend = Or(config["optimizer"], "local_llm")
    /\ f.address = Or(config["local_llm.address"], LocalAddress)
    /\ f.auth = Or(config["openai.auth_mode"], "api_key")

\* Choosing the saved model touches nothing else.
LEMMA ChooseKeeps ==
    ASSUME NEW f, IsForm(f), NEW config
    PROVE  IsForm(ChooseSaved(f, config)) /\ SameSetting(f, ChooseSaved(f, config))
<1>1. PICK model : ChooseSaved(f, config) = Choose(Listed(f, model), model) BY DEF ChooseSaved
<1>2. PICK g : g = Listed(f, model) OBVIOUS
<1>3. IsForm(g) /\ SameSetting(f, g)
  <2>1. IsForm(Offer(f, None)) /\ SameSetting(f, Offer(f, None)) BY OfferKeeps
  <2>2. PICK h : h = [f EXCEPT !.box = @ \cup {model}] OBVIOUS
  <2>3. IsForm(h) /\ SameSetting(f, h) BY <2>2 DEF IsForm, Controls, SameSetting
  <2>4. CASE f.backend = "openai" /\ model # None
        BY <1>2, <2>2, <2>3, <2>4 DEF Listed, SameSetting
  <2>5. CASE f.backend = "openai" /\ model = None BY <1>2, <2>1, <2>5 DEF Listed
  <2>6. CASE f.backend # "openai" BY <1>2, <2>6 DEF Listed, SameSetting
  <2> QED BY <2>4, <2>5, <2>6
<1>4. IsForm(Choose(g, model)) /\ SameSetting(g, Choose(g, model))
  <2>1. PICK m : m = CHOOSE n \in Named(g.box, model) : TRUE OBVIOUS
  <2>2. PICK h : h = [g EXCEPT !.chosen = m, !.picked = FALSE] OBVIOUS
  <2>3. IsForm(h) /\ SameSetting(g, h) BY <1>3, <2>2 DEF IsForm, Controls, SameSetting
  <2> QED BY <1>3, <2>1, <2>2, <2>3 DEF Choose, SameSetting
<1> QED BY <1>1, <1>2, <1>3, <1>4 DEF SameSetting

\* Loading the page shows the configuration, whatever was typed before.
LEMMA LoadIsFresh ==
    ASSUME NEW f, IsForm(f), NEW config
    PROVE  IsForm(LoadSettings(f, config)) /\ Fresh(LoadSettings(f, config), config)
<1>1. PICK b : b = LoadBackend(f, config) OBVIOUS
<1>2. IsForm(b) /\ b.backend = Or(config["optimizer"], "local_llm")
  <2>1. PICK g : g = [f EXCEPT !.backend = Or(config["optimizer"], "local_llm")] OBVIOUS
  <2>2. IsForm(g) /\ g.backend = Or(config["optimizer"], "local_llm")
        BY <2>1 DEF IsForm, Controls
  <2>3. IsForm(BackendChanged(g, config)) /\ BackendChanged(g, config).backend = g.backend
        BY <2>2, BackendLoads
  <2> QED BY <1>1, <2>1, <2>2, <2>3 DEF LoadBackend
<1>3. PICK a : a = LoadAddress(b, config) OBVIOUS
<1>4. /\ IsForm(a) /\ a.backend = b.backend
      /\ a.address = Or(config["local_llm.address"], LocalAddress)
  <2>1. PICK g : g = [b EXCEPT !.address = Or(config["local_llm.address"], LocalAddress)] OBVIOUS
  <2>2. /\ IsForm(g) /\ g.backend = b.backend
        /\ g.address = Or(config["local_llm.address"], LocalAddress)
        BY <1>2, <2>1 DEF IsForm, Controls
  <2>3. IsForm(AddressChanged(g)) /\ SameSetting(g, AddressChanged(g)) BY <2>2, AddressKeeps
  <2> QED BY <1>2, <1>3, <2>1, <2>2, <2>3 DEF LoadAddress, SameSetting
<1>5. PICK c : c = BackendChanged(a, config) OBVIOUS
<1>6. /\ IsForm(c) /\ c.backend = a.backend /\ c.address = a.address /\ c.key = None
      /\ c.auth = Or(config["openai.auth_mode"], "api_key")
      BY <1>4, <1>5, BackendLoads
<1>7. IsForm(ChooseSaved(c, config)) /\ SameSetting(c, ChooseSaved(c, config))
      BY <1>6, ChooseKeeps
<1> QED BY <1>1, <1>2, <1>3, <1>4, <1>5, <1>6, <1>7 DEF LoadSettings, Fresh, SameSetting

\* Models that were found change nothing but what the model is.
LEMMA FoundKeeps ==
    ASSUME NEW f, IsForm(f), NEW q, NEW names, NEW config, NEW g \in Found(f, q, names, config)
    PROVE  IsForm(g) /\ SameSetting(f, g)
<1>1. PICK m, models : g = [f EXCEPT !.box = models, !.chosen = m, !.picked = FALSE,
                                     !.models = models, !.modelAddress = q.address]
      BY DEF Found
<1> QED BY <1>1 DEF IsForm, Controls, SameSetting

-----------------------------------------------------------------------------
\* Away from the settings page its controls show what it last loaded.
Left == IsForm(form) /\ (page # "settings" => Fresh(form, loaded))

\* Turning a page.
LEMMA LeaveIsFresh ==
    ASSUME Left, NEW to, NEW config, Leave(to, config)
    PROVE  Left'
<1>1. CASE page = "settings" /\ to # "settings"
      BY <1>1, LoadIsFresh DEF Left, Leave
<1>2. CASE ~(page = "settings" /\ to # "settings")
      BY <1>2 DEF Left, Leave, formVars
<1> QED BY <1>1, <1>2

\* A step that leaves the settings page alone.
LEMMA LeftStays ==
    ASSUME Left, UNCHANGED <<page, form, loaded>>
    PROVE  Left'
BY DEF Left

\* The controls are only edited on the page.
LEMMA EditIsLeft ==
    ASSUME Left, EditAddress \/ EditKey \/ PickBackend \/ PickAuth \/ EditModel \/ CheckConnection
    PROVE  Left'
<1>1. page = "settings" /\ page' = page
      BY DEF EditAddress, EditKey, PickBackend, PickAuth, EditModel, CheckConnection, Editing,
         editFrame
<1>2. SUFFICES IsForm(form') BY <1>1 DEF Left
<1>3. IsForm(form) BY DEF Left
<1>4. CASE EditAddress
  <2>1. PICK a : form' = AddressChanged([form EXCEPT !.address = a]) BY <1>4 DEF EditAddress
  <2>2. PICK g : g = [form EXCEPT !.address = a] OBVIOUS
  <2>3. IsForm(g) BY <1>3, <2>2 DEF IsForm, Controls
  <2> QED BY <2>1, <2>2, <2>3, AddressKeeps
<1>5. CASE EditKey
  <2>1. PICK k : form' = KeyChanged([form EXCEPT !.key = k], known) BY <1>5 DEF EditKey
  <2>2. PICK g : g = [form EXCEPT !.key = k] OBVIOUS
  <2>3. IsForm(g) BY <1>3, <2>2 DEF IsForm, Controls
  <2> QED BY <2>1, <2>2, <2>3, KeyKeeps
<1>6. CASE PickBackend
  <2>1. PICK b : form' = BackendChanged([form EXCEPT !.backend = b], known)
        BY <1>6 DEF PickBackend
  <2>2. PICK g : g = [form EXCEPT !.backend = b] OBVIOUS
  <2>3. IsForm(g) BY <1>3, <2>2 DEF IsForm, Controls
  <2> QED BY <2>1, <2>2, <2>3, BackendLoads
<1>7. CASE PickAuth
  <2>1. PICK a : form' = OpenaiAuthChanged([form EXCEPT !.auth = a], known) BY <1>7 DEF PickAuth
  <2>2. PICK g : g = [form EXCEPT !.auth = a] OBVIOUS
  <2>3. IsForm(g) BY <1>3, <2>2 DEF IsForm, Controls
  <2> QED BY <2>1, <2>2, <2>3, AuthKeeps
<1>8. CASE EditModel
  <2>1. PICK v : \/ form' = [form EXCEPT !.manual = v]
                 \/ form' = [form EXCEPT !.written = v]
                 \/ form' = [form EXCEPT !.chosen = v, !.picked = TRUE]
        BY <1>8 DEF EditModel
  <2> QED BY <1>3, <2>1 DEF IsForm, Controls
<1>9. CASE CheckConnection BY <1>3, <1>9 DEF CheckConnection
<1> QED BY <1>4, <1>5, <1>6, <1>7, <1>8, <1>9

\* The steps of the settings page.
LEMMA SettingsAreLeft ==
    ASSUME Left, SettingsStep
    PROVE  Left'
<1>1. CASE OpenSettings BY <1>1 DEF Left, OpenSettings, formVars
<1>2. CASE CancelSettings BY <1>2, LeaveIsFresh DEF CancelSettings, ShowPage
<1>3. CASE SaveSettings BY <1>3, LeftStays DEF SaveSettings, pageVars, formVars
<1>4. CASE CheckReady
  <2>1. UNCHANGED <<page, loaded>> BY <1>4 DEF CheckReady
  <2>2. form' = form \/ \E q, names : form' \in Found(form, q, names, known)
        BY <1>4 DEF CheckReady
  <2>3. form' = form \/ (IsForm(form') /\ SameSetting(form, form')) BY <2>2, FoundKeeps DEF Left
  <2> QED BY <2>1, <2>2, <2>3 DEF Left, Fresh, SameSetting
<1> QED BY <1>1, <1>2, <1>3, <1>4, EditIsLeft DEF SettingsStep

\* The steps of a request.
LEMMA RequestIsLeft ==
    ASSUME Left, RequestStep
    PROVE  Left'
<1>1. CASE StartOptimization BY <1>1 DEF Left, StartOptimization, formVars
<1>2. CASE CallAnswered
      BY <1>2, LeftStays, LeaveIsFresh DEF CallAnswered, ShowPage, formVars
<1>3. CASE CallRefused \/ SettingsSaved \/ SettingsLoaded \/ JobStarted
      BY <1>3, LeftStays DEF CallRefused, SettingsSaved, SettingsLoaded, JobStarted, quietFrame,
         pageVars, formVars
<1> QED BY <1>1, <1>2, <1>3 DEF RequestStep

\* Every step of the window and of the other processes.
LEMMA NextIsLeft ==
    ASSUME Left, [Next]_vars
    PROVE  Left'
<1>1. CASE ExportStep
  <2>1. CASE OpenExport
        BY <2>1 DEF Left, OpenExport, Gesture, formVars
  <2>2. CASE ~OpenExport
        BY <1>1, <2>2, LeftStays DEF ExportStep, ChangeFormat, ChangeScope, StartExport, ChooseFile,
           TimerPreview, PreviewReady, pageVars, formVars
  <2> QED BY <2>1, <2>2
<1>2. CASE Navigate BY <1>2, LeaveIsFresh DEF Navigate, ShowPage
<1>3. CASE StatusApplied BY <1>3, LeftStays, LeaveIsFresh DEF StatusApplied, formVars
<1>4. CASE OtherStep
      BY <1>4, LeftStays DEF OtherStep, JobOfOther, DaemonRestarts, CliReads, CliReplaces,
         windowVars, pageVars, formVars
<1>5. CASE UNCHANGED vars BY <1>5, LeftStays DEF vars, pageVars, formVars
<1> QED BY <1>1, <1>2, <1>3, <1>4, <1>5, SettingsAreLeft, RequestIsLeft DEF Next

\* The constructor loads the page.
LEMMA InitIsLeft == Init => Left
<1>1. SUFFICES ASSUME Init PROVE Left OBVIOUS
<1>2. IsForm(Blank) BY DEF IsForm, Controls, Blank
<1>3. IsForm(form) /\ Fresh(form, loaded)
      BY <1>1, <1>2, BackendLoads, LoadIsFresh DEF Init
<1> QED BY <1>3 DEF Left

-----------------------------------------------------------------------------
(***************************************************************************)
(* Types                                                                   *)
(***************************************************************************)

Shown == Formats \X Scopes

\* Who is where, and in which pages.
PlacesTyped ==
    /\ ui \in {"idle", "save", "saved", "start", "answered", "poll"}
    /\ {page, from} \subseteq {"settings", "export", "other"}
    /\ busy \in BOOLEAN /\ met \in BOOLEAN

Access == {"api_key", "chatgpt"}
Adapters == {"local_llm", "openai", "dummy"}

\* A configuration, and settings to save, with the values the others rest on.
SoundConfig(c) ==
    /\ DOMAIN c = Settings
    /\ c["optimizer"] \in Adapters \cup {None}
    /\ c["openai.auth_mode"] \in Access \cup {None}
    /\ c["export.format"] \in Formats \cup {None}

SoundValues(v) ==
    /\ "optimizer" \in DOMAIN v => v["optimizer"] \in Adapters
    /\ "openai.auth_mode" \in DOMAIN v => v["openai.auth_mode"] \in Access
    /\ "export.format" \in DOMAIN v => v["export.format"] \in Formats

\* The configurations, and what is on its way into the file.
ConfigsTyped ==
    /\ \A c \in {file, known, workerConfig, saved, loaded} : SoundConfig(c)
    /\ ui = "save" => SoundConfig(call.base) /\ SoundValues(call.values)
    /\ cli # NoSave => SoundConfig(cli.base) /\ SoundValues(cli.values)

\* The settings page.
ControlsTyped == form.backend \in Adapters /\ form.auth \in Access

\* The export page: what is valid is of a format.
ExportTyped ==
    /\ format \in Formats \cup {None} /\ scope \in Scopes
    /\ valid \in BOOLEAN /\ timer \in BOOLEAN
    /\ valid \/ (\E p \in previews : p.fresh) => format # None
    /\ dialog = NoDialog \/ (dialog.format \in Formats /\ dialog.shown \in Shown)

\* The request: there is one exactly while it is on its way.
CallTyped ==
    /\ {call.sent, call.shown} \subseteq Sent
    /\ (call = NoCall) = (ui \in {"idle", "poll"})

Typed == PlacesTyped /\ ConfigsTyped /\ ControlsTyped /\ ExportTyped /\ CallTyped

\* Asking for something.
LEMMA AskIsTyped ==
    ASSUME CallTyped, ui = "idle",
           NEW kind \in {"settings", "optimize", "export"}, NEW values,
           NEW sent \in Sent, NEW showed \in Sent, Ask(kind, values, sent, showed)
    PROVE  CallTyped' /\ ui' \in {"idle", "save", "start"}
<1>1. CASE UNCHANGED requestVars BY <1>1 DEF CallTyped, requestVars
<1>2. CASE /\ ui' = IF values = NoValues THEN "start" ELSE "save"
           /\ call' = [kind |-> kind, values |-> values, base |-> file, sent |-> sent, shown |-> showed]
  <2>1. call'.kind = kind /\ call'.sent = sent /\ call'.shown = showed BY <1>2
  <2>2. call' # NoCall BY <2>1 DEF NoCall
  <2> QED BY <1>2, <2>1, <2>2 DEF CallTyped
<1> QED BY <1>1, <1>2 DEF Ask

\* The steps of the export page and of the preview.
LEMMA RefreshIsTyped ==
    ASSUME ExportTyped, Previewed, NEW f \in Formats \cup {None}, NEW s, RefreshPreview(f, s)
    PROVE  valid' = FALSE /\ ((\E p \in previews' : p.fresh) => f # None)
<1>1. ASSUME NEW p \in Stale(previews) PROVE ~p.fresh
  <2>1. PICK q \in previews : p = [q EXCEPT !.fresh = FALSE] BY DEF Stale
  <2>2. q = [for |-> q.for, fresh |-> q.fresh] BY DEF Previewed, Fitting
  <2>3. p = [for |-> q.for, fresh |-> FALSE] BY <2>1, <2>2
  <2> QED BY <2>3
<1> QED BY <1>1 DEF RefreshPreview

\* Scheduling one makes all others stale.
LEMMA ScheduleIsTyped ==
    ASSUME Previewed, SchedulePreview
    PROVE  valid' = FALSE /\ timer' = TRUE /\ ~\E p \in previews' : p.fresh
<1>1. ASSUME NEW p \in Stale(previews) PROVE ~p.fresh
  <2>1. PICK q \in previews : p = [q EXCEPT !.fresh = FALSE] BY DEF Stale
  <2>2. q = [for |-> q.for, fresh |-> q.fresh] BY DEF Previewed, Fitting
  <2>3. p = [for |-> q.for, fresh |-> FALSE] BY <2>1, <2>2
  <2> QED BY <2>3
<1> QED BY <1>1 DEF SchedulePreview

\* Turning a page.
LEMMA ShowPageIsTyped ==
    ASSUME ExportTyped, Previewed, NEW to, NEW config, ShowPage(to, config),
           UNCHANGED <<format, scope, timer, dialog>>
    PROVE  ExportTyped'
<1>1. CASE RefreshPreview(format, scope) BY <1>1, RefreshIsTyped DEF ExportTyped
<1>2. CASE UNCHANGED previewVars BY <1>2 DEF ExportTyped, previewVars
<1> QED BY <1>1, <1>2 DEF ShowPage

\* What the steps do to the places.
LEMMA PlacesStay ==
    ASSUME Typed, [Next]_vars
    PROVE  /\ page' \in {"settings", "export", "other"} /\ from' \in {"settings", "export", "other"}
           /\ busy' \in BOOLEAN /\ met' \in BOOLEAN
<1>0. /\ page \in {"settings", "export", "other"} /\ from \in {"settings", "export", "other"}
      /\ busy \in BOOLEAN /\ met \in BOOLEAN
      BY DEF Typed, PlacesTyped
<1>1. CASE OpenSettings BY <1>0, <1>1 DEF OpenSettings, pageFrame, idleFrame, fileVars, otherVars
<1>2. CASE CancelSettings \/ Navigate
      BY <1>0, <1>2 DEF CancelSettings, Navigate, ShowPage, Leave, pageFrame, idleFrame, fileVars,
         otherVars
<1>3. CASE SaveSettings \/ StartOptimization
      BY <1>0, <1>3 DEF SaveSettings, StartOptimization, pageVars, idleFrame, fileVars, otherVars
<1>4. CASE EditAddress \/ EditKey \/ PickBackend \/ PickAuth \/ EditModel \/ CheckConnection
      BY <1>0, <1>4 DEF EditAddress, EditKey, PickBackend, PickAuth, EditModel, CheckConnection,
         editFrame, pageFrame, idleFrame, fileVars, otherVars
<1>5. CASE CheckReady \/ PreviewReady \/ TimerPreview
      BY <1>0, <1>5 DEF CheckReady, PreviewReady, TimerPreview, eventFrame, fileVars, otherVars
<1>6. CASE OpenExport \/ ChangeFormat \/ ChangeScope \/ StartExport \/ ChooseFile
      BY <1>0, <1>6 DEF OpenExport, ChangeFormat, ChangeScope, StartExport, ChooseFile, pageVars,
         pageFrame, idleFrame, fileVars, otherVars
<1>7. CASE StatusApplied
      BY <1>0, <1>7 DEF StatusApplied, Leave, eventFrame, fileVars, otherVars
<1>8. CASE CallRefused \/ SettingsSaved \/ SettingsLoaded \/ JobStarted
      BY <1>0, <1>8 DEF CallRefused, SettingsSaved, SettingsLoaded, JobStarted, quietFrame, pageVars,
         fileVars
<1>9. CASE CallAnswered
      BY <1>0, <1>9 DEF CallAnswered, ShowPage, Leave, fileVars, otherVars
<1>10. CASE OtherStep
       BY <1>0, <1>10 DEF OtherStep, JobOfOther, DaemonRestarts, CliReads, CliReplaces, windowVars,
          pageVars, fileVars
<1>11. CASE UNCHANGED vars BY <1>0, <1>11 DEF vars, pageVars, fileVars, otherVars
<1> QED BY <1>1, <1>2, <1>3, <1>4, <1>5, <1>6, <1>7, <1>8, <1>9, <1>10, <1>11
        DEF Next, SettingsStep, ExportStep, RequestStep

\* Saving sound settings leaves a configuration sound.
LEMMA MergeIsSound ==
    ASSUME NEW base, NEW values, SoundConfig(base), SoundValues(values)
    PROVE  SoundConfig(Merge(base, values))
<1>1. {"optimizer", "openai.auth_mode", "export.format"} \subseteq Settings BY DEF Settings
<1> QED BY <1>1 DEF Merge, SoundConfig, SoundValues

\* What the page sends is sound.
LEMMA SentIsSound ==
    ASSUME ControlsTyped
    PROVE  SoundValues(ProviderSettings(form))
<1>1. PICK v : v = ProviderSettings(form) OBVIOUS
<1>2. "export.format" \notin SentSettings(form) /\ DOMAIN v = SentSettings(form)
      BY <1>1 DEF ProviderSettings, SentSettings, ModelKey, ManualKey, ControlsTyped, Adapters, Access
<1>3. "optimizer" \in DOMAIN v => v["optimizer"] = form.backend BY <1>1 DEF ProviderSettings, ManualSettings, ModelSettings
<1>4. "openai.auth_mode" \in DOMAIN v => v["openai.auth_mode"] = form.auth
      BY <1>1 DEF ProviderSettings, ManualSettings, ModelSettings
<1> QED BY <1>1, <1>2, <1>3, <1>4 DEF SoundValues, ControlsTyped

\* A step that leaves what was saved and what is to be saved alone.
LEMMA ConfigsKept ==
    ASSUME ConfigsTyped, UNCHANGED <<file, known, workerConfig, saved, cli>>,
           loaded' \in {loaded, known, file}, ui' = "save" => ui = "save" /\ call' = call
    PROVE  ConfigsTyped'
BY DEF ConfigsTyped

\* A new request.
LEMMA AskIsSound ==
    ASSUME ConfigsTyped, UNCHANGED <<file, known, workerConfig, saved, cli, loaded>>, ui = "idle",
           NEW kind, NEW values, NEW sent, NEW showed, Ask(kind, values, sent, showed),
           values = NoValues \/ SoundValues(values)
    PROVE  ConfigsTyped'
<1>1. CASE UNCHANGED requestVars BY <1>1, ConfigsKept DEF requestVars
<1>2. CASE /\ ui' = IF values = NoValues THEN "start" ELSE "save"
           /\ call' = [kind |-> kind, values |-> values, base |-> file, sent |-> sent, shown |-> showed]
  <2>1. call'.base = file /\ call'.values = values BY <1>2
  <2> QED BY <1>2, <2>1 DEF ConfigsTyped
<1> QED BY <1>1, <1>2 DEF Ask

\* What a step makes of the configuration last loaded.
LEMMA LeaveLoads ==
    ASSUME NEW to, NEW config, Leave(to, config)
    PROVE  loaded' \in {loaded, config}
BY DEF Leave, formVars

\* What the steps do to the configurations.
LEMMA ConfigsStay ==
    ASSUME Typed, [Next]_vars
    PROVE  ConfigsTyped'
<1>0. ConfigsTyped /\ ControlsTyped BY DEF Typed
<1>1. CASE SaveSettings
  <2>1. UNCHANGED <<file, known, workerConfig, saved, cli, loaded>> /\ ui = "idle"
        BY <1>1 DEF SaveSettings, pageVars, formVars, idleFrame, fileVars, otherVars, Gesture, Free
  <2> QED BY <1>0, <1>1, <2>1, SentIsSound, AskIsSound DEF SaveSettings
<1>2. CASE StartOptimization
  <2>1. UNCHANGED <<file, known, workerConfig, saved, cli, loaded>> /\ ui = "idle"
        BY <1>2 DEF StartOptimization, formVars, idleFrame, fileVars, otherVars, Gesture, Free
  <2>2. CASE UNCHANGED requestVars BY <1>0, <2>1, <2>2, ConfigsKept DEF requestVars
  <2>3. CASE Ask("optimize", ProviderSettings(form), None, None)
        BY <1>0, <2>1, <2>3, SentIsSound, AskIsSound
  <2> QED BY <1>2, <2>2, <2>3 DEF StartOptimization
<1>3. CASE ChooseFile
  <2>1. UNCHANGED <<file, known, workerConfig, saved, cli, loaded>> /\ ui = "idle"
        BY <1>3 DEF ChooseFile, pageVars, formVars, idleFrame, fileVars, otherVars, Free
  <2>2. CASE UNCHANGED requestVars BY <1>0, <2>1, <2>2, ConfigsKept DEF requestVars
  <2>3. ASSUME NEW remember \in BOOLEAN,
               Ask("export", IF remember THEN Only("export.format", dialog.format) ELSE NoValues,
                   <<dialog.format, scope>>, dialog.shown)
        PROVE  ConfigsTyped'
    <3>1. dialog.format \in Formats BY <1>3 DEF ChooseFile, Typed, ExportTyped
    <3>2. SoundValues(Only("export.format", dialog.format)) BY <3>1 DEF SoundValues, Only
    <3> QED BY <1>0, <2>1, <2>3, <3>2, AskIsSound
  <2> QED BY <1>3, <2>2, <2>3 DEF ChooseFile
<1>4. CASE SettingsStep /\ ~SaveSettings
  <2>1. UNCHANGED <<file, known, workerConfig, saved, cli, ui, call>>
        BY <1>4 DEF SettingsStep, OpenSettings, CancelSettings, EditAddress, EditKey, PickBackend,
           PickAuth, EditModel, CheckConnection, CheckReady, editFrame, pageFrame, idleFrame,
           eventFrame, requestVars, fileVars, otherVars
  <2>2. loaded' \in {loaded, known}
        BY <1>4, LeaveLoads DEF SettingsStep, OpenSettings, CancelSettings, EditAddress, EditKey,
           PickBackend, PickAuth, EditModel, CheckConnection, CheckReady, editFrame, ShowPage,
           formVars
  <2> QED BY <1>0, <2>1, <2>2, ConfigsKept
<1>5. CASE ExportStep /\ ~ChooseFile
      BY <1>0, <1>5, ConfigsKept DEF ExportStep, OpenExport, ChangeFormat, ChangeScope, StartExport,
         TimerPreview, PreviewReady, pageVars, formVars, pageFrame, idleFrame, eventFrame,
         requestVars, fileVars, otherVars
<1>6. CASE CallRefused \/ JobStarted
      BY <1>0, <1>6, ConfigsKept DEF CallRefused, JobStarted, quietFrame, pageVars, formVars, fileVars
<1>7. CASE SettingsLoaded
      BY <1>0, <1>7 DEF ConfigsTyped, SettingsLoaded, quietFrame, pageVars, formVars, fileVars
<1>8. CASE SettingsSaved
  <2>1. /\ ui = "save" /\ ui' = "saved" /\ UNCHANGED <<known, workerConfig, loaded, cli>>
        /\ file' = Merge(call.base, call.values) /\ saved' = Merge(saved, call.values)
        BY <1>8 DEF SettingsSaved, Replace, quietFrame, pageVars, formVars
  <2>2. SoundConfig(file') /\ SoundConfig(saved')
        BY <1>0, <2>1, MergeIsSound DEF ConfigsTyped
  <2> QED BY <1>0, <2>1, <2>2 DEF ConfigsTyped
<1>9. CASE CallAnswered
  <2>1. /\ known' \in {known, file} /\ UNCHANGED <<file, saved, workerConfig, cli>>
        /\ ui' \in {"idle", "poll"}
        BY <1>9 DEF CallAnswered, fileVars, otherVars
  <2>2. loaded' \in {loaded, file} BY <1>9, LeaveLoads DEF CallAnswered, ShowPage, formVars
  <2> QED BY <1>0, <2>1, <2>2 DEF ConfigsTyped
<1>10. CASE Navigate
      BY <1>0, <1>10, ConfigsKept, LeaveLoads DEF Navigate, ShowPage, pageFrame, idleFrame,
         requestVars, fileVars, otherVars
<1>11. CASE StatusApplied
  <2>1. UNCHANGED <<file, known, workerConfig, saved, cli>> /\ ui' = "idle"
        BY <1>11 DEF StatusApplied, eventFrame, fileVars, otherVars
  <2>2. loaded' \in {loaded, known} BY <1>11, LeaveLoads DEF StatusApplied, formVars
  <2> QED BY <1>0, <2>1, <2>2, ConfigsKept
<1>12. CASE CliReads
  <2>1. UNCHANGED <<file, known, workerConfig, saved, loaded, ui, call>>
        BY <1>12 DEF CliReads, windowVars, requestVars, pageVars, formVars, fileVars
  <2>2. PICK s \in CliSettings : \E value \in CliValues(s) :
            cli' = [base |-> file, values |-> Only(s, value)]
        BY <1>12 DEF CliReads
  <2>3. PICK value \in CliValues(s) : cli' = [base |-> file, values |-> Only(s, value)] BY <2>2
  <2>4. SoundValues(Only(s, value))
        BY PagesAssumption, FormAssumption DEF SoundValues, Only, CliValues, Adapters
  <2>5. cli'.base = file /\ cli'.values = Only(s, value) BY <2>3
  <2> QED BY <1>0, <2>1, <2>4, <2>5 DEF ConfigsTyped
<1>13. CASE CliReplaces
  <2>1. /\ cli # NoSave /\ cli' = NoSave /\ UNCHANGED <<known, workerConfig, loaded, ui, call>>
        /\ file' = Merge(cli.base, cli.values) /\ saved' = Merge(saved, cli.values)
        BY <1>13 DEF CliReplaces, Replace, windowVars, requestVars, pageVars, formVars
  <2>2. SoundConfig(file') /\ SoundConfig(saved')
        BY <1>0, <2>1, MergeIsSound DEF ConfigsTyped
  <2> QED BY <1>0, <2>1, <2>2 DEF ConfigsTyped
<1>14. CASE JobOfOther
      BY <1>0, <1>14, ConfigsKept DEF JobOfOther, windowVars, requestVars, pageVars, formVars, fileVars
<1>15. CASE DaemonRestarts
      BY <1>0, <1>15 DEF ConfigsTyped, DaemonRestarts, windowVars, requestVars, pageVars, formVars,
         fileVars
<1>16. CASE UNCHANGED vars
      BY <1>0, <1>16, ConfigsKept DEF vars, requestVars, pageVars, formVars, fileVars, otherVars
<1> QED BY <1>1, <1>2, <1>3, <1>4, <1>5, <1>6, <1>7, <1>8, <1>9, <1>10, <1>11, <1>12, <1>13, <1>14,
           <1>15, <1>16 DEF Next, RequestStep, OtherStep

\* A step that leaves the export page alone.
LEMMA ExportStays ==
    ASSUME ExportTyped, UNCHANGED <<format, scope, valid, previews, timer, dialog>>
    PROVE  ExportTyped'
BY DEF ExportTyped

\* What the export page's own steps do to it.
LEMMA ExportStepIsTyped ==
    ASSUME ExportTyped, Previewed, ExportStep
    PROVE  ExportTyped'
<1>0. None \notin Formats /\ Shown = Formats \X Scopes BY FormAssumption DEF Shown
<1>1. CASE OpenExport
  <2>1. /\ RefreshPreview(format, scope') /\ scope' \in Scopes /\ UNCHANGED <<format, timer, dialog>>
        BY <1>1 DEF OpenExport, pageFrame
  <2>2. format \in Formats \cup {None} BY DEF ExportTyped
  <2>3. valid' = FALSE /\ ((\E p \in previews' : p.fresh) => format # None)
        BY <2>1, <2>2, RefreshIsTyped
  <2> QED BY <2>1, <2>3 DEF ExportTyped
<1>2. CASE ChangeFormat
  <2>1. SchedulePreview /\ format' \in Formats \cup {None} /\ UNCHANGED <<scope, dialog>>
        BY <1>2 DEF ChangeFormat, pageFrame
  <2>2. valid' = FALSE /\ timer' = TRUE /\ ~\E p \in previews' : p.fresh BY <2>1, ScheduleIsTyped
  <2> QED BY <2>1, <2>2 DEF ExportTyped
<1>3. CASE ChangeScope
  <2>1. /\ RefreshPreview(format, scope') /\ scope' \in Scopes /\ UNCHANGED <<format, timer, dialog>>
        BY <1>3 DEF ChangeScope, pageFrame
  <2>2. format \in Formats \cup {None} BY DEF ExportTyped
  <2>3. valid' = FALSE /\ ((\E p \in previews' : p.fresh) => format # None)
        BY <2>1, <2>2, RefreshIsTyped
  <2> QED BY <2>1, <2>3 DEF ExportTyped
<1>4. CASE StartExport
  <2>1. /\ valid /\ UNCHANGED <<format, scope, valid, previews, timer>>
        /\ dialog' = [format |-> format, shown |-> shown]
        BY <1>4 DEF StartExport, exportVars, previewVars
  <2>2. format \in Formats /\ shown = <<format, scope>> /\ scope \in Scopes
        BY <2>1 DEF ExportTyped, Previewed, PreviewFits
  <2>3. dialog'.format = format /\ dialog'.shown = shown BY <2>1
  <2> QED BY <1>0, <2>1, <2>2, <2>3 DEF ExportTyped
<1>5. CASE ChooseFile
  <2>1. dialog' = NoDialog /\ UNCHANGED <<format, scope, valid, previews, timer>>
        BY <1>5 DEF ChooseFile, exportVars, previewVars
  <2> QED BY <2>1 DEF ExportTyped, NoDialog
<1>6. CASE TimerPreview
  <2>1. RefreshPreview(format, scope) /\ timer' = FALSE /\ UNCHANGED <<format, scope, dialog>>
        BY <1>6 DEF TimerPreview, eventFrame
  <2>2. format \in Formats \cup {None} BY DEF ExportTyped
  <2>3. valid' = FALSE /\ ((\E p \in previews' : p.fresh) => format # None)
        BY <2>1, <2>2, RefreshIsTyped
  <2> QED BY <2>1, <2>3 DEF ExportTyped
<1>7. CASE PreviewReady
  <2>1. UNCHANGED <<format, scope, timer, dialog>> BY <1>7 DEF PreviewReady, eventFrame
  <2>2. PICK p \in previews :
           /\ previews' = previews \ {p}
           /\ \/ p.fresh /\ valid' \in BOOLEAN
              \/ ~p.fresh /\ UNCHANGED valid
        BY <1>7 DEF PreviewReady
  <2> QED BY <2>1, <2>2 DEF ExportTyped
<1> QED BY <1>1, <1>2, <1>3, <1>4, <1>5, <1>6, <1>7 DEF ExportStep

\* What every step does to the export page.
LEMMA ExportStaysTyped ==
    ASSUME Typed, Previewed, [Next]_vars
    PROVE  ExportTyped'
<1>0. ExportTyped BY DEF Typed
<1>1. CASE CancelSettings
      BY <1>0, <1>1, ShowPageIsTyped DEF CancelSettings, pageFrame
<1>2. CASE Navigate
      BY <1>0, <1>2, ShowPageIsTyped DEF Navigate, pageFrame
<1>3. CASE CallAnswered
  <2>1. UNCHANGED <<format, scope, timer, dialog>> BY <1>3 DEF CallAnswered
  <2>2. CASE ShowPage(from, file) BY <1>0, <2>1, <2>2, ShowPageIsTyped
  <2>3. CASE UNCHANGED previewVars BY <1>0, <2>1, <2>3, ExportStays DEF previewVars
  <2> QED BY <1>3, <2>2, <2>3 DEF CallAnswered
<1>4. CASE StatusApplied
  <2>1. UNCHANGED <<scope, dialog>> BY <1>4 DEF StatusApplied, eventFrame
  <2>2. CASE SchedulePreview /\ \E f \in Formats : format' = Or(known["export.format"], f)
    <3>1. valid' = FALSE /\ timer' = TRUE /\ ~\E p \in previews' : p.fresh
          BY <2>2, ScheduleIsTyped
    <3>2. format' \in Formats \cup {None}
          BY <1>0, <2>2 DEF Typed, ConfigsTyped, SoundConfig, Or
    <3> QED BY <1>0, <2>1, <3>1, <3>2 DEF ExportTyped
  <2>3. CASE UNCHANGED <<format, previewVars, timer>>
        BY <1>0, <2>1, <2>3, ExportStays DEF previewVars
  <2> QED BY <1>4, <2>2, <2>3 DEF StatusApplied
<1>5. CASE SettingsStep /\ ~CancelSettings
      BY <1>0, <1>5, ExportStays DEF SettingsStep, OpenSettings, SaveSettings, EditAddress, EditKey,
         PickBackend, PickAuth, EditModel, CheckConnection, CheckReady, editFrame, pageFrame,
         eventFrame, exportVars, previewVars
<1>6. CASE RequestStep /\ ~CallAnswered
      BY <1>0, <1>6, ExportStays DEF RequestStep, StartOptimization, CallRefused, SettingsSaved,
         SettingsLoaded, JobStarted, callFrame, exportVars, previewVars
<1>7. CASE OtherStep
      BY <1>0, <1>7, ExportStays DEF OtherStep, JobOfOther, DaemonRestarts, CliReads, CliReplaces,
         windowVars, exportVars, previewVars
<1>8. CASE UNCHANGED vars BY <1>0, <1>8, ExportStays DEF vars, exportVars, previewVars
<1> QED BY <1>0, <1>1, <1>2, <1>3, <1>4, <1>5, <1>6, <1>7, <1>8, ExportStepIsTyped DEF Next

\* A request that is neither begun nor over.
LEMMA CallStays ==
    ASSUME CallTyped, call' = call, (ui' \in {"idle", "poll"}) = (ui \in {"idle", "poll"})
    PROVE  CallTyped'
BY DEF CallTyped

\* What the steps do to the request.
LEMMA CallStaysTyped ==
    ASSUME Typed, [Next]_vars
    PROVE  CallTyped' /\ ui' \in {"idle", "save", "saved", "start", "answered", "poll"}
<1> DEFINE Places == {"idle", "save", "saved", "start", "answered", "poll"}
<1>0. CallTyped /\ ui \in Places /\ None \in Sent BY DEF Typed, PlacesTyped, Sent
<1>1. CASE SaveSettings
      BY <1>0, <1>1, AskIsTyped DEF SaveSettings, Gesture, Free
<1>2. CASE StartOptimization
  <2>1. ui = "idle" BY <1>2 DEF StartOptimization, Gesture, Free
  <2>2. CASE UNCHANGED requestVars BY <1>0, <2>2, CallStays DEF requestVars
  <2>3. CASE Ask("optimize", ProviderSettings(form), None, None)
        BY <1>0, <2>1, <2>3, AskIsTyped
  <2> QED BY <1>2, <2>2, <2>3 DEF StartOptimization
<1>3. CASE ChooseFile
  <2>1. ui = "idle" BY <1>3 DEF ChooseFile, Free
  <2>2. CASE UNCHANGED requestVars BY <1>0, <2>2, CallStays DEF requestVars
  <2>3. <<dialog.format, scope>> \in Sent /\ dialog.shown \in Sent
        BY <1>3 DEF ChooseFile, Typed, ExportTyped, Sent, Shown
  <2>4. CASE \E remember \in BOOLEAN :
                 Ask("export", IF remember THEN Only("export.format", dialog.format) ELSE NoValues,
                     <<dialog.format, scope>>, dialog.shown)
        BY <1>0, <2>1, <2>3, <2>4, AskIsTyped
  <2> QED BY <1>3, <2>2, <2>4 DEF ChooseFile
<1>4. CASE CallRefused
      BY <1>4 DEF CallRefused, CallTyped, NoCall, Sent
<1>5. CASE SettingsSaved \/ SettingsLoaded \/ JobStarted
  <2>1. /\ ui \in {"save", "saved", "start"} /\ ui' \in {"saved", "answered", "start"}
        /\ call' = call
        BY <1>5 DEF SettingsSaved, SettingsLoaded, JobStarted
  <2> QED BY <1>0, <2>1, CallStays
<1>6. CASE CallAnswered
      BY <1>6 DEF CallAnswered, CallTyped, NoCall, Sent
<1>7. CASE SettingsStep /\ ~SaveSettings
      BY <1>0, <1>7, CallStays DEF SettingsStep, OpenSettings, CancelSettings, EditAddress, EditKey,
         PickBackend, PickAuth, EditModel, CheckConnection, CheckReady, editFrame, pageFrame,
         requestVars
<1>8. CASE ExportStep /\ ~ChooseFile
      BY <1>0, <1>8, CallStays DEF ExportStep, OpenExport, ChangeFormat, ChangeScope, StartExport,
         TimerPreview, PreviewReady, pageFrame, requestVars
<1>9. CASE Navigate BY <1>0, <1>9, CallStays DEF Navigate, pageFrame, requestVars
<1>10. CASE StatusApplied BY <1>0, <1>10, CallStays DEF StatusApplied
<1>11. CASE OtherStep
       BY <1>0, <1>11, CallStays DEF OtherStep, JobOfOther, DaemonRestarts, CliReads, CliReplaces,
          windowVars, requestVars
<1>12. CASE UNCHANGED vars BY <1>0, <1>12, CallStays DEF vars, requestVars
<1> QED BY <1>1, <1>2, <1>3, <1>4, <1>5, <1>6, <1>7, <1>8, <1>9, <1>10, <1>11, <1>12
        DEF Next, RequestStep

\* What they do to the two controls the others rest on.
LEMMA ControlsStay ==
    ASSUME Typed, Left, [Next]_vars
    PROVE  ControlsTyped'
<1>0. ControlsTyped /\ IsForm(form) /\ SoundConfig(file) /\ SoundConfig(known)
      BY DEF Typed, ConfigsTyped, Left
<1>1. ASSUME NEW to, NEW config, SoundConfig(config), Leave(to, config)
      PROVE  ControlsTyped'
  <2>1. CASE form' = LoadSettings(form, config)
        BY ZenonT(30), <1>0, <1>1, <2>1, LoadIsFresh
           DEF Fresh, Or, SoundConfig, ControlsTyped, Adapters, Access
  <2>2. CASE UNCHANGED formVars BY <1>0, <2>2 DEF formVars, ControlsTyped
  <2> QED BY <1>1, <2>1, <2>2 DEF Leave
<1>2. CASE UNCHANGED form BY <1>0, <1>2 DEF ControlsTyped
<1>3. CASE CancelSettings \/ Navigate
      BY <1>0, <1>1, <1>3 DEF CancelSettings, Navigate, ShowPage
<1>4. CASE CallAnswered
      BY <1>0, <1>1, <1>2, <1>4 DEF CallAnswered, ShowPage, formVars
<1>5. CASE StatusApplied BY <1>0, <1>1, <1>2, <1>5 DEF StatusApplied, formVars
<1>6. CASE EditAddress
  <2>1. PICK a : form' = AddressChanged([form EXCEPT !.address = a]) BY <1>6 DEF EditAddress
  <2>2. PICK g : g = [form EXCEPT !.address = a] OBVIOUS
  <2>3. IsForm(g) /\ g.backend = form.backend /\ g.auth = form.auth
        BY <1>0, <2>2 DEF IsForm, Controls
  <2> QED BY <1>0, <2>1, <2>2, <2>3, AddressKeeps DEF SameSetting, ControlsTyped
<1>7. CASE EditKey
  <2>1. PICK k : form' = KeyChanged([form EXCEPT !.key = k], known) BY <1>7 DEF EditKey
  <2>2. PICK g : g = [form EXCEPT !.key = k] OBVIOUS
  <2>3. IsForm(g) /\ g.backend = form.backend /\ g.auth = form.auth
        BY <1>0, <2>2 DEF IsForm, Controls
  <2> QED BY <1>0, <2>1, <2>2, <2>3, KeyKeeps DEF SameSetting, ControlsTyped
<1>8. CASE PickBackend
  <2>1. PICK b \in Backends : form' = BackendChanged([form EXCEPT !.backend = b], known)
        BY <1>8 DEF PickBackend
  <2>2. PICK g : g = [form EXCEPT !.backend = b] OBVIOUS
  <2>3. IsForm(g) /\ g.backend = b BY <1>0, <2>2 DEF IsForm, Controls
  <2>4. form'.backend = b /\ form'.auth = Or(known["openai.auth_mode"], "api_key")
        BY <2>1, <2>2, <2>3, BackendLoads
  <2> QED BY <1>0, <2>4, FormAssumption DEF ControlsTyped, SoundConfig, Or, Adapters, Access
<1>9. CASE PickAuth
  <2>1. PICK a \in {"api_key", "chatgpt"} :
            form' = OpenaiAuthChanged([form EXCEPT !.auth = a], known)
        BY <1>9 DEF PickAuth
  <2>2. PICK g : g = [form EXCEPT !.auth = a] OBVIOUS
  <2>3. IsForm(g) /\ g.backend = form.backend /\ g.auth = a
        BY <1>0, <2>2 DEF IsForm, Controls
  <2> QED BY <1>0, <2>1, <2>2, <2>3, AuthKeeps DEF SameSetting, ControlsTyped, Access
<1>10. CASE EditModel
  <2>1. PICK v : \/ form' = [form EXCEPT !.manual = v]
                 \/ form' = [form EXCEPT !.written = v]
                 \/ form' = [form EXCEPT !.chosen = v, !.picked = TRUE]
        BY <1>10 DEF EditModel
  <2> QED BY <1>0, <2>1 DEF IsForm, Controls, ControlsTyped
<1>11. CASE CheckReady
  <2>1. form' = form \/ \E q, names : form' \in Found(form, q, names, known)
        BY <1>11 DEF CheckReady
  <2>2. form' = form \/ SameSetting(form, form') BY <1>0, <2>1, FoundKeeps
  <2> QED BY <1>0, <2>1, <2>2 DEF SameSetting, ControlsTyped
<1>12. CASE OpenSettings \/ SaveSettings \/ CheckConnection
       BY <1>2, <1>12 DEF OpenSettings, SaveSettings, CheckConnection, pageVars, formVars
<1>13. CASE ExportStep
       BY <1>2, <1>13 DEF ExportStep, OpenExport, ChangeFormat, ChangeScope, StartExport,
          ChooseFile, TimerPreview, PreviewReady, pageVars, formVars
<1>14. CASE RequestStep /\ ~CallAnswered
       BY <1>2, <1>14 DEF RequestStep, StartOptimization, CallRefused, SettingsSaved,
          SettingsLoaded, JobStarted, quietFrame, pageVars, formVars
<1>15. CASE OtherStep
       BY <1>2, <1>15 DEF OtherStep, JobOfOther, DaemonRestarts, CliReads, CliReplaces, windowVars,
          pageVars, formVars
<1>16. CASE UNCHANGED vars BY <1>2, <1>16 DEF vars, pageVars, formVars
<1> QED BY <1>3, <1>4, <1>5, <1>6, <1>7, <1>8, <1>9, <1>10, <1>11, <1>12, <1>13, <1>14, <1>15, <1>16
        DEF Next, SettingsStep

\* The constructor.
LEMMA InitIsTyped == Init => Typed
<1> SUFFICES ASSUME Init PROVE Typed OBVIOUS
<1>1. PICK b \in Backends : file = Merge(Empty, Only("optimizer", b)) BY DEF Init
<1>2. SoundConfig(Empty) BY DEF SoundConfig, Empty, Settings
<1>3. SoundValues(Only("optimizer", b)) BY FormAssumption DEF SoundValues, Only, Adapters
<1>4. SoundConfig(file) BY <1>1, <1>2, <1>3, MergeIsSound
<1>5. ConfigsTyped BY <1>4 DEF Init, ConfigsTyped
<1>6. ControlsTyped
  <2>1. IsForm(Blank) BY DEF IsForm, Controls, Blank
  <2>2. Fresh(form, file) BY <2>1, BackendLoads, LoadIsFresh DEF Init
  <2> QED BY <1>4, <2>2 DEF Fresh, Or, SoundConfig, ControlsTyped, Adapters, Access
<1>7. ExportTyped
  <2>1. DefaultFormat \in Formats BY PagesAssumption DEF DefaultFormat
  <2> QED BY <2>1 DEF Init, ExportTyped, Scopes
<1>8. CallTyped BY DEF Init, CallTyped, NoCall, Sent
<1>9. PlacesTyped BY DEF Init, PlacesTyped
<1> QED BY <1>5, <1>6, <1>7, <1>8, <1>9 DEF Typed

\* Every step.
LEMMA NextIsTyped ==
    ASSUME Typed, Previewed, Left, [Next]_vars
    PROVE  Typed'
BY PlacesStay, ConfigsStay, ControlsStay, ExportStaysTyped, CallStaysTyped DEF Typed, PlacesTyped

\* For every set of addresses, keys and formats: the pages, the requests and
\* the configurations have the values they are to have.
THEOREM PagesTypes == Spec => []TypeOK
<1>1. Typed => TypeOK
      BY DEF Typed, PlacesTyped, ConfigsTyped, SoundConfig, ExportTyped, CallTyped, TypeOK
<1> QED BY <1>1, InitIsTyped, InitIsPreviewed, NextIsPreviewed, InitIsLeft, NextIsLeft, NextIsTyped,
           PTL DEF Spec

-----------------------------------------------------------------------------
(***************************************************************************)
(* The models of the settings page                                         *)
(***************************************************************************)

\* A model of the setting s that nobody had to offer, or that was saved once.
Settled(m, s, once) == m.setting = s /\ (m.at \in {"typed", "default"} \/ m \in once)

\* One that a page may list: it was offered for what the page has now.
Offered(m, f, c, once, any) ==
    \/ Settled(m, ModelKey(f), once)
    \/ m.setting = ModelKey(f) /\ m.at = Query(f, c).at
    \/ any /\ m.setting = ModelKey(f)

\* The list, and what is chosen from it.  A local server's may be out of date
\* until it is checked again.
Listing(f, c, once, any) ==
    /\ f.chosen = None \/ f.chosen \in f.box
    /\ f.backend = "local_llm" /\ f.models # {} =>
           f.modelAddress = f.address /\ f.chosen \in f.box
    /\ f.backend = "openai" \/ f.models # {} => \A m \in f.box : Offered(m, f, c, once, any)

Fits(f, c, once, any) ==
    /\ f.modelBackend = ModelKey(f)
    /\ f.key # None => f.backend = "openai"
    /\ f.written = None \/ Settled(f.written, ModelKey(f), once)
    /\ Listing(f, c, once, any)

\* What a configuration has for models was saved, and ChatGPT has one.
KnownModels(c, once) ==
    /\ \A s \in ModelSettings : c[s] = None \/ Settled(c[s], s, once)
    /\ Or(c["openai.auth_mode"], "api_key") = "chatgpt" => c["openai.chatgpt_model"] # None

Placed(f) == IsForm(f) /\ f.backend \in Adapters /\ f.auth \in Access

\* The setting the model of a page is for.
LEMMA ModelKeys ==
    ASSUME NEW f, Placed(f)
    PROVE  /\ f.backend = "local_llm" => ModelKey(f) = "local_llm.model"
           /\ f.backend = "dummy" => ModelKey(f) = "dummy.model"
           /\ f.backend = "openai" /\ f.auth = "api_key" => ModelKey(f) = "openai.model"
           /\ f.backend = "openai" /\ f.auth = "chatgpt" => ModelKey(f) = "openai.chatgpt_model"
BY DEF Placed, Adapters, Access, ModelKey

\* It depends on the other settings only, and so does what a check asks for.
LEMMA SameKeys ==
    ASSUME NEW f, NEW g, NEW c, SameSetting(f, g)
    PROVE  ModelKey(g) = ModelKey(f) /\ Query(g, c) = Query(f, c)
BY DEF SameSetting, ModelKey, Query

\* What a check asks for.
LEMMA Queries ==
    ASSUME NEW f, NEW c, Placed(f)
    PROVE  /\ Query(f, c).setting = ModelKey(f) /\ Query(f, c).address = f.address
           /\ f.backend = "openai" /\ f.auth = "api_key" =>
                  Query(f, c).at = Or(Or(f.key, c["openai.api_key"]), "environment")
           /\ f.backend = "openai" /\ f.auth = "chatgpt" => Query(f, c).at = "account"
           /\ f.backend # "openai" => Query(f, c).at = f.address
<1>1. Query(f, c).setting = ModelKey(f) /\ Query(f, c).address = f.address BY DEF Query
<1>2. Query(f, c).at = CASE ModelKey(f) = "openai.chatgpt_model" -> "account"
                         [] ModelKey(f) = "openai.model" ->
                                Or(Or(f.key, c["openai.api_key"]), "environment")
                         [] OTHER -> f.address
      BY DEF Query
<1>3. CASE f.backend = "openai" /\ f.auth = "api_key"
  <2>1. ModelKey(f) = "openai.model" BY <1>3, ModelKeys
  <2> QED BY <1>1, <1>2, <1>3, <2>1 DEF Access
<1>4. CASE f.backend = "openai" /\ f.auth = "chatgpt"
  <2>1. ModelKey(f) = "openai.chatgpt_model" BY <1>4, ModelKeys
  <2> QED BY <1>1, <1>2, <1>4, <2>1
<1>5. CASE f.backend # "openai"
  <2>1. ModelKey(f) # "openai.chatgpt_model" /\ ModelKey(f) # "openai.model"
        BY <1>5, ModelKeys DEF Placed, Adapters
  <2> QED BY <1>1, <1>2, <1>5, <2>1
<1> QED BY <1>3, <1>4, <1>5 DEF Placed, Access

\* The saved model of a setting; the demonstration has none.
LEMMA SavedIsSettled ==
    ASSUME NEW f, Placed(f), NEW c, NEW once, KnownModels(c, once)
    PROVE  LET m == Saved(ModelKey(f), c) IN m = None \/ Settled(m, ModelKey(f), once)
<1>1. CASE f.backend = "dummy"
  <2>1. ModelKey(f) \notin Settings BY <1>1, ModelKeys DEF Settings, ModelSettings, ManualSettings
  <2> QED BY <2>1 DEF Saved
<1>2. CASE f.backend # "dummy"
  <2>1. ModelKey(f) \in ModelSettings
        BY <1>2, ModelKeys DEF Placed, Adapters, Access, ModelSettings
  <2> QED BY <2>1 DEF Saved, KnownModels
<1> QED BY <1>1, <1>2

\* A list of one settled model, or of none.
LEMMA OfferLists ==
    ASSUME NEW f, IsForm(f), NEW model, NEW c, NEW once, NEW any,
           model = None \/ Settled(model, ModelKey(f), once)
    PROVE  LET g == Offer(AddressChanged(f), model) IN
           /\ IsForm(g) /\ SameSetting(f, g)
           /\ g.modelBackend = f.modelBackend /\ g.written = f.written /\ g.models = {}
           /\ Listing(g, c, once, any)
<1>1. PICK a : a = AddressChanged(f) OBVIOUS
<1>2. /\ IsForm(a) /\ SameSetting(f, a) /\ a.models = {}
      /\ a.modelBackend = f.modelBackend /\ a.written = f.written
      BY <1>1 DEF IsForm, Controls, SameSetting, AddressChanged
<1>3. PICK g : g = Offer(a, model) OBVIOUS
<1>4. /\ IsForm(g) /\ SameSetting(f, g)
      BY <1>2, <1>3, OfferKeeps DEF SameSetting
<1>5. /\ g.modelBackend = f.modelBackend /\ g.written = f.written /\ g.models = {}
      /\ g.chosen = model /\ g.box = IF model = None THEN {} ELSE {model}
      BY <1>2, <1>3 DEF Offer, IsForm, Controls
<1>6. ModelKey(g) = ModelKey(f) BY <1>4, SameKeys
<1>7. Listing(g, c, once, any)
  <2>1. g.chosen = None \/ g.chosen \in g.box BY <1>5
  <2>2. \A m \in g.box : Offered(m, g, c, once, any) BY <1>5, <1>6 DEF Offered
  <2> QED BY <1>5, <2>1, <2>2 DEF Listing
<1> QED BY <1>1, <1>3, <1>4, <1>5, <1>7

\* The access and the key matter for OpenAI only, and the key without ChatGPT.
LEMMA SameOffers ==
    ASSUME NEW f, Placed(f), NEW g, Placed(g), NEW c,
           g.backend = f.backend, g.address = f.address,
           f.backend = "openai" => g.auth = f.auth /\ (f.auth = "api_key" => g.key = f.key)
    PROVE  ModelKey(g) = ModelKey(f) /\ Query(g, c).at = Query(f, c).at
<1>1. CASE f.backend = "openai" /\ f.auth = "api_key" BY <1>1, ModelKeys, Queries
<1>2. CASE f.backend = "openai" /\ f.auth = "chatgpt" BY <1>2, ModelKeys, Queries
<1>3. CASE f.backend # "openai" BY <1>3, ModelKeys, Queries DEF Placed, Adapters
<1> QED BY <1>1, <1>2, <1>3 DEF Placed, Access

\* A list depends on what is asked for and on nothing but itself.
LEMMA ListingStays ==
    ASSUME NEW f, NEW g, NEW c, NEW once, NEW any, Listing(f, c, once, any),
           g.backend = f.backend, g.address = f.address,
           ModelKey(g) = ModelKey(f), Query(g, c).at = Query(f, c).at,
           g.box = f.box, g.chosen = f.chosen, g.models = f.models, g.modelAddress = f.modelAddress
    PROVE  Listing(g, c, once, any)
<1>1. \A m : Offered(m, g, c, once, any) <=> Offered(m, f, c, once, any) BY DEF Offered
<1> QED BY <1>1 DEF Listing

\* Another access of OpenAI: its saved model or the default.
LEMMA AuthFits ==
    ASSUME NEW f, Placed(f), f.backend = "openai", NEW c, NEW once, NEW any, KnownModels(c, once)
    PROVE  Fits(OpenaiAuthChanged(f, c), c, once, any)
<1>1. PICK model : model = Or(Saved(ModelKey(f), c), IF f.auth = "chatgpt" THEN None ELSE DefaultModel)
      OBVIOUS
<1>2. model = None \/ Settled(model, ModelKey(f), once)
  <2>1. CASE f.auth = "chatgpt" BY <1>1, <2>1, SavedIsSettled DEF Or
  <2>2. CASE f.auth # "chatgpt"
    <3>1. ModelKey(f) = "openai.model" BY <2>2, ModelKeys DEF Placed, Access
    <3>2. Settled(DefaultModel, ModelKey(f), once) BY <3>1 DEF Settled, DefaultModel, Model
    <3> QED BY <1>1, <2>2, <3>2, SavedIsSettled DEF Or
  <2> QED BY <2>1, <2>2
<1>3. PICK g : g = Offer(AddressChanged(f), model) OBVIOUS
<1>4. IsForm(g) /\ SameSetting(f, g) /\ Listing(g, c, once, any)
      BY <1>2, <1>3, OfferLists DEF Placed
<1>5. PICK h : h = [g EXCEPT !.modelBackend = ModelKey(f), !.written = model] OBVIOUS
<1>6. /\ SameSetting(g, h) /\ h.box = g.box /\ h.chosen = g.chosen /\ h.models = g.models
      /\ h.modelAddress = g.modelAddress /\ h.modelBackend = ModelKey(f) /\ h.written = model
      BY <1>4, <1>5 DEF IsForm, Controls, SameSetting
<1>7. ModelKey(h) = ModelKey(f) BY <1>4, <1>6, SameKeys
<1>8. Listing(h, c, once, any)
      BY <1>4, <1>6, SameKeys, ListingStays DEF SameSetting
<1>9. h.backend = "openai" BY <1>4, <1>6 DEF SameSetting
<1>10. OpenaiAuthChanged(f, c) = h BY <1>1, <1>3, <1>5 DEF OpenaiAuthChanged
<1> QED BY <1>2, <1>6, <1>7, <1>8, <1>9, <1>10 DEF Fits

\* Loading the models of a backend whose list is not the page's.
LEMMA ModelsFit ==
    ASSUME NEW f, Placed(f), f.key = None, NEW c, NEW once, NEW any, KnownModels(c, once),
           f.written = None \/ Settled(f.written, ModelKey(f), once),
           f.modelBackend = ModelKey(f) => Listing(f, c, once, any)
    PROVE  Fits(LoadModels(f, c), c, once, any)
<1>1. CASE ModelKey(f) = f.modelBackend
  <2>1. LoadModels(f, c) = f BY <1>1 DEF LoadModels
  <2> QED BY <1>1, <2>1 DEF Fits
<1>2. PICK g : g = ForgetModels(f) OBVIOUS
<1>3. /\ Placed(g) /\ SameSetting(f, g) /\ ModelKey(g) = ModelKey(f)
      /\ g.written = f.written /\ g.modelBackend = ModelKey(f) /\ Listing(g, c, once, any)
  <2>1. PICK o : o = Offer(AddressChanged(f), None) OBVIOUS
  <2>2. /\ IsForm(o) /\ SameSetting(f, o) /\ o.written = f.written /\ Listing(o, c, once, any)
        BY <2>1, OfferLists DEF Placed
  <2>3. g = [o EXCEPT !.modelBackend = ModelKey(f)] BY <1>2, <2>1 DEF ForgetModels
  <2>4. /\ IsForm(g) /\ SameSetting(o, g) /\ g.modelBackend = ModelKey(f)
        /\ g.written = o.written /\ g.box = o.box /\ g.chosen = o.chosen /\ g.models = o.models
        /\ g.modelAddress = o.modelAddress
        BY <2>2, <2>3 DEF IsForm, Controls, SameSetting
  <2>5. Listing(g, c, once, any) BY <2>2, <2>4, SameKeys, ListingStays DEF SameSetting
  <2>6. SameSetting(f, g) BY <2>2, <2>4 DEF SameSetting
  <2> QED BY <2>2, <2>4, <2>5, <2>6, SameKeys DEF Placed, SameSetting
<1>4. CASE ModelKey(f) # f.modelBackend /\ f.backend = "openai"
  <2>1. LoadModels(f, c) = OpenaiAuthChanged(g, c) BY <1>2, <1>4 DEF LoadModels
  <2> QED BY <1>3, <1>4, <2>1, AuthFits DEF SameSetting
<1>5. CASE ModelKey(f) # f.modelBackend /\ f.backend # "openai"
  <2>1. LoadModels(f, c) = g BY <1>2, <1>5 DEF LoadModels
  <2> QED BY <1>3, <2>1 DEF Fits, SameSetting
<1> QED BY <1>1, <1>4, <1>5

\* Typing, replacing or clearing the key drops what was found with another one.
LEMMA KeyLists ==
    ASSUME NEW f, Placed(f), NEW key, NEW c, NEW once, NEW any, KnownModels(c, once),
           f.modelBackend = ModelKey(f) => Listing(f, c, once, any)
    PROVE  LET g == KeyChanged([f EXCEPT !.key = key], c) IN
           /\ Placed(g) /\ g.backend = f.backend /\ g.auth = f.auth /\ g.address = f.address
           /\ g.key = key /\ g.modelBackend = f.modelBackend /\ g.written = f.written
           /\ g.modelBackend = ModelKey(g) => Listing(g, c, once, any)
<1>1. PICK b : b = [f EXCEPT !.key = key] OBVIOUS
<1>2. /\ Placed(b) /\ b.backend = f.backend /\ b.auth = f.auth /\ b.address = f.address
      /\ b.key = key
  <2>1. IsForm(b) /\ b.backend = f.backend /\ b.auth = f.auth /\ b.address = f.address
        BY <1>1 DEF Placed, IsForm, Controls
  <2>2. b.key = key BY <1>1 DEF Placed, IsForm, Controls
  <2> QED BY <2>1, <2>2 DEF Placed
<1>3. /\ b.box = f.box /\ b.chosen = f.chosen /\ b.models = f.models /\ b.written = f.written
      /\ b.modelAddress = f.modelAddress /\ b.modelBackend = f.modelBackend
      BY <1>1 DEF Placed, IsForm, Controls
<1>4. PICK g : g = KeyChanged(b, c) OBVIOUS
<1>5. CASE b.backend = "openai" /\ b.auth = "api_key"
  <2>1. PICK model : model = Or(c["openai.model"], DefaultModel) OBVIOUS
  <2>2. g = Offer(AddressChanged(b), model) BY <1>4, <1>5, <2>1 DEF KeyChanged
  <2>3. Settled(model, ModelKey(b), once)
    <3>1. ModelKey(b) = "openai.model" BY <1>2, <1>5, ModelKeys
    <3>2. Settled(DefaultModel, "openai.model", once) BY DEF Settled, DefaultModel, Model
    <3> QED BY <2>1, <3>1, <3>2 DEF Or, KnownModels, ModelSettings
  <2>4. /\ IsForm(g) /\ SameSetting(b, g) /\ Listing(g, c, once, any)
        /\ g.modelBackend = b.modelBackend /\ g.written = b.written
        BY <1>2, <2>2, <2>3, OfferLists DEF Placed
  <2> QED BY <1>1, <1>2, <1>3, <1>4, <2>4 DEF Placed, SameSetting
<1>6. CASE ~(b.backend = "openai" /\ b.auth = "api_key")
  <2>1. g = b BY <1>4, <1>6 DEF KeyChanged
  <2>2. ModelKey(b) = ModelKey(f) /\ Query(b, c).at = Query(f, c).at
        BY <1>2, <1>6, SameOffers
  <2>3. b.modelBackend = ModelKey(b) => Listing(b, c, once, any)
        BY <1>2, <1>3, <2>2, ListingStays
  <2> QED BY <1>1, <1>2, <1>3, <1>4, <2>1, <2>3
<1> QED BY <1>5, <1>6

\* The settings a backend has for its model.
OwnKeys(backend) ==
    {s \in ModelSettings \cup {"dummy.model"} :
        \/ backend = "openai" /\ s \in {"openai.model", "openai.chatgpt_model"}
        \/ backend = "local_llm" /\ s = "local_llm.model"
        \/ backend = "dummy" /\ s = "dummy.model"}

LEMMA KeyIsOwn ==
    ASSUME NEW f, Placed(f)
    PROVE  ModelKey(f) \in OwnKeys(f.backend)
BY ModelKeys DEF Placed, Adapters, Access, OwnKeys, ModelSettings

\* The list is that of another backend, or it fits.
OwnList(f, c, once, any) ==
    f.modelBackend \in OwnKeys(f.backend) => f.modelBackend = ModelKey(f) /\ Listing(f, c, once, any)

\* Turning to a backend: whatever the list was, it fits afterwards.
LEMMA BackendFits ==
    ASSUME NEW f, Placed(f), NEW c, NEW once, NEW any, SoundConfig(c), KnownModels(c, once),
           OwnList(f, c, once, any)
    PROVE  Placed(BackendChanged(f, c)) /\ Fits(BackendChanged(f, c), c, once, any)
<1>1. PICK a : a = LoadAuth(f, c) OBVIOUS
<1>2. /\ Placed(a) /\ a.backend = f.backend /\ a.address = f.address /\ a.key = f.key
      /\ a.auth = Or(c["openai.auth_mode"], "api_key")
  <2>1. IsForm(a) /\ a.backend = f.backend /\ a.address = f.address /\ a.key = f.key
        BY <1>1 DEF LoadAuth, Placed, IsForm, Controls
  <2>2. a.auth = Or(c["openai.auth_mode"], "api_key")
        BY <1>1 DEF LoadAuth, Placed, IsForm, Controls
  <2>3. a.auth \in Access BY <2>2 DEF Or, SoundConfig, Access
  <2> QED BY <2>1, <2>2, <2>3 DEF Placed
<1>3. /\ a.box = f.box /\ a.chosen = f.chosen /\ a.models = f.models
      /\ a.modelAddress = f.modelAddress /\ a.modelBackend = f.modelBackend
      BY <1>1 DEF LoadAuth, Placed, IsForm, Controls
<1>4. a.modelBackend = ModelKey(a) => Listing(a, c, once, any)
  <2>1. SUFFICES ASSUME a.modelBackend = ModelKey(a) PROVE Listing(a, c, once, any) OBVIOUS
  <2>2. f.modelBackend = ModelKey(f) /\ Listing(f, c, once, any)
        BY <1>2, <1>3, <2>1, KeyIsOwn DEF OwnList
  <2>3. f.backend = "openai" => a.auth = f.auth
        BY <1>2, <1>3, <2>1, <2>2, ModelKeys DEF Placed, Access
  <2>4. ModelKey(a) = ModelKey(f) /\ Query(a, c).at = Query(f, c).at
        BY <1>2, <2>3, SameOffers
  <2> QED BY <1>2, <1>3, <2>2, <2>4, ListingStays
<1>5. PICK k : k = ClearKey(a, c) OBVIOUS
<1>6. /\ Placed(k) /\ k.backend = a.backend /\ k.auth = a.auth /\ k.key = None
      /\ k.modelBackend = ModelKey(k) => Listing(k, c, once, any)
  <2>1. CASE a.key = None
    <3>1. k = a BY <1>5, <2>1 DEF ClearKey
    <3> QED BY <1>2, <1>4, <2>1, <3>1
  <2>2. CASE a.key # None
    <3>1. k = KeyChanged([a EXCEPT !.key = None], c) BY <1>5, <2>2 DEF ClearKey
    <3> QED BY <1>2, <1>4, <3>1, KeyLists
  <2> QED BY <2>1, <2>2
<1>7. PICK m : m = LoadManual(k, c) OBVIOUS
<1>8. PICK model : model = Or(Saved(ModelKey(k), c),
                              IF k.backend = "openai" THEN DefaultModel ELSE None)
      OBVIOUS
<1>9. PICK v : m = [k EXCEPT !.manual = v, !.written = model]
      BY <1>7, <1>8 DEF LoadManual
<1>10. /\ Placed(m) /\ m.backend = k.backend /\ m.auth = k.auth /\ m.address = k.address
       /\ m.key = k.key
       BY <1>6, <1>9 DEF Placed, IsForm, Controls
<1>11. /\ m.modelBackend = k.modelBackend /\ m.written = model /\ m.box = k.box
       /\ m.chosen = k.chosen /\ m.models = k.models /\ m.modelAddress = k.modelAddress
       BY <1>6, <1>9 DEF Placed, IsForm, Controls
<1>12. ModelKey(m) = ModelKey(k) /\ Query(m, c).at = Query(k, c).at
       BY <1>6, <1>10, SameOffers
<1>13. m.modelBackend = ModelKey(m) => Listing(m, c, once, any)
       BY <1>6, <1>10, <1>11, <1>12, ListingStays
<1>14. m.written = None \/ Settled(m.written, ModelKey(m), once)
  <2>1. CASE k.backend # "openai"
        BY <1>6, <1>8, <1>11, <1>12, <2>1, SavedIsSettled DEF Or
  <2>2. CASE k.backend = "openai" /\ k.auth = "api_key"
    <3>1. ModelKey(k) = "openai.model" BY <1>6, <2>2, ModelKeys
    <3>2. Settled(DefaultModel, "openai.model", once) BY DEF Settled, DefaultModel, Model
    <3> QED BY <1>6, <1>8, <1>11, <1>12, <2>2, <3>1, <3>2, SavedIsSettled DEF Or
  <2>3. CASE k.backend = "openai" /\ k.auth = "chatgpt"
    <3>1. ModelKey(k) = "openai.chatgpt_model" BY <1>6, <2>3, ModelKeys
    <3>2. Or(c["openai.auth_mode"], "api_key") = "chatgpt" BY <1>2, <1>6, <2>3
    <3>3. Saved(ModelKey(k), c) = c["openai.chatgpt_model"]
          BY <3>1 DEF Saved, Settings, ModelSettings
    <3>4. Saved(ModelKey(k), c) # None BY <3>2, <3>3 DEF KnownModels
    <3> QED BY <1>6, <1>8, <1>11, <1>12, <3>4, SavedIsSettled DEF Or
  <2> QED BY <1>6, <2>1, <2>2, <2>3 DEF Placed, Access
<1>15. BackendChanged(f, c) = LoadModels(m, c) BY <1>1, <1>5, <1>7 DEF BackendChanged
<1>16. Fits(LoadModels(m, c), c, once, any) BY <1>6, <1>10, <1>13, <1>14, ModelsFit
<1>17. Placed(LoadModels(m, c)) BY <1>10, ModelsKeep DEF Placed, SameSetting
<1> QED BY <1>15, <1>16, <1>17

\* Choosing the saved model.
LEMMA ChooseFits ==
    ASSUME NEW f, Placed(f), NEW c, NEW once, NEW any, KnownModels(c, once), Fits(f, c, once, any)
    PROVE  Placed(ChooseSaved(f, c)) /\ Fits(ChooseSaved(f, c), c, once, any)
<1>1. PICK model : /\ ChooseSaved(f, c) = Choose(Listed(f, model), model)
                   /\ model = IF f.backend = "openai" /\ f.auth = "api_key"
                              THEN Or(Saved(ModelKey(f), c), DefaultModel)
                              ELSE Saved(ModelKey(f), c)
      BY DEF ChooseSaved
<1>2. model = None \/ Settled(model, ModelKey(f), once)
  <2>1. CASE f.backend = "openai" /\ f.auth = "api_key"
    <3>1. ModelKey(f) = "openai.model" BY <2>1, ModelKeys
    <3>2. Settled(DefaultModel, "openai.model", once) BY DEF Settled, DefaultModel, Model
    <3> QED BY <1>1, <2>1, <3>1, <3>2, SavedIsSettled DEF Or
  <2>2. CASE ~(f.backend = "openai" /\ f.auth = "api_key")
        BY <1>1, <2>2, SavedIsSettled
  <2> QED BY <2>1, <2>2
<1>3. PICK g : g = Listed(f, model) OBVIOUS
<1>4. /\ IsForm(g) /\ SameSetting(f, g) /\ g.modelBackend = f.modelBackend /\ g.written = f.written
      /\ Listing(g, c, once, any)
  <2>1. CASE f.backend = "openai" /\ model # None
    <3>0. CASE Lists(f, model)
      <4>1. g = f BY <1>3, <2>1, <3>0 DEF Listed
      <4> QED BY <4>1 DEF Fits, Placed, SameSetting
    <3> SUFFICES ASSUME ~Lists(f, model)
                 PROVE  /\ IsForm(g) /\ SameSetting(f, g) /\ g.modelBackend = f.modelBackend
                        /\ g.written = f.written /\ Listing(g, c, once, any)
        BY <3>0
    <3>1. g = [f EXCEPT !.box = f.box \cup {model}] BY <1>3, <2>1 DEF Listed
    <3>2. /\ IsForm(g) /\ SameSetting(f, g) /\ g.modelBackend = f.modelBackend
          /\ g.written = f.written
          BY <3>1 DEF Placed, IsForm, Controls, SameSetting
    <3>3. g.box = f.box \cup {model} /\ g.chosen = f.chosen
          BY <3>1 DEF Placed, IsForm, Controls
    <3>4. ModelKey(g) = ModelKey(f) /\ Query(g, c) = Query(f, c) BY <3>2, SameKeys
    <3>5. \A m \in g.box : Offered(m, g, c, once, any)
      <4>1. Offered(model, g, c, once, any) BY <1>2, <2>1, <3>4 DEF Offered
      <4>2. \A m \in f.box : Offered(m, f, c, once, any) BY <2>1 DEF Fits, Listing
      <4>3. \A m \in f.box : Offered(m, g, c, once, any) BY <3>4, <4>2 DEF Offered
      <4> QED BY <3>3, <4>1, <4>3
    <3>6. g.backend = "openai" BY <2>1, <3>2 DEF SameSetting
    <3>7. g.chosen = None \/ g.chosen \in g.box BY <3>3 DEF Fits, Listing
    <3> QED BY <3>2, <3>5, <3>6, <3>7 DEF Listing
  <2>2. CASE f.backend = "openai" /\ model = None
    <3>1. g = Offer(f, None) BY <1>3, <2>2 DEF Listed
    <3>2. IsForm(g) /\ SameSetting(f, g) BY <3>1, OfferKeeps DEF Placed
    <3>3. /\ g.modelBackend = f.modelBackend /\ g.written = f.written
          /\ g.box = {} /\ g.chosen = None
          BY <3>1 DEF Offer, Placed, IsForm, Controls
    <3> QED BY <2>2, <3>2, <3>3 DEF Listing, SameSetting
  <2>3. CASE f.backend # "openai"
    <3>1. g = f BY <1>3, <2>3 DEF Listed
    <3> QED BY <3>1 DEF Fits, Placed, SameSetting
  <2> QED BY <2>1, <2>2, <2>3
<1>5. PICK h : h = Choose(g, model) OBVIOUS
<1>6. /\ IsForm(h) /\ SameSetting(g, h) /\ h.modelBackend = g.modelBackend /\ h.written = g.written
      /\ Listing(h, c, once, any)
  <2>1. CASE Lists(g, model)
    <3>0. PICK n \in g.box : h = [g EXCEPT !.chosen = n, !.picked = FALSE]
      <4>1. PICK p : p = CHOOSE l \in Named(g.box, model) : TRUE OBVIOUS
      <4>2. p \in g.box BY <2>1, <4>1 DEF Lists, Named
      <4> QED BY <1>5, <2>1, <4>1, <4>2 DEF Choose
    <3>1. h = [g EXCEPT !.chosen = n, !.picked = FALSE] BY <3>0
    <3>2. /\ IsForm(h) /\ SameSetting(g, h) /\ h.modelBackend = g.modelBackend
          /\ h.written = g.written
          BY <1>4, <3>1 DEF IsForm, Controls, SameSetting
    <3>3. /\ h.box = g.box /\ h.chosen \in g.box /\ h.models = g.models
          /\ h.modelAddress = g.modelAddress
          BY <1>4, <3>1 DEF IsForm, Controls
    <3>4. ModelKey(h) = ModelKey(g) /\ Query(h, c) = Query(g, c) BY <3>2, SameKeys
    <3>5. \A m : Offered(m, h, c, once, any) <=> Offered(m, g, c, once, any) BY <3>4 DEF Offered
    <3> QED BY <1>4, <2>1, <3>2, <3>3, <3>5 DEF Listing, SameSetting
  <2>2. CASE ~Lists(g, model)
        BY <1>4, <1>5, <2>2 DEF Choose, SameSetting
  <2> QED BY <2>1, <2>2
<1>7. SameSetting(f, h) BY <1>4, <1>6 DEF SameSetting
<1>8. ModelKey(h) = ModelKey(f) BY <1>7, SameKeys
<1>9. Fits(h, c, once, any) BY <1>4, <1>6, <1>7, <1>8 DEF Fits, SameSetting
<1>10. Placed(h) BY <1>6, <1>7 DEF Placed, SameSetting
<1> QED BY <1>1, <1>3, <1>5, <1>9, <1>10

\* Another address makes the models of a local server those of none.
LEMMA AddressFits ==
    ASSUME NEW f, Placed(f), NEW address, NEW c, NEW once, NEW any, Fits(f, c, once, any)
    PROVE  LET g == AddressChanged([f EXCEPT !.address = address]) IN
           /\ Placed(g) /\ g.address = address /\ g.backend = f.backend
           /\ Fits(g, c, once, any)
<1>1. PICK b : b = [f EXCEPT !.address = address] OBVIOUS
<1>2. IsForm(b) /\ b.address = address BY <1>1 DEF Placed, IsForm, Controls
<1>3. /\ b.backend = f.backend /\ b.auth = f.auth /\ b.key = f.key /\ b.written = f.written
      /\ b.modelBackend = f.modelBackend /\ b.box = f.box /\ b.chosen = f.chosen
      BY <1>1 DEF Placed, IsForm, Controls
<1>4. PICK g : g = AddressChanged(b) OBVIOUS
<1>5. /\ IsForm(g) /\ g.address = address /\ g.backend = f.backend /\ g.auth = f.auth
      /\ g.key = f.key
      BY <1>2, <1>3, <1>4, AddressKeeps DEF SameSetting
<1>6. /\ g.written = f.written /\ g.modelBackend = f.modelBackend /\ g.box = f.box
      /\ g.chosen = f.chosen /\ g.models = {}
      BY <1>2, <1>3, <1>4 DEF AddressChanged, IsForm, Controls
<1>7. Placed(g) BY <1>5 DEF Placed
<1>8. ModelKey(g) = ModelKey(f)
      BY <1>5 DEF ModelKey
<1>9. CASE f.backend = "openai"
  <2>1. Query(g, c).at = Query(f, c).at BY <1>5, <1>7, <1>9, Queries DEF Placed, Access
  <2>2. \A m \in g.box : Offered(m, f, c, once, any) BY <1>6, <1>9 DEF Fits, Listing
  <2>3. \A m \in g.box : Offered(m, g, c, once, any) BY <1>8, <2>1, <2>2 DEF Offered
  <2>4. Listing(g, c, once, any) BY <1>5, <1>6, <1>9, <2>3 DEF Fits, Listing
  <2> QED BY <1>1, <1>4, <1>5, <1>6, <1>7, <1>8, <2>4 DEF Fits
<1>10. CASE f.backend # "openai"
  <2>1. Listing(g, c, once, any) BY <1>5, <1>6, <1>10 DEF Fits, Listing
  <2> QED BY <1>1, <1>4, <1>5, <1>6, <1>7, <1>8, <2>1 DEF Fits
<1> QED BY <1>9, <1>10

\* A backend other than that of a page that fits.
LEMMA OtherBackendFits ==
    ASSUME NEW f, Placed(f), NEW b \in Adapters, b # f.backend, NEW c, NEW once, NEW any,
           SoundConfig(c), KnownModels(c, once), f.modelBackend = ModelKey(f)
    PROVE  LET g == BackendChanged([f EXCEPT !.backend = b], c) IN
           Placed(g) /\ Fits(g, c, once, any)
<1>1. PICK g : g = [f EXCEPT !.backend = b] OBVIOUS
<1>2. Placed(g) /\ g.backend = b /\ g.modelBackend = f.modelBackend
      BY <1>1 DEF Placed, IsForm, Controls
<1>3. f.modelBackend \notin OwnKeys(b) BY ModelKeys DEF Placed, Adapters, Access, OwnKeys
<1>4. OwnList(g, c, once, any) BY <1>2, <1>3 DEF OwnList
<1> QED BY <1>1, <1>2, <1>4, BackendFits

\* Loading a configuration: a page that fits it still does.
LEMMA LoadFits ==
    ASSUME NEW f, Placed(f), NEW c, NEW once, NEW any, SoundConfig(c), KnownModels(c, once),
           Fits(f, c, once, any)
    PROVE  Placed(LoadSettings(f, c)) /\ Fits(LoadSettings(f, c), c, once, any)
<1>1. PICK b : b = LoadBackend(f, c) OBVIOUS
<1>2. Placed(b) /\ Fits(b, c, once, any)
  <2>1. PICK o : o = Or(c["optimizer"], "local_llm") OBVIOUS
  <2>2. o \in Adapters BY <2>1 DEF Or, SoundConfig, Adapters
  <2>3. CASE o = f.backend BY <1>1, <2>1, <2>3 DEF LoadBackend
  <2>4. CASE o # f.backend
    <3>1. b = BackendChanged([f EXCEPT !.backend = o], c) BY <1>1, <2>1, <2>4 DEF LoadBackend
    <3> QED BY <2>2, <2>4, <3>1, OtherBackendFits DEF Fits
  <2> QED BY <2>3, <2>4
<1>3. PICK a : a = LoadAddress(b, c) OBVIOUS
<1>4. Placed(a) /\ Fits(a, c, once, any)
      BY <1>2, <1>3, AddressFits DEF LoadAddress
<1>5. OwnList(a, c, once, any) BY <1>4 DEF OwnList, Fits
<1>6. PICK k : k = BackendChanged(a, c) OBVIOUS
<1>7. Placed(k) /\ Fits(k, c, once, any) BY <1>4, <1>5, <1>6, BackendFits
<1>8. LoadSettings(f, c) = ChooseSaved(k, c) BY <1>1, <1>3, <1>6 DEF LoadSettings
<1> QED BY <1>7, <1>8, ChooseFits

\* The window may come to know another configuration: what fits goes on to fit
\* if the key is that of the page, or if it is the same, or if this is known.
LEMMA FitsStill ==
    ASSUME NEW f, Placed(f), NEW c, NEW d, NEW once, NEW ever, once \subseteq ever,
           NEW any \in BOOLEAN, NEW anew \in BOOLEAN, any => anew,
           f.key # None \/ c["openai.api_key"] = d["openai.api_key"] \/ anew,
           Fits(f, c, once, any)
    PROVE  Fits(f, d, ever, anew)
<1>1. \A m, s : Settled(m, s, once) => Settled(m, s, ever) BY DEF Settled
<1>2. anew \/ Query(f, d).at = Query(f, c).at
      BY Queries DEF Placed, Access, Or
<1>3. \A m : Offered(m, f, c, once, any) => Offered(m, f, d, ever, anew)
      BY <1>1, <1>2 DEF Offered, Model
<1> QED BY <1>1, <1>3 DEF Fits, Listing

\* An answer that fits the page.
LEMMA FoundFits ==
    ASSUME NEW f, Placed(f), NEW c, NEW once, NEW any \in BOOLEAN, Fits(f, c, once, any), NEW q,
           q.setting = ModelKey(f), q.address = f.address, any \/ q.at = Query(f, c).at,
           NEW names, NEW d, NEW h \in Found(f, q, names, d)
    PROVE  Placed(h) /\ Fits(h, c, once, any)
<1>1. PICK models : models = {Model(q.setting, q.at, n) : n \in names} OBVIOUS
<1>2. PICK m \in models : h = [f EXCEPT !.box = models, !.chosen = m, !.picked = FALSE,
                                       !.models = models, !.modelAddress = q.address]
      BY <1>1 DEF Found, Named
<1>3. IsForm(h) /\ SameSetting(f, h) BY FoundKeeps DEF Placed
<1>4. /\ h.modelBackend = f.modelBackend /\ h.written = f.written
      /\ h.chosen = m /\ h.box = models /\ h.modelAddress = q.address
      BY <1>2 DEF Placed, IsForm, Controls
<1>5. ModelKey(h) = ModelKey(f) /\ Query(h, c) = Query(f, c) BY <1>3, SameKeys
<1>6. ASSUME NEW n \in models PROVE Offered(n, h, c, once, any)
  <2>1. n.setting = q.setting /\ n.at = q.at BY <1>1, <1>6 DEF Model
  <2> QED BY <1>5, <2>1 DEF Offered
<1>7. Listing(h, c, once, any) BY <1>3, <1>4, <1>6 DEF Listing, SameSetting
<1>8. Placed(h) BY <1>3 DEF Placed, SameSetting
<1>9. Fits(h, c, once, any) BY <1>3, <1>4, <1>5, <1>7 DEF Fits, SameSetting
<1> QED BY <1>8, <1>9

\* What the page sends for a model is its choice, for its setting.
LEMMA SendsItsModel ==
    ASSUME NEW f, Placed(f), NEW c, NEW once, NEW any, Fits(f, c, once, any), ~Incomplete(f)
    PROVE  LET v == ProviderSettings(f) IN
           /\ DOMAIN v = SentSettings(f) /\ "optimizer" \in DOMAIN v
           /\ \A s \in ModelSettings \cap DOMAIN v :
                  s = ModelKey(f) /\ Offered(v[s], f, c, once, any)
           /\ "openai.auth_mode" \in DOMAIN v =>
                  /\ v["openai.auth_mode"] = f.auth
                  /\ f.auth = "chatgpt" => "openai.chatgpt_model" \in DOMAIN v
           /\ "openai.chatgpt_model" \in DOMAIN v =>
                  "openai.auth_mode" \in DOMAIN v /\ v["openai.chatgpt_model"] # None
           /\ "openai.api_key" \in DOMAIN v => f.key # None
<1>1. PICK v : v = ProviderSettings(f) OBVIOUS
<1>2. DOMAIN v = SentSettings(f) BY <1>1 DEF ProviderSettings
<1>3. "optimizer" \in DOMAIN v BY <1>2 DEF SentSettings, Placed, Adapters
<1>4. ManualKey(f) \in ManualSettings BY DEF ManualKey, ManualSettings
<1>5. f.backend \in {"openai", "local_llm"} => ModelKey(f) \in ModelSettings
      BY ModelKeys DEF Placed, Access, ModelSettings
<1>6. /\ f.backend = "dummy" => DOMAIN v = {"optimizer"}
      /\ f.backend = "local_llm" =>
             DOMAIN v = {"optimizer", "local_llm.address", ManualKey(f), ModelKey(f)}
      /\ f.backend = "openai" =>
             DOMAIN v = {"optimizer", "openai.auth_mode", ManualKey(f), ModelKey(f)} \cup
                        (IF f.key # None /\ f.auth = "api_key" THEN {"openai.api_key"} ELSE {})
      BY <1>2 DEF SentSettings
<1>7. \A s \in ModelSettings \cap DOMAIN v : s = ModelKey(f) /\ f.backend # "dummy"
      BY <1>4, <1>6 DEF Placed, Adapters, ModelSettings, ManualSettings
<1>8. ASSUME NEW s \in ModelSettings \cap DOMAIN v
      PROVE  /\ Offered(v[s], f, c, once, any)
             /\ f.backend = "openai" => v[s] # None
  <2>1. v[s] = IF f.manual THEN f.written ELSE f.chosen
        BY <1>1, <1>2, <1>8 DEF ProviderSettings, ModelSettings, ManualSettings
  <2>2. CASE f.manual
    <3>1. f.written # None BY <1>7, <1>8, <2>2 DEF Incomplete
    <3>2. Settled(f.written, ModelKey(f), once) BY <3>1 DEF Fits
    <3> QED BY <2>1, <2>2, <3>1, <3>2 DEF Offered
  <2>3. CASE ~f.manual
    <3>1. f.backend = "openai" \/ f.models # {}
          BY <1>7, <1>8, <2>3 DEF Incomplete, Placed, Adapters
    <3>2. f.chosen \in f.box
          BY <1>7, <1>8, <2>3, <3>1 DEF Fits, Listing, Incomplete, Placed, Adapters
    <3>3. Offered(f.chosen, f, c, once, any) BY <3>1, <3>2 DEF Fits, Listing
    <3>4. f.backend = "openai" => f.chosen # None BY <2>3 DEF Incomplete
    <3> QED BY <2>1, <2>3, <3>3, <3>4
  <2> QED BY <2>2, <2>3
<1>9. "openai.auth_mode" \in DOMAIN v =>
          /\ v["openai.auth_mode"] = f.auth
          /\ f.auth = "chatgpt" => "openai.chatgpt_model" \in DOMAIN v
  <2>1. SUFFICES ASSUME "openai.auth_mode" \in DOMAIN v
                 PROVE  /\ v["openai.auth_mode"] = f.auth
                        /\ f.auth = "chatgpt" => "openai.chatgpt_model" \in DOMAIN v
        OBVIOUS
  <2>2. v["openai.auth_mode"] = f.auth
        BY <1>1, <1>2, <2>1 DEF ProviderSettings, ModelSettings, ManualSettings
  <2>3. f.backend = "openai"
        BY <1>4, <1>5, <1>6, <2>1 DEF Placed, Adapters, ModelSettings, ManualSettings
  <2> QED BY <1>6, <2>2, <2>3, ModelKeys
<1>10. "openai.chatgpt_model" \in DOMAIN v =>
           "openai.auth_mode" \in DOMAIN v /\ v["openai.chatgpt_model"] # None
  <2>1. SUFFICES ASSUME "openai.chatgpt_model" \in DOMAIN v PROVE f.backend = "openai"
        BY <1>6, <1>8 DEF ModelSettings
  <2>2. ModelKey(f) = "openai.chatgpt_model" BY <1>7, <2>1 DEF ModelSettings
  <2> QED BY <2>2, ModelKeys DEF Placed, Adapters
<1>11. "openai.api_key" \in DOMAIN v => f.key # None
       BY <1>4, <1>5, <1>6 DEF Placed, Adapters, ModelSettings, ManualSettings
<1> QED BY <1>1, <1>2, <1>3, <1>7, <1>8, <1>9, <1>10, <1>11

-----------------------------------------------------------------------------
\* The checks on their way ask for what the page f has, unless they are stale.
Checking(cs, f, c, any) ==
    \A k \in cs :
        /\ k = [query |-> k.query, fresh |-> k.fresh]
        /\ k.fresh => /\ k.query.setting = ModelKey(f) /\ k.query.address = f.address
                      /\ any \/ k.query.at = Query(f, c).at

\* The page has a list that fits, and will.
PageFits(f, cs, c, once, any) == Placed(f) /\ Fits(f, c, once, any) /\ Checking(cs, f, c, any)

\* The configurations only hold models that were saved.
Filed ==
    /\ KnownModels(file, remembered) /\ KnownModels(known, remembered)
    /\ ui = "save" => KnownModels(call.base, remembered)
    /\ cli # NoSave =>
           /\ KnownModels(cli.base, remembered)
           /\ DOMAIN cli.values \cap (ModelSettings \cup {"openai.auth_mode"}) = {}

\* A request other than an export sends the page as it still is.
Asked ==
    ui \notin {"idle", "poll"} =>
        IF call.kind = "export" THEN DOMAIN call.values \subseteq {"export.format"}
        ELSE call.values = ProviderSettings(form) /\ ~Incomplete(form)

Belong ==
    /\ rekeyed \in BOOLEAN
    /\ PageFits(form, checks, known, remembered, rekeyed)
    /\ Filed /\ Asked

\* Stale checks are no longer waited for.
LEMMA StaleChecks ==
    ASSUME NEW cs, NEW f, NEW c, NEW any, Checking(cs, f, c, any), NEW g, NEW d, NEW anew
    PROVE  Checking(Stale(cs), g, d, anew)
<1>1. SUFFICES ASSUME NEW k \in Stale(cs)
               PROVE  k = [query |-> k.query, fresh |-> k.fresh] /\ ~k.fresh
      BY DEF Checking
<1>2. PICK j \in cs : k = [j EXCEPT !.fresh = FALSE] BY DEF Stale
<1>3. j = [query |-> j.query, fresh |-> j.fresh] BY DEF Checking
<1>4. k = [query |-> j.query, fresh |-> FALSE] BY <1>2, <1>3
<1> QED BY <1>4

\* A new check asks for what the page has.
LEMMA NewCheck ==
    ASSUME NEW f, Placed(f), NEW c, NEW any
    PROVE  Checking({Check(f, c)}, f, c, any)
<1>1. PICK k : k = Check(f, c) OBVIOUS
<1>2. k = [query |-> k.query, fresh |-> k.fresh] /\ k.query = Query(f, c) BY <1>1 DEF Check
<1> QED BY <1>1, <1>2, Queries DEF Checking

\* What the window comes to know does not change what fits, see above.
LEMMA PageFitsStill ==
    ASSUME NEW f, NEW cs, NEW c, NEW d, NEW once, NEW ever, once \subseteq ever,
           NEW any \in BOOLEAN, NEW anew \in BOOLEAN, any => anew,
           f.key # None \/ c["openai.api_key"] = d["openai.api_key"] \/ anew,
           PageFits(f, cs, c, once, any)
    PROVE  PageFits(f, cs, d, ever, anew)
<1>1. Placed(f) /\ Fits(f, d, ever, anew) BY FitsStill DEF PageFits
<1>2. anew \/ Query(f, d).at = Query(f, c).at BY Queries DEF PageFits, Placed, Access, Or
<1>3. Checking(cs, f, d, anew) BY <1>2 DEF PageFits, Checking
<1> QED BY <1>1, <1>3 DEF PageFits

\* A page that fits and whose checks are stale.
LEMMA StalePageFits ==
    ASSUME NEW f, NEW cs, NEW c, NEW once, NEW any, PageFits(f, cs, c, once, any),
           NEW g, Placed(g), Fits(g, c, once, any)
    PROVE  PageFits(g, Stale(cs), c, once, any)
BY StaleChecks DEF PageFits

\* Leaving the settings page.
LEMMA LeaveFits ==
    ASSUME NEW c, NEW once, NEW any, PageFits(form, checks, c, once, any), SoundConfig(c),
           KnownModels(c, once), NEW to, Leave(to, c)
    PROVE  PageFits(form', checks', c, once, any)
<1>1. CASE page = "settings" /\ to # "settings"
  <2>1. form' = LoadSettings(form, c) BY <1>1 DEF Leave
  <2>2. PICK new : /\ checks' = Stale(checks) \cup new
                   /\ new = {} \/ new = {Check(form', c)}
        BY <1>1 DEF Leave
  <2>3. Placed(form') /\ Fits(form', c, once, any) BY <2>1, LoadFits DEF PageFits
  <2>4. Checking(Stale(checks), form', c, any) BY StaleChecks DEF PageFits
  <2>5. Checking(new, form', c, any) BY <2>2, <2>3, NewCheck DEF Checking
  <2>6. Checking(checks', form', c, any) BY <2>2, <2>4, <2>5 DEF Checking
  <2> QED BY <2>3, <2>6 DEF PageFits
<1>2. CASE ~(page = "settings" /\ to # "settings")
      BY <1>2 DEF Leave, formVars
<1> QED BY <1>1, <1>2

\* What the user does on the settings page.
LEMMA EditFits ==
    ASSUME Typed, Belong,
           EditAddress \/ EditKey \/ PickBackend \/ PickAuth \/ EditModel \/ CheckConnection
    PROVE  PageFits(form', checks', known, remembered, rekeyed)
<1>0. /\ PageFits(form, checks, known, remembered, rekeyed) /\ SoundConfig(known)
      /\ KnownModels(known, remembered)
      BY DEF Belong, Filed, Typed, ConfigsTyped
<1>1. Placed(form) /\ Fits(form, known, remembered, rekeyed) BY <1>0 DEF PageFits
<1>2. CASE EditAddress
  <2>1. PICK a : form' = AddressChanged([form EXCEPT !.address = a]) BY <1>2 DEF EditAddress
  <2>2. Placed(form') /\ Fits(form', known, remembered, rekeyed) BY <1>1, <2>1, AddressFits
  <2>3. checks' = Stale(checks) BY <1>2 DEF EditAddress
  <2> QED BY <1>0, <2>2, <2>3, StalePageFits
<1>3. CASE EditKey
  <2>1. PICK k : form' = KeyChanged([form EXCEPT !.key = k], known) BY <1>3 DEF EditKey
  <2>2. form.backend = "openai" /\ checks' = Stale(checks) BY <1>3 DEF EditKey
  <2>3. Listing(form, known, remembered, rekeyed) /\ form.modelBackend = ModelKey(form)
        BY <1>1 DEF Fits
  <2>4. /\ Placed(form') /\ form'.backend = form.backend /\ form'.auth = form.auth
        /\ form'.modelBackend = form.modelBackend /\ form'.written = form.written
        /\ form'.modelBackend = ModelKey(form') => Listing(form', known, remembered, rekeyed)
        BY <1>0, <1>1, <2>1, <2>3, KeyLists
  <2>5. ModelKey(form') = ModelKey(form) BY <2>4 DEF ModelKey
  <2>6. Fits(form', known, remembered, rekeyed) BY <1>1, <2>2, <2>3, <2>4, <2>5 DEF Fits
  <2> QED BY <1>0, <2>2, <2>4, <2>6, StalePageFits
<1>4. CASE PickBackend
  <2>1. PICK b \in Backends \ {form.backend} :
            form' = BackendChanged([form EXCEPT !.backend = b], known)
        BY <1>4 DEF PickBackend
  <2>2. checks' = Stale(checks) BY <1>4 DEF PickBackend
  <2>3. b \in Adapters /\ b # form.backend BY FormAssumption, <2>1 DEF Adapters
  <2>4. Placed(form') /\ Fits(form', known, remembered, rekeyed)
        BY <1>0, <1>1, <2>1, <2>3, OtherBackendFits DEF Fits
  <2> QED BY <1>0, <2>2, <2>4, StalePageFits
<1>5. CASE PickAuth
  <2>1. PICK a \in Access : form' = OpenaiAuthChanged([form EXCEPT !.auth = a], known)
        BY <1>5 DEF PickAuth, Access
  <2>2. PICK g : g = [form EXCEPT !.auth = a] OBVIOUS
  <2>3. Placed(g) /\ g.backend = "openai" /\ checks' = Stale(checks)
    <3>1. form.backend = "openai" /\ checks' = Stale(checks) BY <1>5 DEF PickAuth
    <3> QED BY <1>1, <2>2, <3>1 DEF Placed, IsForm, Controls
  <2>4. Fits(form', known, remembered, rekeyed) BY <1>0, <2>1, <2>2, <2>3, AuthFits
  <2>5. Placed(form') BY <2>1, <2>2, <2>3, AuthKeeps DEF Placed, SameSetting
  <2> QED BY <1>0, <2>3, <2>4, <2>5, StalePageFits
<1>6. CASE EditModel
  <2>1. \/ \E v : form' = [form EXCEPT !.manual = v]
        \/ form' = [form EXCEPT !.written = Model(ModelKey(form), "typed", "typed")]
        \/ \E m \in form.box : form' = [form EXCEPT !.chosen = m, !.picked = TRUE]
        BY <1>6 DEF EditModel
  <2>2. IsForm(form') /\ SameSetting(form, form') /\ form'.modelBackend = form.modelBackend
        BY <1>1, <2>1 DEF Placed, IsForm, Controls, SameSetting
  <2>3. /\ form'.box = form.box /\ form'.models = form.models
        /\ form'.modelAddress = form.modelAddress
        BY <1>1, <2>1 DEF Placed, IsForm, Controls
  <2>4. form'.written = form.written \/ form'.written = Model(ModelKey(form), "typed", "typed")
        BY <1>1, <2>1 DEF Placed, IsForm, Controls
  <2>5. form'.chosen = form.chosen \/ form'.chosen \in form.box
        BY <1>1, <2>1 DEF Placed, IsForm, Controls
  <2>6. ModelKey(form') = ModelKey(form) /\ Query(form', known) = Query(form, known)
        BY <2>2, SameKeys
  <2>7. \A m : Offered(m, form', known, remembered, rekeyed)
                   <=> Offered(m, form, known, remembered, rekeyed)
        BY <2>6 DEF Offered
  <2>8. Listing(form', known, remembered, rekeyed)
        BY <1>1, <2>2, <2>3, <2>5, <2>7 DEF Fits, Listing, SameSetting
  <2>9. form'.written = None \/ Settled(form'.written, ModelKey(form'), remembered)
        BY <1>1, <2>4, <2>6 DEF Fits, Settled, Model
  <2>10. Placed(form') /\ Fits(form', known, remembered, rekeyed)
         BY <1>1, <2>2, <2>6, <2>8, <2>9 DEF Fits, Placed, SameSetting
  <2>11. checks' = checks BY <1>6 DEF EditModel
  <2>12. Checking(checks', form', known, rekeyed)
         BY <1>0, <2>2, <2>6, <2>11 DEF PageFits, Checking, SameSetting
  <2> QED BY <2>10, <2>12 DEF PageFits
<1>7. CASE CheckConnection
  <2>1. form' = form /\ checks' = checks \cup {Check(form, known)} BY <1>7 DEF CheckConnection
  <2>2. Checking({Check(form, known)}, form, known, rekeyed) BY <1>1, NewCheck
  <2> QED BY <1>0, <2>1, <2>2 DEF PageFits, Checking
<1> QED BY <1>2, <1>3, <1>4, <1>5, <1>6, <1>7

\* Where nothing is known that was not before.
LEMMA PageStays ==
    ASSUME Belong, UNCHANGED <<form, checks, known, rekeyed>>, remembered \subseteq remembered'
    PROVE  PageFits(form', checks', known', remembered', rekeyed')
BY PageFitsStill DEF Belong

\* An answered request: the window knows the file, and if another key is in it,
\* that this is so.
LEMMA AnswerKnows ==
    ASSUME Typed, Belong, CallAnswered
    PROVE  /\ PageFits(form, checks, known', remembered, rekeyed')
           /\ call.kind = "settings" => known' = file
<1>0. /\ PageFits(form, checks, known, remembered, rekeyed) /\ rekeyed \in BOOLEAN
      /\ SoundConfig(file) /\ SoundConfig(known) /\ KnownModels(file, remembered)
      /\ KnownModels(known, remembered) /\ Placed(form)
      /\ Fits(form, known, remembered, rekeyed)
      BY DEF Belong, Filed, Typed, ConfigsTyped, PageFits
<1>1. /\ ui = "answered" /\ remembered' = remembered
      /\ known' = IF call.values = NoValues THEN known ELSE file
      /\ rekeyed' = (rekeyed \/ (/\ known'["openai.api_key"] # known["openai.api_key"]
                                 /\ "openai.api_key" \notin DOMAIN call.values))
      BY DEF CallAnswered, fileVars
<1>2. "openai.api_key" \in DOMAIN call.values => form.key # None
  <2>1. CASE call.kind = "export" BY <1>1, <2>1 DEF Belong, Asked
  <2>2. CASE call.kind # "export"
        BY <1>0, <1>1, <2>2, SendsItsModel DEF Belong, Asked
  <2> QED BY <2>1, <2>2
<1>3. rekeyed' \in BOOLEAN /\ (rekeyed => rekeyed') BY <1>0, <1>1
<1>4. form.key # None \/ known["openai.api_key"] = known'["openai.api_key"] \/ rekeyed'
      BY <1>1, <1>2
<1>5. PageFits(form, checks, known', remembered, rekeyed')
      BY <1>0, <1>3, <1>4, PageFitsStill
<1>6. ASSUME call.kind = "settings" PROVE known' = file
  <2>1. "optimizer" \in DOMAIN call.values
        BY <1>0, <1>1, <1>6, SendsItsModel DEF Belong, Asked
  <2>2. call.values # NoValues BY <2>1 DEF NoValues
  <2> QED BY <1>1, <2>2
<1> QED BY <1>5, <1>6

\* And the page it shows then.
LEMMA AnswerFits ==
    ASSUME Typed, Belong, CallAnswered
    PROVE  PageFits(form', checks', known', remembered', rekeyed')
<1>1. remembered' = remembered BY DEF CallAnswered, fileVars
<1>2. PageFits(form, checks, known', remembered, rekeyed') BY AnswerKnows
<1>3. CASE UNCHANGED <<page, formVars>> BY <1>1, <1>2, <1>3 DEF formVars
<1>4. CASE call.kind = "settings" /\ Leave(from, file)
  <2>1. known' = file BY <1>4, AnswerKnows
  <2>2. SoundConfig(file) /\ KnownModels(file, remembered) BY DEF Typed, ConfigsTyped, Belong, Filed
  <2>3. PageFits(form', checks', file, remembered, rekeyed') BY <1>2, <1>4, <2>1, <2>2, LeaveFits
  <2> QED BY <1>1, <2>1, <2>3
<1> QED BY <1>3, <1>4 DEF CallAnswered, ShowPage

\* Every step.
LEMMA PageGoesOnToFit ==
    ASSUME Typed, Belong, [Next]_vars
    PROVE  PageFits(form', checks', known', remembered', rekeyed')
<1>0. /\ PageFits(form, checks, known, remembered, rekeyed) /\ SoundConfig(known)
      /\ KnownModels(known, remembered)
      BY DEF Belong, Filed, Typed, ConfigsTyped
<1>1. CASE EditAddress \/ EditKey \/ PickBackend \/ PickAuth \/ EditModel \/ CheckConnection
  <2>1. UNCHANGED <<known, remembered, rekeyed>>
        BY <1>1 DEF EditAddress, EditKey, PickBackend, PickAuth, EditModel, CheckConnection,
           editFrame, pageFrame, idleFrame, fileVars
  <2> QED BY <1>1, <2>1, EditFits
<1>2. CASE CancelSettings \/ Navigate
  <2>1. UNCHANGED <<known, remembered, rekeyed>> /\ \E to : Leave(to, known)
        BY <1>2 DEF CancelSettings, Navigate, ShowPage, pageFrame, idleFrame, fileVars
  <2> QED BY <1>0, <2>1, LeaveFits
<1>3. CASE StatusApplied
  <2>1. UNCHANGED <<known, remembered, rekeyed>> BY <1>3 DEF StatusApplied, eventFrame, fileVars
  <2>2. CASE Leave("other", known) BY <1>0, <2>1, <2>2, LeaveFits
  <2>3. CASE UNCHANGED formVars BY <2>1, <2>3, PageStays DEF formVars
  <2> QED BY <1>3, <2>2, <2>3 DEF StatusApplied
<1>4. CASE CheckReady
  <2>1. UNCHANGED <<known, remembered, rekeyed>> BY <1>4 DEF CheckReady, eventFrame, fileVars
  <2>2. PICK k \in checks :
           /\ checks' = checks \ {k}
           /\ \/ k.fresh /\ \E names \in Offers : form' \in Found(form, k.query, names, known)
              \/ UNCHANGED form
        BY <1>4 DEF CheckReady
  <2>3. Checking(checks', form, known, rekeyed) BY <1>0, <2>2 DEF PageFits, Checking
  <2>4. CASE UNCHANGED form BY <1>0, <2>1, <2>3, <2>4 DEF PageFits
  <2>5. CASE k.fresh /\ \E names \in Offers : form' \in Found(form, k.query, names, known)
    <3>0. PICK names : form' \in Found(form, k.query, names, known) BY <2>5
    <3>1. Placed(form') /\ Fits(form', known, remembered, rekeyed)
          BY <1>0, <2>2, <2>5, <3>0, FoundFits DEF PageFits, Checking, Belong
    <3>2. SameSetting(form, form') BY <1>0, <3>0, FoundKeeps DEF PageFits, Placed
    <3>3. Checking(checks', form', known, rekeyed)
          BY <2>3, <3>2, SameKeys DEF Checking, SameSetting
    <3> QED BY <2>1, <3>1, <3>3 DEF PageFits
  <2> QED BY <2>2, <2>4, <2>5
<1>5. CASE CallAnswered BY <1>5, AnswerFits
<1>6. CASE OpenSettings \/ SaveSettings
      BY <1>6, PageStays DEF OpenSettings, SaveSettings, pageVars, formVars, pageFrame, idleFrame,
         fileVars
<1>7. CASE ExportStep
      BY <1>7, PageStays DEF ExportStep, OpenExport, ChangeFormat, ChangeScope, StartExport,
         ChooseFile, TimerPreview, PreviewReady, pageVars, formVars, pageFrame, idleFrame,
         eventFrame, fileVars
<1>8. CASE RequestStep /\ ~CallAnswered
      BY <1>8, PageStays DEF RequestStep, StartOptimization, CallRefused, SettingsSaved, Replace,
         SettingsLoaded, JobStarted, quietFrame, pageVars, formVars, idleFrame, fileVars
<1>9. CASE OtherStep
      BY <1>9, PageStays DEF OtherStep, JobOfOther, DaemonRestarts, CliReads, CliReplaces, Replace,
         windowVars, pageVars, formVars, fileVars
<1>10. CASE UNCHANGED vars BY <1>10, PageStays DEF vars, pageVars, formVars, fileVars
<1> QED BY <1>1, <1>2, <1>3, <1>4, <1>5, <1>6, <1>7, <1>8, <1>9, <1>10 DEF Next, SettingsStep

-----------------------------------------------------------------------------
\* A new request sends what the page is.
LEMMA AskAsks ==
    ASSUME ui = "idle", NEW kind, NEW values, NEW sent, NEW showed,
           Ask(kind, values, sent, showed), UNCHANGED form,
           IF kind = "export" THEN DOMAIN values \subseteq {"export.format"}
           ELSE values = ProviderSettings(form) /\ ~Incomplete(form)
    PROVE  Asked'
<1>1. CASE UNCHANGED requestVars BY <1>1 DEF Asked, requestVars
<1>2. CASE call' = [kind |-> kind, values |-> values, base |-> file, sent |-> sent, shown |-> showed]
  <2>1. call'.kind = kind /\ call'.values = values BY <1>2
  <2> QED BY <2>1 DEF Asked
<1> QED BY <1>1, <1>2 DEF Ask

\* The page does not change while a request is on its way.
LEMMA AskedStays ==
    ASSUME Typed, Asked, [Next]_vars
    PROVE  Asked'
<1>1. ASSUME ui' \in {"idle", "poll"} PROVE Asked' BY <1>1 DEF Asked
<1>2. ASSUME UNCHANGED <<call, form>>, ui \notin {"idle", "poll"} PROVE Asked' BY <1>2 DEF Asked
<1>3. ASSUME UNCHANGED requestVars, ui \in {"idle", "poll"} PROVE Asked'
      BY <1>3 DEF Asked, requestVars
<1>4. ASSUME UNCHANGED <<requestVars, form>> PROVE Asked' BY <1>4 DEF Asked, requestVars
<1>5. CASE SaveSettings
  <2>1. ui = "idle" /\ ~Incomplete(form) /\ UNCHANGED form
        BY <1>5 DEF SaveSettings, Gesture, Free, pageVars, formVars
  <2> QED BY <1>5, <2>1, AskAsks DEF SaveSettings
<1>6. CASE StartOptimization
  <2>1. ui = "idle" /\ UNCHANGED form BY <1>6 DEF StartOptimization, Gesture, Free, formVars
  <2>2. CASE Incomplete(form) BY <1>4, <1>6, <2>1, <2>2 DEF StartOptimization
  <2>3. CASE ~Incomplete(form) BY <1>6, <2>1, <2>3, AskAsks DEF StartOptimization
  <2> QED BY <2>2, <2>3
<1>7. CASE ChooseFile
  <2>1. ui = "idle" /\ UNCHANGED form BY <1>7 DEF ChooseFile, Free, pageVars, formVars
  <2>2. CASE UNCHANGED requestVars BY <1>4, <2>1, <2>2
  <2>3. ASSUME NEW remember \in BOOLEAN,
               Ask("export", IF remember THEN Only("export.format", dialog.format) ELSE NoValues,
                   <<dialog.format, scope>>, dialog.shown)
        PROVE  Asked'
    <3>1. PICK v : v = IF remember THEN Only("export.format", dialog.format) ELSE NoValues
          OBVIOUS
    <3>2. DOMAIN v \subseteq {"export.format"} BY <3>1 DEF Only, NoValues
    <3> QED BY <2>1, <2>3, <3>1, <3>2, AskAsks
  <2> QED BY <1>7, <2>2, <2>3 DEF ChooseFile
<1>8. CASE SettingsSaved \/ SettingsLoaded \/ JobStarted
      BY <1>2, <1>8 DEF SettingsSaved, SettingsLoaded, JobStarted, quietFrame, pageVars, formVars
<1>9. CASE CallRefused \/ CallAnswered \/ StatusApplied
      BY <1>1, <1>9 DEF CallRefused, CallAnswered, StatusApplied
<1>10. CASE SettingsStep /\ ~SaveSettings
       BY <1>3, <1>10 DEF SettingsStep, OpenSettings, CancelSettings, EditAddress, EditKey,
          PickBackend, PickAuth, EditModel, CheckConnection, CheckReady, Editing, Gesture, Free,
          editFrame, pageFrame
<1>11. CASE ExportStep /\ ~ChooseFile
       BY <1>3, <1>11 DEF ExportStep, OpenExport, ChangeFormat, ChangeScope, StartExport,
          TimerPreview, PreviewReady, Gesture, Free, pageFrame
<1>12. CASE Navigate BY <1>3, <1>12 DEF Navigate, Gesture, Free, pageFrame
<1>13. CASE OtherStep
       BY <1>4, <1>13 DEF OtherStep, JobOfOther, DaemonRestarts, CliReads, CliReplaces, windowVars,
          pageVars, formVars
<1>14. CASE UNCHANGED vars BY <1>4, <1>14 DEF vars, pageVars, formVars
<1> QED BY <1>5, <1>6, <1>7, <1>8, <1>9, <1>10, <1>11, <1>12, <1>13, <1>14 DEF Next, RequestStep

\* What was saved once stays so.
LEMMA KnownStill ==
    ASSUME NEW c, NEW once, NEW ever, once \subseteq ever, KnownModels(c, once)
    PROVE  KnownModels(c, ever)
BY DEF KnownModels, Settled

\* The configurations where the file is not written.
LEMMA FiledStays ==
    ASSUME Filed, UNCHANGED <<file, known, remembered, cli>>,
           ui' = "save" => call'.base = file \/ (ui = "save" /\ call' = call)
    PROVE  Filed'
BY DEF Filed

\* What is saved is remembered, and ChatGPT only comes with a model.
LEMMA FiledGoesOn ==
    ASSUME Typed, Belong, [Next]_vars
    PROVE  Filed'
<1>0. /\ Filed /\ Asked /\ Placed(form) /\ Fits(form, known, remembered, rekeyed)
      /\ "openai.auth_mode" \in Settings /\ "openai.auth_mode" \notin ModelSettings
      /\ ModelSettings \subseteq Settings /\ "openai.chatgpt_model" \in ModelSettings
      BY DEF Belong, PageFits, Settings, ModelSettings
<1>1. CASE SettingsSaved
  <2>1. /\ ui = "save" /\ ui' = "saved" /\ UNCHANGED <<known, cli>>
        /\ file' = Merge(call.base, call.values)
        /\ remembered' = remembered
               \cup {call.values[s] : s \in ModelSettings \cap DOMAIN call.values}
        BY <1>1 DEF SettingsSaved, Replace, quietFrame
  <2>2. KnownModels(call.base, remembered) BY <1>0, <2>1 DEF Filed
  <2>3. /\ \A s \in ModelSettings \cap DOMAIN call.values :
               Settled(call.values[s], s, remembered')
        /\ "openai.auth_mode" \in DOMAIN call.values /\ call.values["openai.auth_mode"] = "chatgpt" =>
               "openai.chatgpt_model" \in DOMAIN call.values
        /\ "openai.chatgpt_model" \in DOMAIN call.values =>
               call.values["openai.chatgpt_model"] # None
    <3>1. CASE call.kind = "export"
          BY <1>0, <2>1, <3>1 DEF Asked, ModelSettings
    <3>2. CASE call.kind # "export"
      <4>1. call.values = ProviderSettings(form) /\ ~Incomplete(form)
            BY <1>0, <2>1, <3>2 DEF Asked
      <4>2. \A s \in ModelSettings \cap DOMAIN call.values :
                call.values[s].setting = s /\ call.values[s] \in remembered'
            BY <1>0, <2>1, <4>1, SendsItsModel DEF Offered, Settled, Model
      <4> QED BY <1>0, <4>1, <4>2, SendsItsModel DEF Settled
    <3> QED BY <3>1, <3>2
  <2>4. \A s \in ModelSettings : file'[s] = None \/ Settled(file'[s], s, remembered')
        BY <1>0, <2>1, <2>2, <2>3 DEF Merge, KnownModels, Settled
  <2>5. Or(file'["openai.auth_mode"], "api_key") = "chatgpt"
            => file'["openai.chatgpt_model"] # None
        BY <1>0, <2>1, <2>2, <2>3 DEF Merge, KnownModels, Or
  <2>6. KnownModels(file', remembered') BY <2>4, <2>5 DEF KnownModels
  <2>7. KnownModels(known', remembered') BY <1>0, <2>1, KnownStill DEF Filed
  <2>8. cli # NoSave => KnownModels(cli.base, remembered') BY <1>0, <2>1, KnownStill DEF Filed
  <2> QED BY <1>0, <2>1, <2>6, <2>7, <2>8 DEF Filed
<1>2. CASE CliReplaces
  <2>1. /\ cli # NoSave /\ cli' = NoSave /\ UNCHANGED <<known, ui, call>>
        /\ file' = Merge(cli.base, cli.values) /\ remembered \subseteq remembered'
        BY <1>2 DEF CliReplaces, Replace, windowVars, requestVars
  <2>2. /\ KnownModels(cli.base, remembered')
        /\ DOMAIN cli.values \cap (ModelSettings \cup {"openai.auth_mode"}) = {}
        BY <1>0, <2>1, KnownStill DEF Filed
  <2>3. \A s \in ModelSettings \cup {"openai.auth_mode"} : file'[s] = cli.base[s]
        BY <1>0, <2>1, <2>2 DEF Merge
  <2>4. KnownModels(file', remembered') BY <1>0, <2>2, <2>3 DEF KnownModels
  <2>5. KnownModels(known', remembered') BY <1>0, <2>1, KnownStill DEF Filed
  <2>6. ui' = "save" => KnownModels(call'.base, remembered')
        BY <1>0, <2>1, KnownStill DEF Filed
  <2> QED BY <2>1, <2>4, <2>5, <2>6 DEF Filed
<1>3. CASE CliReads
  <2>1. UNCHANGED <<file, known, remembered, ui, call>>
        BY <1>3 DEF CliReads, windowVars, requestVars, fileVars
  <2>2. PICK s \in CliSettings : \E v : cli' = [base |-> file, values |-> Only(s, v)]
        BY <1>3 DEF CliReads
  <2>3. PICK v : cli' = [base |-> file, values |-> Only(s, v)] BY <2>2
  <2>4. cli'.base = file /\ DOMAIN cli'.values = {s} BY <2>3 DEF Only
  <2>5. s \notin ModelSettings \cup {"openai.auth_mode"} BY PagesAssumption DEF ModelSettings
  <2> QED BY <1>0, <2>1, <2>4, <2>5 DEF Filed
<1>4. CASE CallAnswered
  <2>1. known' \in {known, file} /\ ui' \in {"idle", "poll"} /\ UNCHANGED <<file, remembered, cli>>
        BY <1>4 DEF CallAnswered, fileVars, otherVars
  <2> QED BY <1>0, <2>1 DEF Filed
<1>5. ASSUME NEW kind, NEW values, NEW sent, NEW showed, Ask(kind, values, sent, showed)
      PROVE  ui' = "save" => call'.base = file \/ (ui = "save" /\ call' = call)
      BY <1>5 DEF Ask, requestVars
<1>6. CASE SaveSettings
      BY <1>0, <1>5, <1>6, FiledStays DEF SaveSettings, idleFrame, fileVars, otherVars
<1>7. CASE StartOptimization
      BY <1>0, <1>5, <1>7, FiledStays DEF StartOptimization, idleFrame, fileVars, otherVars,
         requestVars
<1>8. CASE ChooseFile
      BY <1>0, <1>5, <1>8, FiledStays DEF ChooseFile, idleFrame, fileVars, otherVars, requestVars
<1>9. CASE SettingsStep /\ ~SaveSettings
      BY <1>0, <1>9, FiledStays DEF SettingsStep, OpenSettings, CancelSettings, EditAddress,
         EditKey, PickBackend, PickAuth, EditModel, CheckConnection, CheckReady, editFrame,
         pageFrame, idleFrame, eventFrame, requestVars, fileVars, otherVars
<1>10. CASE ExportStep /\ ~ChooseFile
       BY <1>0, <1>10, FiledStays DEF ExportStep, OpenExport, ChangeFormat, ChangeScope,
          StartExport, TimerPreview, PreviewReady, pageFrame, idleFrame, eventFrame, requestVars,
          fileVars, otherVars
<1>11. CASE CallRefused \/ SettingsLoaded \/ JobStarted
       BY <1>0, <1>11, FiledStays DEF CallRefused, SettingsLoaded, JobStarted, quietFrame, fileVars
<1>12. CASE Navigate \/ StatusApplied
       BY <1>0, <1>12, FiledStays DEF Navigate, StatusApplied, pageFrame, idleFrame, eventFrame,
          requestVars, fileVars, otherVars
<1>13. CASE JobOfOther \/ DaemonRestarts
       BY <1>0, <1>13, FiledStays DEF JobOfOther, DaemonRestarts, windowVars, requestVars, fileVars
<1>14. CASE UNCHANGED vars
       BY <1>0, <1>14, FiledStays DEF vars, requestVars, fileVars, otherVars
<1> QED BY <1>1, <1>2, <1>3, <1>4, <1>6, <1>7, <1>8, <1>9, <1>10, <1>11, <1>12, <1>13, <1>14
        DEF Next, RequestStep, OtherStep

\* The constructor.
LEMMA InitBelongs == Init => Belong
<1> SUFFICES ASSUME Init PROVE Belong OBVIOUS
<1>1. PICK b \in Backends : file = Merge(Empty, Only("optimizer", b)) BY DEF Init
<1>2. KnownModels(file, remembered)
  <2>1. \A s \in ModelSettings \cup {"openai.auth_mode"} : file[s] = None
        BY <1>1 DEF Merge, Only, Empty, Settings, ModelSettings
  <2> QED BY <2>1 DEF KnownModels, Or
<1>3. SoundConfig(file) /\ known = file /\ ui = "idle" /\ cli = NoSave /\ rekeyed = FALSE
      BY InitIsTyped DEF Init, Typed, ConfigsTyped
<1>4. Placed(Blank) /\ ModelKey(Blank) = "local_llm.model"
      BY DEF Placed, IsForm, Controls, Blank, Adapters, Access, ModelKey
<1>5. OwnList(Blank, file, remembered, rekeyed)
  <2>1. Listing(Blank, file, remembered, rekeyed) BY DEF Listing, Blank
  <2>2. OwnKeys("local_llm") = {"local_llm.model"} BY DEF OwnKeys, ModelSettings
  <2> QED BY <1>4, <2>1, <2>2 DEF OwnList, Blank
<1>6. PICK g : g = BackendChanged(Blank, file) OBVIOUS
<1>7. Placed(g) /\ Fits(g, file, remembered, rekeyed)
      BY <1>2, <1>3, <1>4, <1>5, <1>6, BackendFits
<1>8. form = LoadSettings(g, file) BY <1>6 DEF Init
<1>9. Placed(form) /\ Fits(form, file, remembered, rekeyed) BY <1>2, <1>3, <1>7, <1>8, LoadFits
<1>10. Checking(checks, form, file, rekeyed)
  <2>1. checks = {} \/ checks = {Check(form, file)} BY DEF Init
  <2> QED BY <1>9, <2>1, NewCheck DEF Checking
<1>11. PageFits(form, checks, known, remembered, rekeyed) BY <1>3, <1>9, <1>10 DEF PageFits
<1>12. Filed /\ Asked BY <1>2, <1>3 DEF Filed, Asked
<1> QED BY <1>3, <1>11, <1>12 DEF Belong

\* Only an answer brings another key.
LEMMA RekeyedStays ==
    ASSUME rekeyed \in BOOLEAN, [Next]_vars
    PROVE  rekeyed' \in BOOLEAN
<1>1. CASE CallAnswered BY <1>1 DEF CallAnswered
<1>2. CASE SettingsStep
      BY <1>2 DEF SettingsStep, OpenSettings, CancelSettings, SaveSettings, EditAddress, EditKey,
         PickBackend, PickAuth, EditModel, CheckConnection, CheckReady, editFrame, pageFrame,
         idleFrame, eventFrame
<1>3. CASE ExportStep
      BY <1>3 DEF ExportStep, OpenExport, ChangeFormat, ChangeScope, StartExport, ChooseFile,
         TimerPreview, PreviewReady, pageFrame, idleFrame, eventFrame
<1>4. CASE RequestStep /\ ~CallAnswered
      BY <1>4 DEF RequestStep, StartOptimization, CallRefused, SettingsSaved, SettingsLoaded,
         JobStarted, quietFrame, idleFrame
<1>5. CASE Navigate \/ StatusApplied
      BY <1>5 DEF Navigate, StatusApplied, pageFrame, idleFrame, eventFrame
<1>6. CASE OtherStep
      BY <1>6 DEF OtherStep, JobOfOther, DaemonRestarts, CliReads, CliReplaces, windowVars
<1>7. CASE UNCHANGED vars BY <1>7 DEF vars
<1> QED BY <1>1, <1>2, <1>3, <1>4, <1>5, <1>6, <1>7 DEF Next

\* Every step of the window and of the other processes.
LEMMA NextBelongs ==
    ASSUME Typed, Belong, [Next]_vars
    PROVE  Belong'
<1>1. rekeyed' \in BOOLEAN BY RekeyedStays DEF Belong
<1>2. Asked BY DEF Belong
<1> QED BY <1>1, <1>2, PageGoesOnToFit, FiledGoesOn, AskedStays DEF Belong

\* What the page sends belongs to what it sends it with.
LEMMA SentBelongs ==
    ASSUME Belong
    PROVE  NoForeignModel
<1>1. SUFFICES ASSUME ui = "save", call.kind # "export",
                      NEW s \in ModelSettings \cap DOMAIN call.values
               PROVE  LET m == call.values[s] IN
                      /\ m.setting = s
                      /\ \/ m.at \in {"typed", "default"}
                         \/ m \in remembered
                         \/ m.at = Query(form, known).at
                         \/ rekeyed
      BY DEF NoForeignModel
<1>2. call.values = ProviderSettings(form) /\ ~Incomplete(form) BY <1>1 DEF Belong, Asked
<1>3. s = ModelKey(form) /\ Offered(call.values[s], form, known, remembered, rekeyed)
      BY <1>1, <1>2, SendsItsModel DEF Belong, PageFits
<1> QED BY <1>3 DEF Offered, Settled, Model

\* For every set of addresses and keys, every order of edits, checks, answers
\* and saves, the command line's included: a model is only sent with what it
\* was offered for (app.py:642-903).
THEOREM NoModelIsForeign == Spec => []NoForeignModel
<1>1. Typed /\ Belong /\ [Next]_vars => Belong' BY NextBelongs
<1> QED BY <1>1, InitIsTyped, NextIsTyped, InitIsPreviewed, NextIsPreviewed, InitIsLeft, NextIsLeft,
           InitBelongs, SentBelongs, PTL DEF Spec

-----------------------------------------------------------------------------
(***************************************************************************)
(* What was typed                                                          *)
(***************************************************************************)

\* The controls of the model are those of a configuration.
ModelLoads(f, c) ==
    /\ f.manual = (f.backend # "dummy" /\ c[ManualKey(f)] = TRUE)
    /\ f.written \in {None, DefaultModel, Saved(ModelKey(f), c)}

\* The demonstration has no list to choose from.
NothingToPick(f) == f.backend = "dummy" => f.picked = FALSE

\* What the user chose in the list is kept where nothing else can be chosen.
Unpicked(f, c) ==
    f.picked = FALSE \/ (f.backend = "local_llm" /\ ~Lists(f, c["local_llm.model"]))

\* Changes of the lists leave the other controls of the model alone.
LEMMA OfferLeaves ==
    ASSUME NEW f, IsForm(f), NEW model
    PROVE  LET g == Offer(AddressChanged(f), model) IN
           /\ IsForm(g) /\ SameSetting(f, g) /\ g.manual = f.manual /\ g.written = f.written
           /\ g.picked = FALSE /\ g.modelBackend = f.modelBackend
<1>1. PICK a : a = AddressChanged(f) OBVIOUS
<1>2. /\ IsForm(a) /\ SameSetting(f, a) /\ a.manual = f.manual /\ a.written = f.written
      /\ a.modelBackend = f.modelBackend
      BY <1>1 DEF AddressChanged, IsForm, Controls, SameSetting
<1>3. PICK g : g = Offer(a, model) OBVIOUS
<1>4. /\ IsForm(g) /\ SameSetting(a, g) /\ g.manual = a.manual /\ g.written = a.written
      /\ g.picked = FALSE /\ g.modelBackend = a.modelBackend
      BY <1>2, <1>3 DEF Offer, IsForm, Controls, SameSetting
<1> QED BY <1>1, <1>2, <1>3, <1>4 DEF SameSetting

\* Nothing is picked once the models of a backend are forgotten.
LEMMA ForgetUnpicks ==
    ASSUME NEW f, IsForm(f)
    PROVE  LET g == ForgetModels(f) IN
           /\ IsForm(g) /\ SameSetting(f, g) /\ g.manual = f.manual /\ g.written = f.written
           /\ g.picked = FALSE
<1>1. PICK o : o = Offer(AddressChanged(f), None) OBVIOUS
<1>2. /\ IsForm(o) /\ SameSetting(f, o) /\ o.manual = f.manual /\ o.written = f.written
      /\ o.picked = FALSE
      BY <1>1, OfferLeaves
<1>3. PICK g : g = [o EXCEPT !.modelBackend = ModelKey(f)] OBVIOUS
<1>4. /\ IsForm(g) /\ SameSetting(o, g) /\ g.manual = o.manual /\ g.written = o.written
      /\ g.picked = o.picked
      BY <1>2, <1>3 DEF IsForm, Controls, SameSetting
<1> QED BY <1>1, <1>2, <1>3, <1>4 DEF ForgetModels, SameSetting

\* Another access of OpenAI brings its model.
LEMMA AuthUnpicks ==
    ASSUME NEW f, IsForm(f), NEW config
    PROVE  LET g == OpenaiAuthChanged(f, config) IN
           /\ IsForm(g) /\ SameSetting(f, g) /\ g.manual = f.manual /\ g.picked = FALSE
           /\ g.written \in {None, DefaultModel, Saved(ModelKey(f), config)}
<1>1. PICK model :
          /\ model = Or(Saved(ModelKey(f), config), IF f.auth = "chatgpt" THEN None ELSE DefaultModel)
          /\ OpenaiAuthChanged(f, config) =
                 [Offer(AddressChanged(f), model) EXCEPT !.modelBackend = ModelKey(f), !.written = model]
      BY DEF OpenaiAuthChanged
<1>2. PICK o : o = Offer(AddressChanged(f), model) OBVIOUS
<1>3. IsForm(o) /\ SameSetting(f, o) /\ o.manual = f.manual /\ o.picked = FALSE
      BY <1>2, OfferLeaves
<1>4. PICK g : g = [o EXCEPT !.modelBackend = ModelKey(f), !.written = model] OBVIOUS
<1>5. /\ IsForm(g) /\ SameSetting(o, g) /\ g.manual = o.manual /\ g.written = model
      /\ g.picked = o.picked
      BY <1>3, <1>4 DEF IsForm, Controls, SameSetting
<1>6. model \in {None, DefaultModel, Saved(ModelKey(f), config)} BY <1>1 DEF Or
<1> QED BY <1>1, <1>2, <1>3, <1>4, <1>5, <1>6 DEF SameSetting

\* The settings of the model are those of the backend.
LEMMA SameModelKeys ==
    ASSUME NEW f, NEW g, SameSetting(f, g)
    PROVE  ModelKey(g) = ModelKey(f) /\ ManualKey(g) = ManualKey(f)
BY DEF SameSetting, ModelKey, ManualKey

\* Loading the models of a backend does not touch how its model is given.
LEMMA ModelsLoad ==
    ASSUME NEW f, IsForm(f), NEW config, ModelLoads(f, config)
    PROVE  LET g == LoadModels(f, config) IN
           ModelLoads(g, config) /\ (g = f \/ g.picked = FALSE)
<1>1. PICK g : g = ForgetModels(f) OBVIOUS
<1>2. /\ IsForm(g) /\ SameSetting(f, g) /\ g.manual = f.manual /\ g.written = f.written
      /\ g.picked = FALSE
      BY <1>1, ForgetUnpicks
<1>3. ModelKey(g) = ModelKey(f) /\ ManualKey(g) = ManualKey(f) BY <1>2, SameModelKeys
<1>4. ModelLoads(g, config) BY <1>2, <1>3 DEF ModelLoads, SameSetting
<1>5. PICK h : h = OpenaiAuthChanged(g, config) OBVIOUS
<1>6. /\ IsForm(h) /\ SameSetting(g, h) /\ h.manual = g.manual /\ h.picked = FALSE
      /\ h.written \in {None, DefaultModel, Saved(ModelKey(g), config)}
      BY <1>2, <1>5, AuthUnpicks
<1>7. ModelKey(h) = ModelKey(g) /\ ManualKey(h) = ManualKey(g) BY <1>6, SameModelKeys
<1>8. ModelLoads(h, config) BY <1>4, <1>6, <1>7 DEF ModelLoads, SameSetting
<1>9. LoadModels(f, config) \in {f, g, h} BY <1>1, <1>5 DEF LoadModels
<1> QED BY <1>2, <1>4, <1>6, <1>8, <1>9

\* Turning to a backend loads its model; what was picked for another is gone.
LEMMA BackendModels ==
    ASSUME NEW f, Placed(f), NEW config,
           f.backend = "dummy" => f.picked = FALSE \/ f.modelBackend # "dummy.model"
    PROVE  ModelLoads(BackendChanged(f, config), config) /\ NothingToPick(BackendChanged(f, config))
<1>1. PICK a : a = LoadAuth(f, config) OBVIOUS
<1>2. /\ IsForm(a) /\ a.backend = f.backend /\ a.picked = f.picked
      /\ a.modelBackend = f.modelBackend
      BY <1>1 DEF LoadAuth, Placed, IsForm, Controls
<1>3. PICK k : k = ClearKey(a, config) OBVIOUS
<1>4. /\ IsForm(k) /\ k.backend = a.backend /\ k.modelBackend = a.modelBackend
      /\ k.picked = a.picked \/ k.picked = FALSE
  <2>1. PICK b : b = [a EXCEPT !.key = None] OBVIOUS
  <2>2. /\ IsForm(b) /\ b.backend = a.backend /\ b.modelBackend = a.modelBackend
        /\ b.picked = a.picked
        BY <1>2, <2>1 DEF IsForm, Controls
  <2>3. PICK o, model : o = Offer(AddressChanged(b), model) /\ KeyChanged(b, config) \in {b, o}
        BY DEF KeyChanged
  <2>4. IsForm(o) /\ SameSetting(b, o) /\ o.picked = FALSE /\ o.modelBackend = b.modelBackend
        BY <2>2, <2>3, OfferLeaves
  <2>5. k \in {a, b, o} BY <1>3, <2>1, <2>3 DEF ClearKey
  <2> QED BY <1>2, <2>2, <2>4, <2>5 DEF SameSetting
<1>5. PICK manual, written :
          /\ LoadManual(k, config) = [k EXCEPT !.manual = manual, !.written = written]
          /\ manual = (k.backend # "dummy" /\ config[ManualKey(k)] = TRUE)
          /\ written \in {None, DefaultModel, Saved(ModelKey(k), config)}
      BY DEF LoadManual, Or
<1>6. PICK m : m = [k EXCEPT !.manual = manual, !.written = written] OBVIOUS
<1>7. /\ IsForm(m) /\ SameSetting(k, m) /\ m.manual = manual /\ m.written = written
      /\ m.picked = k.picked /\ m.modelBackend = k.modelBackend
      BY <1>4, <1>6 DEF IsForm, Controls, SameSetting
<1>8. ModelLoads(m, config)
  <2>1. ModelKey(m) = ModelKey(k) /\ ManualKey(m) = ManualKey(k) BY <1>7, SameModelKeys
  <2> QED BY <1>5, <1>7, <2>1 DEF ModelLoads, SameSetting
<1>9. PICK h : h = LoadModels(m, config) OBVIOUS
<1>10. ModelLoads(h, config) /\ (h = m \/ h.picked = FALSE) BY <1>7, <1>8, <1>9, ModelsLoad
<1>11. NothingToPick(h)
  <2>1. SUFFICES ASSUME h.backend = "dummy", h.picked # FALSE PROVE FALSE BY DEF NothingToPick
  <2>2. h = m BY <1>10, <2>1
  <2>3. m.backend = "dummy" /\ ModelKey(m) = "dummy.model" BY <2>1, <2>2 DEF ModelKey
  <2>4. m.modelBackend # "dummy.model" BY <1>2, <1>4, <1>7, <2>1, <2>2, <2>3 DEF SameSetting
  <2>5. LoadModels(m, config) = ForgetModels(m) BY <2>3, <2>4 DEF LoadModels
  <2> QED BY <1>7, <1>9, <2>1, <2>5, ForgetUnpicks
<1> QED BY <1>1, <1>3, <1>5, <1>6, <1>9, <1>10, <1>11 DEF BackendChanged

\* Choosing the saved model takes the choice from the user where it can.
LEMMA ChooseUnpicks ==
    ASSUME NEW f, Placed(f), NEW config, ModelLoads(f, config), NothingToPick(f)
    PROVE  LET g == ChooseSaved(f, config) IN ModelLoads(g, config) /\ Unpicked(g, config)
<1>1. PICK model : /\ ChooseSaved(f, config) = Choose(Listed(f, model), model)
                   /\ f.backend = "local_llm" => model = Saved(ModelKey(f), config)
      BY DEF ChooseSaved
<1>2. PICK g : g = Listed(f, model) OBVIOUS
<1>3. /\ IsForm(g) /\ SameSetting(f, g) /\ g.manual = f.manual /\ g.written = f.written
      /\ g.picked = FALSE \/ Lists(g, model) \/ (f.backend = "local_llm" /\ g = f)
  <2>1. CASE f.backend = "openai" /\ model # None /\ ~Lists(f, model)
    <3>1. PICK h : h = [f EXCEPT !.box = f.box \cup {model}] OBVIOUS
    <3>2. /\ IsForm(h) /\ SameSetting(f, h) /\ h.manual = f.manual /\ h.written = f.written
          /\ h.box = f.box \cup {model}
          BY <3>1 DEF Placed, IsForm, Controls, SameSetting
    <3>3. Lists(h, model) BY <2>1, <3>2 DEF Lists, Named
    <3>4. g = h BY <1>2, <2>1, <3>1 DEF Listed
    <3> QED BY <3>2, <3>3, <3>4
  <2>2. CASE f.backend = "openai" /\ model # None /\ Lists(f, model)
    <3>1. g = f BY <1>2, <2>2 DEF Listed
    <3> QED BY <2>2, <3>1 DEF Placed, SameSetting
  <2>3. CASE f.backend = "openai" /\ model = None
    <3>1. g = Offer(f, None) BY <1>2, <2>3 DEF Listed
    <3> QED BY <3>1 DEF Offer, Placed, IsForm, Controls, SameSetting
  <2>4. CASE f.backend # "openai"
    <3>1. g = f BY <1>2, <2>4 DEF Listed
    <3> QED BY <2>4, <3>1 DEF Placed, Adapters, NothingToPick, SameSetting
  <2> QED BY <2>1, <2>2, <2>3, <2>4
<1>4. ModelKey(g) = ModelKey(f) /\ ManualKey(g) = ManualKey(f) BY <1>3, SameModelKeys
<1>5. ModelLoads(g, config) BY <1>3, <1>4 DEF ModelLoads, SameSetting
<1>6. CASE Lists(g, model)
  <2>1. PICK m : m = CHOOSE n \in Named(g.box, model) : TRUE OBVIOUS
  <2>2. PICK h : h = [g EXCEPT !.chosen = m, !.picked = FALSE] OBVIOUS
  <2>3. /\ SameSetting(g, h) /\ h.manual = g.manual /\ h.written = g.written /\ h.picked = FALSE
        BY <1>3, <2>2 DEF IsForm, Controls, SameSetting
  <2>4. ModelKey(h) = ModelKey(g) /\ ManualKey(h) = ManualKey(g) BY <2>3, SameModelKeys
  <2>5. ModelLoads(h, config) BY <1>5, <2>3, <2>4 DEF ModelLoads, SameSetting
  <2>6. Choose(g, model) = h BY <1>6, <2>1, <2>2 DEF Choose
  <2> QED BY <1>1, <1>2, <2>3, <2>5, <2>6 DEF Unpicked
<1>7. CASE ~Lists(g, model)
  <2>1. Choose(g, model) = g BY <1>7 DEF Choose
  <2>2. Unpicked(g, config)
    <3>1. CASE g.picked = FALSE BY <3>1 DEF Unpicked
    <3>2. CASE f.backend = "local_llm" /\ g = f
      <4>1. model = config["local_llm.model"]
            BY <1>1, <3>2, ModelKeys DEF Saved, Settings, ModelSettings
      <4> QED BY <1>7, <3>2, <4>1 DEF Unpicked
    <3> QED BY <1>3, <1>7, <3>1, <3>2
  <2> QED BY <1>1, <1>2, <1>5, <2>1, <2>2
<1> QED BY <1>6, <1>7

\* Loading a configuration.
LEMMA LoadUnpicks ==
    ASSUME NEW f, Placed(f), NEW config, SoundConfig(config), NEW once, NEW any,
           KnownModels(config, once), Fits(f, config, once, any), NothingToPick(f)
    PROVE  LET g == LoadSettings(f, config) IN ModelLoads(g, config) /\ Unpicked(g, config)
<1>1. PICK b : b = LoadBackend(f, config) OBVIOUS
<1>2. Placed(b) /\ Fits(b, config, once, any) /\ NothingToPick(b)
  <2>1. PICK o : o = Or(config["optimizer"], "local_llm") OBVIOUS
  <2>2. o \in Adapters BY <2>1 DEF Or, SoundConfig, Adapters
  <2>3. CASE o = f.backend BY <1>1, <2>1, <2>3 DEF LoadBackend
  <2>4. CASE o # f.backend
    <3>1. PICK g : g = [f EXCEPT !.backend = o] OBVIOUS
    <3>2. Placed(g) /\ g.backend = o /\ g.modelBackend = f.modelBackend
          BY <2>2, <3>1 DEF Placed, IsForm, Controls
    <3>3. b = BackendChanged(g, config) BY <1>1, <2>1, <2>4, <3>1 DEF LoadBackend
    <3>4. o = "dummy" => g.modelBackend # "dummy.model"
          BY <2>4, <3>2, ModelKeys DEF Fits, Placed, Adapters, Access
    <3>5. NothingToPick(b) BY <3>2, <3>3, <3>4, BackendModels
    <3> QED BY <2>2, <2>4, <3>1, <3>3, <3>5, OtherBackendFits DEF Fits
  <2> QED BY <2>3, <2>4
<1>3. PICK a : a = LoadAddress(b, config) OBVIOUS
<1>4. Placed(a) /\ Fits(a, config, once, any) BY <1>2, <1>3, AddressFits DEF LoadAddress
<1>5. NothingToPick(a)
  <2>1. PICK v : v = Or(config["local_llm.address"], LocalAddress) OBVIOUS
  <2>2. PICK g : g = [b EXCEPT !.address = v] OBVIOUS
  <2>3. IsForm(g) /\ g.backend = b.backend /\ g.picked = b.picked
        BY <1>2, <2>2 DEF Placed, IsForm, Controls
  <2>4. AddressChanged(g).backend = g.backend /\ AddressChanged(g).picked = g.picked
        BY <2>3 DEF AddressChanged, IsForm, Controls
  <2> QED BY <1>2, <1>3, <2>1, <2>2, <2>3, <2>4 DEF LoadAddress, NothingToPick
<1>6. OwnList(a, config, once, any) BY <1>4 DEF OwnList, Fits
<1>7. PICK k : k = BackendChanged(a, config) OBVIOUS
<1>8. Placed(k) BY <1>4, <1>6, <1>7, BackendFits
<1>9. ModelLoads(k, config) /\ NothingToPick(k)
      BY <1>4, <1>5, <1>7, BackendModels DEF NothingToPick
<1>10. LoadSettings(f, config) = ChooseSaved(k, config) BY <1>1, <1>3, <1>7 DEF LoadSettings
<1> QED BY <1>8, <1>9, <1>10, ChooseUnpicks

-----------------------------------------------------------------------------
\* Away from the settings page nothing typed is left in the model either.
NoDraft ==
    /\ NothingToPick(form)
    /\ page # "settings" => ModelLoads(form, loaded) /\ Unpicked(form, loaded)

\* A step that leaves the settings page alone.
LEMMA NoDraftStays ==
    ASSUME NoDraft, UNCHANGED <<page, form, loaded>>
    PROVE  NoDraft'
BY DEF NoDraft

\* Turning a page.
LEMMA LeaveIsNoDraft ==
    ASSUME NoDraft, NEW config, NEW once, NEW any, PageFits(form, checks, config, once, any),
           SoundConfig(config), KnownModels(config, once), NEW to, Leave(to, config)
    PROVE  NoDraft'
<1>1. CASE page = "settings" /\ to # "settings"
  <2>1. form' = LoadSettings(form, config) /\ loaded' = config BY <1>1 DEF Leave
  <2>2. ModelLoads(form', config) /\ Unpicked(form', config)
        BY <2>1, LoadUnpicks DEF NoDraft, PageFits
  <2> QED BY <2>1, <2>2 DEF NoDraft, Unpicked, NothingToPick
<1>2. CASE ~(page = "settings" /\ to # "settings") BY <1>2 DEF NoDraft, Leave, formVars
<1> QED BY <1>1, <1>2

\* Only a backend with a list has something to pick.
LEMMA EditIsNoDraft ==
    ASSUME NoDraft, Belong,
           EditAddress \/ EditKey \/ PickBackend \/ PickAuth \/ EditModel \/ CheckConnection
    PROVE  NoDraft'
<1>1. page = "settings" /\ page' = page
      BY DEF EditAddress, EditKey, PickBackend, PickAuth, EditModel, CheckConnection, Editing,
         editFrame
<1>2. SUFFICES NothingToPick(form') BY <1>1 DEF NoDraft
<1>3. Placed(form) /\ form.modelBackend = ModelKey(form) BY DEF Belong, PageFits, Fits
<1>4. CASE EditAddress
  <2>1. PICK a : form' = AddressChanged([form EXCEPT !.address = a]) BY <1>4 DEF EditAddress
  <2>2. PICK g : g = [form EXCEPT !.address = a] OBVIOUS
  <2>3. IsForm(g) /\ g.backend = form.backend BY <1>3, <2>2 DEF Placed, IsForm, Controls
  <2>4. form.backend = "local_llm" BY <1>4 DEF EditAddress
  <2> QED BY <2>1, <2>2, <2>3, <2>4, AddressKeeps DEF SameSetting, NothingToPick
<1>5. CASE EditKey
  <2>1. PICK k : form' = KeyChanged([form EXCEPT !.key = k], known) BY <1>5 DEF EditKey
  <2>2. PICK g : g = [form EXCEPT !.key = k] OBVIOUS
  <2>3. IsForm(g) /\ g.backend = form.backend BY <1>3, <2>2 DEF Placed, IsForm, Controls
  <2>4. form.backend = "openai" BY <1>5 DEF EditKey
  <2> QED BY <2>1, <2>2, <2>3, <2>4, KeyKeeps DEF SameSetting, NothingToPick
<1>6. CASE PickBackend
  <2>1. PICK b \in Backends \ {form.backend} :
            form' = BackendChanged([form EXCEPT !.backend = b], known)
        BY <1>6 DEF PickBackend
  <2>2. PICK g : g = [form EXCEPT !.backend = b] OBVIOUS
  <2>3. b \in Adapters /\ b # form.backend BY FormAssumption, <2>1 DEF Adapters
  <2>4. Placed(g) /\ g.backend = b /\ g.modelBackend = form.modelBackend
        BY <1>3, <2>2, <2>3 DEF Placed, IsForm, Controls
  <2>5. b = "dummy" => g.modelBackend # "dummy.model"
        BY <1>3, <2>3, <2>4, ModelKeys DEF Placed, Adapters, Access
  <2> QED BY <2>1, <2>2, <2>4, <2>5, BackendModels
<1>7. CASE PickAuth
  <2>1. PICK a : form' = OpenaiAuthChanged([form EXCEPT !.auth = a], known) BY <1>7 DEF PickAuth
  <2>2. PICK g : g = [form EXCEPT !.auth = a] OBVIOUS
  <2>3. IsForm(g) BY <1>3, <2>2 DEF Placed, IsForm, Controls
  <2> QED BY <2>1, <2>2, <2>3, AuthUnpicks DEF NothingToPick
<1>8. CASE EditModel
  <2>1. PICK v : \/ form' = [form EXCEPT !.manual = v]
                 \/ form' = [form EXCEPT !.written = v]
                 \/ form' = [form EXCEPT !.chosen = v, !.picked = TRUE]
        BY <1>8 DEF EditModel
  <2>2. form.backend # "dummy" BY <1>8 DEF EditModel
  <2>3. form'.backend = form.backend BY <1>3, <2>1 DEF Placed, IsForm, Controls
  <2> QED BY <2>2, <2>3 DEF NothingToPick
<1>9. CASE CheckConnection BY <1>9 DEF CheckConnection, NoDraft
<1> QED BY <1>4, <1>5, <1>6, <1>7, <1>8, <1>9

\* A check that ends chooses for the user.
LEMMA CheckIsNoDraft ==
    ASSUME NoDraft, Left, CheckReady
    PROVE  NoDraft'
<1>1. UNCHANGED <<page, loaded>> BY DEF CheckReady
<1>2. CASE UNCHANGED form BY <1>1, <1>2, NoDraftStays
<1>3. CASE form' # form
  <2>1. PICK q, names : form' \in Found(form, q, names, known) BY <1>3 DEF CheckReady
  <2>2. PICK m, models : form' = [form EXCEPT !.box = models, !.chosen = m, !.picked = FALSE,
                                              !.models = models, !.modelAddress = q.address]
        BY <2>1 DEF Found
  <2>3. /\ SameSetting(form, form') /\ form'.manual = form.manual /\ form'.written = form.written
        /\ form'.picked = FALSE
        BY <2>2 DEF Left, IsForm, Controls, SameSetting
  <2>4. ModelKey(form') = ModelKey(form) /\ ManualKey(form') = ManualKey(form)
        BY <2>3, SameModelKeys
  <2> QED BY <1>1, <2>3, <2>4 DEF NoDraft, NothingToPick, Unpicked, ModelLoads, SameSetting
<1> QED BY <1>2, <1>3

\* An answer may leave the page; the window knows the file by then.
LEMMA AnswerIsNoDraft ==
    ASSUME NoDraft, Typed, Belong, CallAnswered
    PROVE  NoDraft'
<1>1. CASE UNCHANGED <<page, formVars>> BY <1>1, NoDraftStays DEF formVars
<1>2. CASE call.kind = "settings" /\ Leave(from, file)
  <2>1. PageFits(form, checks, file, remembered, rekeyed') BY <1>2, AnswerKnows
  <2>2. SoundConfig(file) /\ KnownModels(file, remembered) BY DEF Typed, ConfigsTyped, Belong, Filed
  <2> QED BY <1>2, <2>1, <2>2, LeaveIsNoDraft
<1> QED BY <1>1, <1>2 DEF CallAnswered, ShowPage

\* Every step of the window and of the other processes.
LEMMA NextIsNoDraft ==
    ASSUME NoDraft, Typed, Left, Belong, [Next]_vars
    PROVE  NoDraft'
<1>0. /\ PageFits(form, checks, known, remembered, rekeyed) /\ SoundConfig(known)
      /\ KnownModels(known, remembered)
      BY DEF Belong, Filed, Typed, ConfigsTyped
<1>1. ASSUME NEW to, Leave(to, known) PROVE NoDraft' BY <1>0, <1>1, LeaveIsNoDraft
<1>2. CASE EditAddress \/ EditKey \/ PickBackend \/ PickAuth \/ EditModel \/ CheckConnection
      BY <1>2, EditIsNoDraft
<1>3. CASE CancelSettings \/ Navigate BY <1>1, <1>3 DEF CancelSettings, Navigate, ShowPage
<1>4. CASE StatusApplied BY <1>1, <1>4, NoDraftStays DEF StatusApplied, formVars
<1>5. CASE CheckReady BY <1>5, CheckIsNoDraft
<1>6. CASE CallAnswered BY <1>6, AnswerIsNoDraft
<1>7. CASE OpenSettings BY <1>7 DEF NoDraft, OpenSettings, formVars
<1>8. CASE SaveSettings BY <1>8, NoDraftStays DEF SaveSettings, pageVars, formVars
<1>9. CASE StartOptimization BY <1>9 DEF NoDraft, StartOptimization, formVars
<1>10. CASE ExportStep
  <2>1. CASE OpenExport BY <2>1 DEF NoDraft, OpenExport, formVars
  <2>2. CASE ~OpenExport
        BY <1>10, <2>2, NoDraftStays DEF ExportStep, ChangeFormat, ChangeScope, StartExport,
           ChooseFile, TimerPreview, PreviewReady, pageVars, formVars
  <2> QED BY <2>1, <2>2
<1>11. CASE CallRefused \/ SettingsSaved \/ SettingsLoaded \/ JobStarted
       BY <1>11, NoDraftStays DEF CallRefused, SettingsSaved, SettingsLoaded, JobStarted,
          quietFrame, pageVars, formVars
<1>12. CASE OtherStep
       BY <1>12, NoDraftStays DEF OtherStep, JobOfOther, DaemonRestarts, CliReads, CliReplaces,
          windowVars, pageVars, formVars
<1>13. CASE UNCHANGED vars BY <1>13, NoDraftStays DEF vars, pageVars, formVars
<1> QED BY <1>2, <1>3, <1>4, <1>5, <1>6, <1>7, <1>8, <1>9, <1>10, <1>11, <1>12, <1>13
        DEF Next, SettingsStep, RequestStep

\* The constructor loads the model of a page that nobody has touched.
LEMMA InitIsNoDraft == Init => NoDraft
<1> SUFFICES ASSUME Init PROVE NoDraft OBVIOUS
<1>1. /\ SoundConfig(file) /\ KnownModels(file, remembered) /\ known = file /\ loaded = file
      BY InitIsTyped, InitBelongs DEF Init, Typed, ConfigsTyped, Belong, Filed
<1>2. PICK g : g = BackendChanged(Blank, file) OBVIOUS
<1>3. Placed(Blank) /\ Blank.picked = FALSE /\ ModelKey(Blank) = "local_llm.model"
      BY DEF Placed, IsForm, Controls, Blank, Adapters, Access, ModelKey
<1>4. OwnList(Blank, file, remembered, rekeyed)
  <2>1. Listing(Blank, file, remembered, rekeyed) BY DEF Listing, Blank
  <2>2. OwnKeys("local_llm") = {"local_llm.model"} BY DEF OwnKeys, ModelSettings
  <2> QED BY <1>3, <2>1, <2>2 DEF OwnList, Blank
<1>5. Placed(g) /\ Fits(g, file, remembered, rekeyed) BY <1>1, <1>2, <1>3, <1>4, BackendFits
<1>6. NothingToPick(g) BY <1>2, <1>3, BackendModels
<1>7. form = LoadSettings(g, file) BY <1>2 DEF Init
<1>8. ModelLoads(form, file) /\ Unpicked(form, file) BY <1>1, <1>5, <1>6, <1>7, LoadUnpicks
<1> QED BY <1>1, <1>8 DEF NoDraft, Unpicked, NothingToPick

\* For every way to and from the settings page, every backend and every offer of
\* models: what was typed stays there, and the one choice that does not is that
\* of a local model where no saved one is in the list (app.py:642-708, 860-903
\* and 920-926).
THEOREM NoDraftLeaves == Spec => []DraftsStayOnThePage
<1>1. Typed /\ Belong /\ [Next]_vars => Belong' BY NextBelongs
<1>2. Left /\ NoDraft => DraftsStayOnThePage
      BY DEF Left, Fresh, NoDraft, ModelLoads, Unpicked, DraftsStayOnThePage
<1> QED BY <1>1, <1>2, InitIsTyped, NextIsTyped, InitIsPreviewed, NextIsPreviewed, InitIsLeft,
           NextIsLeft, InitBelongs, InitIsNoDraft, NextIsNoDraft, PTL DEF Spec
=============================================================================
