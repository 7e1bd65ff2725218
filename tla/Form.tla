-------------------------------- MODULE Form --------------------------------
(***************************************************************************)
(* The settings page of the desktop application (src/pdo/desktop/app.py)   *)
(* and the configuration it edits (src/pdo/config.py), as functions: what  *)
(* each change of a control does to the others, what loading a             *)
(* configuration does to all of them and what the page sends to the        *)
(* daemon.  Gemini and ZhipuAI are left out: a key and a fixed model.      *)
(***************************************************************************)
CONSTANTS
    None,
    Backends,   \* among local_llm, openai and dummy
    Addresses,  \* of local servers
    LocalAddress,   \* LOCAL_LLM_ADDRESS
    Keys,       \* API keys of OpenAI
    Offers,     \* the sets of names a server, a key or an account may offer
    Formats     \* CSV formats

ASSUME FormAssumption ==
    /\ Backends \subseteq {"local_llm", "openai", "dummy"}
    /\ None \notin Addresses \cup Keys \cup Formats
    /\ LocalAddress \in Addresses
    /\ {} \notin Offers

\* A model identifier: its name is all that the program has; where it comes
\* from is the setting it was found or typed for, and the server, the key or
\* the account that offered it.
Model(setting, at, name) == [setting |-> setting, at |-> at, name |-> name]

DefaultModel == Model("openai.model", "default", "default")   \* OPENAI_MODEL

ModelSettings  == {"local_llm.model", "openai.model", "openai.chatgpt_model"}
ManualSettings == {"local_llm.manual_model", "openai.manual_model"}
Settings       == {"optimizer", "openai.auth_mode", "local_llm.address", "openai.api_key",
                   "export.format"} \cup ModelSettings \cup ManualSettings

\* A configuration; None stands for a setting the file does not have.
Empty == [s \in Settings |-> None]

Only(setting, value) == [s \in {setting} |-> value]

Or(value, default) == IF value = None THEN default ELSE value

\* merged.update(values)
Merge(base, values) == [s \in Settings |-> IF s \in DOMAIN values THEN values[s] ELSE base[s]]
-----------------------------------------------------------------------------
\* The controls of the page, and what the window remembers of a discovery: the
\* models it found and the address they came from.  Auxiliary: whether the
\* choice in the list is the user's, and nothing has chosen since.
Blank == [backend |-> "local_llm", auth |-> "api_key", address |-> LocalAddress, key |-> None,
          manual |-> FALSE, written |-> None, box |-> {}, chosen |-> None, picked |-> FALSE,
          models |-> {}, modelAddress |-> None, modelBackend |-> None]

ModelKey(f) ==
    CASE f.backend = "openai" /\ f.auth = "chatgpt" -> "openai.chatgpt_model"
      [] f.backend = "openai" /\ f.auth = "api_key" -> "openai.model"
      [] f.backend = "local_llm"                    -> "local_llm.model"
      [] OTHER                                      -> "dummy.model"

Saved(setting, config)  == IF setting \in Settings THEN config[setting] ELSE None

ManualKey(f) == IF f.backend = "openai" THEN "openai.manual_model" ELSE "local_llm.manual_model"

Offer(f, model) ==
    [f EXCEPT !.box = IF model = None THEN {} ELSE {model}, !.chosen = model, !.picked = FALSE]

AddressChanged(f) == [f EXCEPT !.models = {}, !.modelAddress = None]

\* Defect: a new key leaves the models found with the old one.
KeyChangedKeeps(f, config) == f

KeyChanged(f, config) ==
    IF f.backend = "openai" /\ f.auth = "api_key"
    THEN Offer(AddressChanged(f), Or(config["openai.model"], DefaultModel))
    ELSE f

OpenaiAuthChanged(f, config) ==
    LET model == Or(Saved(ModelKey(f), config), IF f.auth = "chatgpt" THEN None ELSE DefaultModel)
    IN  [Offer(AddressChanged(f), model) EXCEPT !.modelBackend = ModelKey(f), !.written = model]

\* Setting a control to another value emits its signal; the access of OpenAI is
\* set with its signal blocked.
LoadAuth(f, config) == [f EXCEPT !.auth = Or(config["openai.auth_mode"], "api_key")]

ClearKey(f, config) == IF f.key = None THEN f ELSE KeyChanged([f EXCEPT !.key = None], config)

LoadManual(f, config) ==
    [f EXCEPT !.manual  = f.backend # "dummy" /\ config[ManualKey(f)] = TRUE,
              !.written = Or(Saved(ModelKey(f), config),
                             IF f.backend = "openai" THEN DefaultModel ELSE None)]

ForgetModels(f) == [Offer(AddressChanged(f), None) EXCEPT !.modelBackend = ModelKey(f)]

LoadModels(f, config) ==
    CASE ModelKey(f) = f.modelBackend -> f
      [] ModelKey(f) # f.modelBackend /\ f.backend = "openai" ->
             OpenaiAuthChanged(ForgetModels(f), config)
      [] OTHER -> ForgetModels(f)

BackendChanged(f, config) ==
    LoadModels(LoadManual(ClearKey(LoadAuth(f, config), config), config), config)

LoadBackend(f, config) ==
    LET optimizer == Or(config["optimizer"], "local_llm")
    IN  IF optimizer = f.backend THEN f ELSE BackendChanged([f EXCEPT !.backend = optimizer], config)

LoadAddress(f, config) ==
    LET address == Or(config["local_llm.address"], LocalAddress)
    IN  IF address = f.address THEN f ELSE AddressChanged([f EXCEPT !.address = address])

\* findText: names are compared.
Named(models, model) == {m \in models : model # None /\ m.name = model.name}

Lists(f, model) == Named(f.box, model) # {}

\* The saved model is added to the list of OpenAI, and chosen where it is listed.
Listed(f, model) ==
    CASE f.backend = "openai" /\ model # None ->
             IF Lists(f, model) THEN f ELSE [f EXCEPT !.box = @ \cup {model}]
      [] f.backend = "openai" /\ model = None -> Offer(f, None)
      [] OTHER -> f

Choose(f, model) ==
    IF Lists(f, model)
    THEN [f EXCEPT !.chosen = CHOOSE m \in Named(f.box, model) : TRUE, !.picked = FALSE]
    ELSE f

ChooseSaved(f, config) ==
    LET saved == Saved(ModelKey(f), config)
        model == IF f.backend = "openai" /\ f.auth = "api_key" THEN Or(saved, DefaultModel) ELSE saved
    IN  Choose(Listed(f, model), model)

LoadSettings(f, config) ==
    ChooseSaved(BackendChanged(LoadAddress(LoadBackend(f, config), config), config), config)
-----------------------------------------------------------------------------
\* What a check of the connection asks for, and with what.
Query(f, config) ==
    [setting |-> ModelKey(f), address |-> f.address,
     at |-> CASE ModelKey(f) = "openai.chatgpt_model" -> "account"
              [] ModelKey(f) = "openai.model" ->
                     Or(Or(f.key, config["openai.api_key"]), "environment")
              [] OTHER -> f.address]

\* What the page may look like when names were found: the saved model is
\* chosen where it is listed, the first one of the list otherwise.
Found(f, query, names, config) ==
    LET models == {Model(query.setting, query.at, n) : n \in names}
        saved  == Or(Saved(query.setting, config),
                     IF query.setting = "openai.model" THEN DefaultModel ELSE None)
        same   == Named(models, saved)
    IN  {[f EXCEPT !.box = models, !.chosen = m, !.picked = FALSE,
                   !.models = models, !.modelAddress = query.address] :
            m \in IF same = {} THEN models ELSE same}

\* _provider_settings raises a ValueError.
Incomplete(f) ==
    /\ f.backend # "dummy"
    /\ \/ f.backend = "local_llm" /\ ~f.manual /\ (f.models = {} \/ f.modelAddress # f.address)
       \/ f.manual /\ f.written = None
       \/ f.backend = "openai" /\ ~f.manual /\ f.chosen = None

\* The settings it returns, with the backend that save_settings adds.
SentSettings(f) ==
    CASE f.backend = "dummy"     -> {"optimizer"}
      [] f.backend = "local_llm" -> {"optimizer", "local_llm.address", ManualKey(f), ModelKey(f)}
      [] f.backend = "openai"    ->
             {"optimizer", "openai.auth_mode", ManualKey(f), ModelKey(f)} \cup
             (IF f.key # None /\ f.auth = "api_key" THEN {"openai.api_key"} ELSE {})

ProviderSettings(f) ==
    [s \in SentSettings(f) |->
        CASE s = "optimizer"         -> f.backend
          [] s = "openai.auth_mode"  -> f.auth
          [] s = "local_llm.address" -> f.address
          [] s = "openai.api_key"    -> f.key
          [] s \in ManualSettings    -> f.manual
          [] s \in ModelSettings     -> IF f.manual THEN f.written ELSE f.chosen]
=============================================================================
