----------------------------- MODULE Generation -----------------------------
(***************************************************************************)
(* What the adapters do with a language model: a description is generated  *)
(* and then validated, each in a call of its own (BaseLLMOptimizer of      *)
(* src/pdo/core/base_llm_optimizer.py).  Three adapters retry every        *)
(* failures, OpenAI's retries what may pass, and the ChatGPT subscription   *)
(* opens a Codex session for each call.  The desktop application opens     *)
(* sessions of its own to sign in and to list models.                      *)
(***************************************************************************)
EXTENDS Codex

CONSTANTS
    Providers,  \* among gemini, generic (ZhipuAI, local server), openai and codex
    MaxRetries, \* attempts of one call (max_retries)
    MaxUses     \* products and discoveries

ASSUME GenerationAssumption ==
    /\ Providers \subseteq {"gemini", "generic", "openai", "codex"}
    /\ MaxRetries \in Nat \ {0} /\ MaxUses \in Nat

VARIABLES
    phase,      \* draft and validate are the two calls of optimize()
    provider,
    draft,      \* the generated text
    result,     \* what optimize() returned
    attempt,    \* of the current call
    uses

\* Auxiliary, no part of the program: how the attempts of this call failed.
VARIABLE failures

genVars == <<phase, provider, draft, result, attempt, uses, failures>>
vars    == <<cxVars, genVars>>

Optimizing == phase \in {"draft", "validate"}

Init ==
    /\ CodexInit
    /\ phase = "idle" /\ provider = "none" /\ draft = None /\ result = None
    /\ attempt = 1 /\ uses = 0 /\ failures = <<>>
-----------------------------------------------------------------------------
\* The worker hands a product to the optimizer.
Optimize ==
    /\ phase = "idle" /\ pc = "idle" /\ uses < MaxUses
    /\ phase' = "draft" /\ attempt' = 1 /\ failures' = <<>>
    /\ draft' = None /\ result' = None
    /\ provider' \in Providers
    /\ uses' = uses + 1
    /\ UNCHANGED cxVars

Raises ==
    /\ phase' = "raised"
    /\ UNCHANGED <<draft, result>>

\* What a validation comes to: approved, a suggestion, nothing of the two, not
\* JSON, or JSON of another shape (a list, a suggestion that is null), whose
\* AttributeError nobody catches.
ParseValidation ==
    \/ result' \in {draft} \cup Texts /\ phase' = "returned" /\ UNCHANGED draft
    \/ Raises

\* A call returned text; a blank validation is not JSON.
Use(text) ==
    \/ phase = "draft" /\ draft' = text /\ phase' = "validate" /\ UNCHANGED result
    \/ phase = "validate" /\ text # None /\ ParseValidation
    \/ phase = "validate" /\ text = None /\ result' = draft /\ phase' = "returned" /\ UNCHANGED draft

\* Defect: the text is stripped after the test for an empty one.
AnsweredStripsLate ==
    /\ Optimizing /\ provider # "codex"
    /\ \E text \in Texts \cup {None} : Use(text)
    /\ attempt' = 1 /\ failures' = <<>>
    /\ UNCHANGED <<provider, uses, cxVars>>

\* An answer.  Only OpenAI's text is stripped before it is tested, so a blank
\* text of the others is an answer.
Answered ==
    /\ Optimizing /\ provider # "codex"
    /\ \E text \in Texts \cup {None} :
           /\ provider = "openai" => text # None
           /\ Use(text)
    /\ attempt' = 1 /\ failures' = <<>>
    /\ UNCHANGED <<provider, uses, cxVars>>

\* Defect: OpenAI's permanent failures are retried as well.
RetriesAnything(kind) == attempt < MaxRetries

\* Is a failed attempt made again?  A refused or unusable answer of OpenAI
\* raises OptimizationError, which its handler does not catch.
Retries(kind) ==
    /\ attempt < MaxRetries
    /\ provider = "openai" => kind = "transient"

Failed ==
    /\ Optimizing /\ provider # "codex"
    /\ \E kind \in {"transient", "permanent"} :
           /\ failures' = Append(failures, kind)
           /\ \/ Retries(kind) /\ attempt' = attempt + 1 /\ UNCHANGED <<phase, draft, result>>
              \/ ~Retries(kind) /\ Raises /\ UNCHANGED attempt
    /\ UNCHANGED <<provider, uses, cxVars>>
-----------------------------------------------------------------------------
\* CodexOptimizer._call_llm: one session for one call.
OpenSession ==
    /\ Optimizing /\ provider = "codex"
    /\ Open("generate") \/ Missing("generate")
    /\ UNCHANGED genVars

\* The session is closed and its result known.
SessionOver ==
    /\ Optimizing /\ pc = "over"
    /\ IF outcome.kind = "text" THEN Use(outcome.text) ELSE Raises
    /\ Forget
    /\ UNCHANGED <<provider, attempt, uses, failures>>

\* The desktop application lists models, perhaps after signing in.
Discover ==
    /\ phase = "idle" /\ pc = "idle" /\ uses < MaxUses
    /\ \E o \in {"models", "signin"} : Open(o) \/ Missing(o)
    /\ uses' = uses + 1
    /\ UNCHANGED <<phase, provider, draft, result, attempt, failures>>

\* The worker records the text or the error; the window shows the models.
Done ==
    /\ \/ phase \in {"returned", "raised"} /\ pc = "idle"
       \/ phase = "idle" /\ pc = "over"
    /\ phase' = "idle" /\ draft' = None /\ result' = None /\ attempt' = 1 /\ failures' = <<>>
    /\ provider' = "none"
    /\ Forget
    /\ UNCHANGED uses
-----------------------------------------------------------------------------
AdapterStep == Answered \/ Failed \/ OpenSession \/ SessionOver \/ Done

\* The thread that optimizes, or that discovers models, makes its sessions' calls.
ThreadStep == AdapterStep \/ (CallerStep /\ UNCHANGED genVars)

OtherStep == (ReaderStep \/ ServerStep \/ Expire \/ Cancel) /\ UNCHANGED genVars

Next == Optimize \/ Discover \/ ThreadStep \/ OtherStep

Spec == Init /\ [][Next]_vars

\* Gemini's attempts have no timeout.
Endless == Optimizing /\ provider = "gemini"

\* The thread is scheduled again and again, any other attempt of an API adapter
\* ends, and waits time out.  The server may stop answering at any time.
FairSpec == Spec /\ WF_vars(~Endless /\ ThreadStep) /\ WF_vars(Expire /\ UNCHANGED genVars)
=============================================================================
