------------------------ MODULE GenerationProperties ------------------------
(***************************************************************************)
(* What the queue, the two threads, the process tree and the retries must  *)
(* leave true of an answer a language model gave.                          *)
(***************************************************************************)
EXTENDS Generation

Values ==
    {"initialize", "initialized", "account/read", "account/login/start", "thread/start",
     "turn/start", "model/list", "yes", "no", "error", "more", "some", "bare", "nothing",
     "final", "other", "done", "failed", "success", "refused", "refusal", "tool", "garbage",
     "broken", "none"}

Messages ==
    [type : {"request", "refusal", "reply", "note", "tool", "garbage", "broken", "none"},
     id : Nat, value : Values, text : Texts \cup {None}]

\* The type invariant of a session and of the optimization it serves.
TypeOK ==
    /\ op \in {"none", "generate", "models", "signin"}
    /\ pc \in {"idle", "call", "reply", "reply_get", "event", "event_get",
               "call_held", "ask_held", "reply_held", "event_held",
               "term", "reap", "join", "kill", "streams", "over"}
    /\ nextId \in Nat
    /\ \A s \in {events, input, lines, messages, sent} : \A n \in DOMAIN s : s[n] \in Messages
    /\ serving \in Messages
    /\ {final, said, draft, result} \subseteq Texts \cup {None}
    /\ outcome.kind \in {"none", "text", "models", "config", "optimization", "pipe"}
    /\ {expired, cancel, unsent, child} \subseteq BOOLEAN
    /\ reader \in {"none", "reading", "ended", "failed"}
    /\ main \in {"none", "running", "exited", "reaped"}
    /\ turn \in {"none", "open", "blocked", "over"}
    /\ phase \in {"idle", "draft", "validate", "returned", "raised"}
    /\ attempt \in 1..MaxRetries
    /\ faults \in 0..MaxFaults /\ uses \in 0..MaxUses
-----------------------------------------------------------------------------
\* What was heard, what calls have put aside, what is queued and what is still
\* in the pipe are the notifications the server sent, each once and in order:
\* a turn's may arrive before the reply that starts it
\* (codex_client.py:172-187, 243-250 and 264-265).
NotesInOrder ==
    Talking =>
        /\ heard <= Len(sent)
        /\ events \o Notes(messages) \o Notes(lines) = SubSeq(sent, heard + 1, Len(sent))

\* The end of a turn or of a login is only waited for once the server has begun
\* it: no other reply passes for that of the request that starts it.  The text
\* of a session is the last final message before that end, and a turn is only
\* reported to be without a text, or to have failed, when it was
\* (codex_client.py:239-250 and 370-392).
AnswerIsFinal ==
    /\ pc \in {"event", "event_get"} => turn # "none"
    /\ pc = "term" /\ outcome.kind \in {"text", "optimization"} =>
           /\ turn = "over"
           /\ LET done == \E n \in DOMAIN sent : sent[n].value = "done" IN
              IF outcome.kind = "text"
              THEN done /\ outcome.text = said /\ said # None
              ELSE done => said = None

\* After a cancellation or a deadline at most one more message is taken, kept
\* or queued, however many there are (codex_client.py:197-223 and 264-265; the
\* second-last finding of docs/openai_provider_audit.md).
StopsPromptly == late <= 1

\* A closed session leaves no process of its own behind: the one it started is
\* reaped, and a descendant may only live on when a malformed line ended the
\* reader before the end of the output did (codex_client.py:126-165).
LeavesNoProcess ==
    pc = "over" => main \in {"none", "reaped"} /\ (child => reader = "failed")

\* An optimized text of OpenAI, of either kind, is never blank, over both calls
\* (openai_optimizer.py:81-84, codex_client.py:379-392,
\* base_llm_optimizer.py:234-267).
BlankIsAnError == phase = "returned" /\ provider \in {"openai", "codex"} => result # None

\* A call is attempted again until it is answered or its attempts are spent,
\* and OpenAI's only after failures that may pass: what will not pass ends it at
\* once, and nothing else ends it early (openai_optimizer.py:70-100,
\* local_llm_optimizer.py:80-106).
RetriesWhatMayPass ==
    LET n        == Len(failures)
        lasting  == n > 0 /\ provider = "openai" /\ failures[n] = "permanent" IN
    /\ n <= MaxRetries
    /\ provider = "openai" => \A i \in 1..(n - 1) : failures[i] = "transient"
    /\ phase = "raised" /\ n > 0 => n = MaxRetries \/ lasting

\* Nothing ends an attempt that Gemini does not answer, and nothing a write to a
\* server that lives and does not read.
Stuck == Endless \/ (Writing /\ Alive /\ input # <<>>)

\* Every product is optimized or fails and every discovery ends, whatever the
\* server says or leaves unsaid: waits time out, attempts are counted and the
\* process group is killed.  Two things may keep the thread for ever: a call of
\* Gemini, and a write to a Codex server that has stopped reading
\* (codex_client.py:126-165, 189-195 and 197-223, gemini_optimizer.py:74 and 83,
\* base_llm_optimizer.py:163-212; the last limitation named in
\* docs/openai_provider_audit.md).
UsesEnd == <>[]Stuck \/ []<>(phase = "idle" /\ pc = "idle")
=============================================================================
