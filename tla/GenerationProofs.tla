-------------------------- MODULE GenerationProofs --------------------------
(***************************************************************************)
(* Safety of the sessions with Codex and of the calls of a language model, *)
(* for every number of notifications, pages, faults and attempts.          *)
(***************************************************************************)
EXTENDS GenerationProperties, TLAPS, WellFoundedInduction, SequenceTheorems

-----------------------------------------------------------------------------
(***************************************************************************)
(* Who changes what                                                        *)
(***************************************************************************)

\* The reader and the server touch neither the caller's state nor its place.
LEMMA OthersLeaveTheCaller ==
    ASSUME ReaderStep \/ ServerStep
    PROVE  UNCHANGED <<op, outcome, pc, expired, cancel, late>>
<1>1. CASE ReadLine BY <1>1 DEF ReadLine, readerFrame, caller
<1>2. CASE ReadEnd BY <1>2 DEF ReadEnd, readerFrame, caller
<1>3. CASE Accept BY <1>3 DEF Accept, serverFrame, caller
<1>4. CASE Answer BY <1>4 DEF Answer, serverFrame, caller
<1>5. CASE Remark BY <1>5 DEF Remark, serverFrame, caller
<1>6. CASE AskTool BY <1>6 DEF AskTool, serverFrame, caller
<1>7. CASE Fault BY <1>7 DEF Fault, serverFrame, caller
<1> QED BY <1>1, <1>2, <1>3, <1>4, <1>5, <1>6, <1>7 DEF ReaderStep, ServerStep

\* The caller takes its steps within a session only.
LEMMA CallersAreInASession ==
    ASSUME CallerStep
    PROVE  pc \notin {"idle", "over"}
<1>1. CASE Call \/ Flush \/ Check BY <1>1 DEF Call, Flush, Writing, Check
<1>2. CASE GetNothing \/ GetBroken \/ GetTool \/ GetReply \/ GetOther \/ KeepNote
      BY <1>2 DEF GetNothing, GetBroken, GetTool, GetReply, GetOther, KeepNote, Receives
<1>3. CASE HearKept \/ HearNew BY <1>3 DEF HearKept, HearNew
<1>4. CASE Term \/ Reap \/ Join \/ Kill \/ Streams
      BY <1>4 DEF Term, Reap, Join, Kill, Streams
<1> QED BY <1>1, <1>2, <1>3, <1>4 DEF CallerStep

-----------------------------------------------------------------------------
(***************************************************************************)
(* A cancellation or a deadline ends a session with the next message       *)
(***************************************************************************)

\* A message that was taken too late is the last: the next look ends the wait,
\* before it or behind the write it has led to.
Prompt ==
    /\ late \in {0, 1}
    /\ pc \in {"reply_get", "event_get"} => late = 0
    /\ pc \in {"reply", "event", "ask_held", "reply_held", "event_held"} /\ late = 1 => Stops

\* The steps of the caller keep what is to be shown of late messages.
LEMMA CallerIsPrompt ==
    ASSUME Prompt, CallerStep
    PROVE  Prompt'
<1>1. CASE Call BY <1>1 DEF Prompt, Call, Stops, Write, Behind, WriteFails, Raise, Leave
<1>12. CASE Flush BY <1>12 DEF Prompt, Flush, Writing, Behind, Stops, WriteFails, Raise, Leave
<1>2. CASE Check BY <1>2 DEF Prompt, Check, Stops, Raise, Leave
<1>3. CASE GetNothing BY <1>3 DEF Prompt, GetNothing, Again, Stops
<1>4. CASE GetBroken BY <1>4 DEF Prompt, GetBroken, Receives, Taken, Raise, Leave, Stops
<1>5. CASE GetTool
      BY <1>5 DEF Prompt, GetTool, Receives, Taken, Write, Behind, WriteFails, Raise, Leave, Stops
<1>6. CASE GetReply
  <2>1. late' \in {0, 1} /\ (late' = 1 => cancel') BY <1>6 DEF Prompt, GetReply
  <2>2. pc' \in {"call", "event", "term"}
        BY <1>6 DEF GetReply, Proceed, Ask, Raise, Leave
  <2> QED BY <2>1, <2>2 DEF Prompt, Stops
<1>7. CASE GetOther BY <1>7 DEF Prompt, GetOther, Receives, Taken, Again, Stops
<1>8. CASE KeepNote BY <1>8 DEF Prompt, KeepNote, Receives, Taken, Again, Stops
<1>9. CASE HearKept \/ HearNew
  <2>1. late' \in {0, 1} /\ (late' = 1 => Stops')
        BY <1>9 DEF Prompt, HearKept, HearNew, Receives, Taken, Stops
  <2>2. \E m : Hear(m) BY <1>9 DEF HearKept, HearNew
  <2>3. pc' \in {"term", "call", "reply", "event"} BY <2>2 DEF Hear, Raise, Leave, Ask, Again
  <2> QED BY <2>1, <2>3 DEF Prompt
<1>10. CASE Term BY <1>10 DEF Prompt, Term, Drop
<1>11. CASE Reap \/ Join \/ Kill \/ Streams BY <1>11 DEF Prompt, Reap, Join, Kill, Streams
<1> QED BY <1>1, <1>2, <1>3, <1>4, <1>5, <1>6, <1>7, <1>8, <1>9, <1>10, <1>11, <1>12 DEF CallerStep

\* Every step of the system does.
LEMMA NextIsPrompt ==
    ASSUME Prompt, [Next]_vars
    PROVE  Prompt'
<1>1. CASE Optimize BY <1>1 DEF Prompt, Optimize, cxVars, caller, Stops
<1>2. CASE Discover BY <1>2 DEF Prompt, Discover, Open, Missing, Stops
<1>3. CASE Answered \/ Failed BY <1>3 DEF Prompt, Answered, Failed, cxVars, caller, Stops
<1>4. CASE OpenSession BY <1>4 DEF Prompt, OpenSession, Open, Missing, Stops
<1>5. CASE SessionOver \/ Done BY <1>5 DEF Prompt, SessionOver, Done, Forget, Drop
<1>6. CASE CallerStep BY <1>6, CallerIsPrompt
<1>7. CASE ReaderStep \/ ServerStep BY <1>7, OthersLeaveTheCaller DEF Prompt, Stops
<1>8. CASE Expire \/ Cancel BY <1>8 DEF Prompt, Expire, Cancel, caller, Stops
<1>9. CASE UNCHANGED vars BY <1>9 DEF Prompt, vars, cxVars, caller, Stops
<1> QED BY <1>1, <1>2, <1>3, <1>4, <1>5, <1>6, <1>7, <1>8, <1>9
        DEF Next, ThreadStep, AdapterStep, OtherStep

\* For every server: after a cancellation or a deadline a session takes at most
\* one more message (codex_client.py:197-265).
THEOREM Promptness == Spec => []StopsPromptly
<1>1. Init => Prompt BY DEF Init, CodexInit, Prompt
<1>2. Prompt /\ [Next]_vars => Prompt' BY NextIsPrompt
<1>3. Prompt => StopsPromptly BY DEF Prompt, StopsPromptly
<1> QED BY <1>1, <1>2, <1>3, PTL DEF Spec

-----------------------------------------------------------------------------
(***************************************************************************)
(* A closed session leaves no process behind                               *)
(***************************************************************************)

\* The processes of a session, by what its reader and its caller have seen.
Clean ==
    /\ main \in {"none", "running", "exited", "reaped"} /\ child \in BOOLEAN
    /\ reader \in {"none", "reading", "ended", "failed"}
    /\ reader = "none" => main = "none" /\ ~child /\ pc \in {"idle", "over"}
    /\ pc = "idle" => reader = "none"
    /\ reader = "ended" => main # "running" /\ ~child
    /\ pc \in {"join", "kill", "streams", "over"} => main \in {"none", "reaped"}
    /\ pc \in {"streams", "over"} /\ child => reader = "failed"

\* A step that leaves the processes and the reader alone, and does not get on
\* with closing the session, keeps them clean.
LEMMA CleanStays ==
    ASSUME Clean, UNCHANGED <<main, child, reader>>,
           \/ pc' = pc
           \/ /\ pc \notin {"idle", "over"}
              /\ pc' \notin {"idle", "join", "kill", "streams", "over"}
    PROVE  Clean'
BY DEF Clean

\* Until the session is closed, the caller's steps do not touch a process.
LEMMA TalkIsClean ==
    ASSUME Clean,
           \/ Call \/ Flush \/ Check \/ GetNothing \/ GetBroken \/ GetTool \/ GetReply
           \/ GetOther \/ KeepNote \/ HearKept \/ HearNew
    PROVE  Clean'
<1>0. pc \notin {"idle", "over"} BY CallersAreInASession DEF CallerStep
<1>1. CASE Call
  <2>1. UNCHANGED <<main, child, reader>> BY <1>1 DEF Call, process
  <2>2. pc' \in {"call", "call_held", "reply", "ask_held", "term"}
        BY <1>1 DEF Call, Write, Behind, WriteFails, Raise, Leave
  <2> QED BY <2>1, <2>2, <1>0, CleanStays
<1>6. CASE Flush
  <2>1. UNCHANGED <<main, child, reader>> BY <1>6 DEF Flush, process
  <2>2. pc' \in {"call", "reply", "event", "term"}
        BY <1>6 DEF Flush, Writing, Behind, WriteFails, Raise, Leave
  <2> QED BY <2>1, <2>2, <1>0, CleanStays
<1>2. CASE Check
  <2>1. UNCHANGED <<main, child, reader>> BY <1>2 DEF Check, process
  <2>2. pc' \in {"reply_get", "event_get", "term"} BY <1>2 DEF Check, Raise, Leave
  <2> QED BY <2>1, <2>2, <1>0, CleanStays
<1>3. CASE GetNothing \/ GetBroken \/ GetTool \/ GetOther \/ KeepNote
  <2>1. UNCHANGED <<main, child, reader>>
        BY <1>3 DEF GetNothing, GetBroken, GetTool, GetOther, KeepNote, process
  <2>2. pc' \in {"reply", "event", "reply_held", "event_held", "term"}
        BY <1>3 DEF GetNothing, GetBroken, GetTool, GetOther, KeepNote, Write, Behind, WriteFails,
                    Again, Raise, Leave
  <2> QED BY <2>1, <2>2, <1>0, CleanStays
<1>4. CASE GetReply
  <2>1. UNCHANGED <<main, child, reader>> BY <1>4 DEF GetReply, process
  <2>2. pc' \in {"call", "event", "term"} BY <1>4 DEF GetReply, Proceed, Ask, Raise, Leave
  <2> QED BY <2>1, <2>2, <1>0, CleanStays
<1>5. CASE HearKept \/ HearNew
  <2>1. UNCHANGED <<main, child, reader>> BY <1>5 DEF HearKept, HearNew, process
  <2>2. \E m : Hear(m) BY <1>5 DEF HearKept, HearNew
  <2>3. pc' \in {"term", "call", "reply", "event"} BY <2>2 DEF Hear, Raise, Leave, Ask, Again
  <2> QED BY <2>1, <2>3, <1>0, CleanStays
<1> QED BY <1>1, <1>2, <1>3, <1>4, <1>5, <1>6

\* Closing: what is reaped stays reaped, and a child may only survive a reader
\* that failed.
LEMMA CloseIsClean ==
    ASSUME Clean, Term \/ Reap \/ Join \/ Kill \/ Streams
    PROVE  Clean'
<1>1. CASE Term BY <1>1 DEF Clean, Term, Outlived
<1>2. CASE Reap BY <1>2 DEF Clean, Reap
<1>3. CASE Join BY <1>3 DEF Clean, Join, process
<1>4. CASE Kill BY <1>4 DEF Clean, Kill
<1>5. CASE Streams BY <1>5 DEF Clean, Streams, process
<1> QED BY <1>1, <1>2, <1>3, <1>4, <1>5

\* The reader only ends when the processes have, and no process is started.
LEMMA OthersAreClean ==
    ASSUME Clean, ReaderStep \/ ServerStep \/ Expire \/ Cancel
    PROVE  Clean'
<1>1. CASE ReadLine BY <1>1 DEF Clean, ReadLine, readerFrame, process
<1>2. CASE ReadEnd BY <1>2 DEF Clean, ReadEnd, readerFrame, process, Alive
<1>3. CASE Accept \/ Answer \/ Remark \/ AskTool
      BY <1>3 DEF Clean, Accept, Answer, Remark, AskTool, serverFrame, process
<1>4. CASE Fault
  <2>1. UNCHANGED <<reader, pc>> /\ pc \notin {"join", "kill", "streams", "over"}
        BY <1>4 DEF Fault, serverFrame, Talking, Waiting, Writing
  <2>2. \/ UNCHANGED <<main, child>>
        \/ /\ main' \in {main, "exited"} /\ main' # "running"
           /\ main = "none" => main' = "none"
           /\ child' \in BOOLEAN /\ (child' => main = "running" \/ child)
        BY <1>4 DEF Clean, Fault, Outlived, process
  <2> QED BY <2>1, <2>2 DEF Clean
<1>5. CASE Expire \/ Cancel BY <1>5 DEF Clean, Expire, Cancel, process
<1> QED BY <1>1, <1>2, <1>3, <1>4, <1>5 DEF ReaderStep, ServerStep

\* Every step of the system keeps the processes clean.
LEMMA NextIsClean ==
    ASSUME Clean, [Next]_vars
    PROVE  Clean'
<1>1. CASE Optimize BY <1>1 DEF Clean, Optimize, cxVars, process
<1>2. CASE Discover BY <1>2 DEF Clean, Discover, Open, Missing, process
<1>3. CASE Answered \/ Failed BY <1>3 DEF Clean, Answered, Failed, cxVars, process
<1>4. CASE OpenSession BY <1>4 DEF Clean, OpenSession, Open, Missing, process
<1>5. CASE SessionOver \/ Done BY <1>5 DEF Clean, SessionOver, Done, Forget
<1>6. CASE CallerStep BY <1>6, TalkIsClean, CloseIsClean DEF CallerStep
<1>7. CASE ReaderStep \/ ServerStep \/ Expire \/ Cancel BY <1>7, OthersAreClean
<1>8. CASE UNCHANGED vars BY <1>8 DEF Clean, vars, cxVars, process
<1> QED BY <1>1, <1>2, <1>3, <1>4, <1>5, <1>6, <1>7, <1>8
        DEF Next, ThreadStep, AdapterStep, OtherStep

\* For every server and every fault: what a closed session started is reaped,
\* and nothing of it lives on unless a malformed line ended the reader
\* (codex_client.py:126-165).
THEOREM CleanClose == Spec => []LeavesNoProcess
<1>1. Init => Clean BY DEF Init, CodexInit, Clean
<1>2. Clean /\ [Next]_vars => Clean' BY NextIsClean
<1>3. Clean => LeavesNoProcess BY DEF Clean, LeavesNoProcess
<1> QED BY <1>1, <1>2, <1>3, PTL DEF Spec

-----------------------------------------------------------------------------
(***************************************************************************)
(* OpenAI's texts are not blank                                            *)
(***************************************************************************)

\* The texts in hand, from the session to the result.
NotBlank ==
    /\ outcome.kind = "text" => outcome.text # None
    /\ phase = "validate" /\ provider \in {"openai", "codex"} => draft # None
    /\ phase = "returned" /\ provider \in {"openai", "codex"} => result # None

\* A session reports a text only when it has one.
LEMMA CallerIsNotBlank ==
    ASSUME CallerStep, outcome.kind = "text" => outcome.text # None
    PROVE  outcome'.kind = "text" => outcome'.text # None
<1>1. CASE Call \/ Flush \/ Check
      BY <1>1 DEF Call, Flush, Check, Write, WriteFails, Raise, Leave, Outcome
<1>2. CASE GetNothing \/ GetBroken \/ GetTool \/ GetOther \/ KeepNote
      BY <1>2 DEF GetNothing, GetBroken, GetTool, GetOther, KeepNote, Write, WriteFails, Again,
                  Raise, Leave, Outcome
<1>3. CASE GetReply BY <1>3 DEF GetReply, Proceed, Ask, Raise, Leave, Outcome
<1>4. CASE HearKept \/ HearNew
  <2>1. \E m : Hear(m) BY <1>4 DEF HearKept, HearNew
  <2> QED BY <2>1 DEF Hear, Raise, Leave, Ask, Again, Outcome
<1>5. CASE Term BY <1>5 DEF Term
<1>6. CASE Reap \/ Join \/ Kill BY <1>6 DEF Reap, Join, Kill, caller
<1>7. CASE Streams BY <1>7 DEF Streams, Outcome
<1> QED BY <1>1, <1>2, <1>3, <1>4, <1>5, <1>6, <1>7 DEF CallerStep

\* Using a text that is not blank, for either call.
LEMMA UseIsNotBlank ==
    ASSUME NEW text, Use(text), UNCHANGED provider, NotBlank,
           provider \in {"openai", "codex"} => text # None
    PROVE  /\ phase' = "validate" /\ provider' \in {"openai", "codex"} => draft' # None
           /\ phase' = "returned" /\ provider' \in {"openai", "codex"} => result' # None
<1>1. None \notin Texts BY CodexAssumption
<1>2. CASE phase = "draft" /\ draft' = text /\ phase' = "validate" BY <1>2
<1>3. CASE phase = "validate" /\ ParseValidation
      BY <1>1, <1>3 DEF ParseValidation, Raises, NotBlank
<1>4. CASE phase = "validate" /\ result' = draft /\ phase' = "returned" BY <1>4 DEF NotBlank
<1> QED BY <1>2, <1>3, <1>4 DEF Use

\* Every step of the system keeps them so.
LEMMA NextIsNotBlank ==
    ASSUME NotBlank, [Next]_vars
    PROVE  NotBlank'
<1>1. CASE Optimize BY <1>1 DEF NotBlank, Optimize, cxVars, caller
<1>2. CASE Discover BY <1>2 DEF NotBlank, Discover, Open, Missing, Outcome
<1>3. CASE Answered
  <2>1. UNCHANGED <<outcome, provider>> /\ provider # "codex"
        BY <1>3 DEF Answered, cxVars, caller
  <2>2. PICK text : Use(text) /\ (provider = "openai" => text # None) BY <1>3 DEF Answered
  <2> QED BY <2>1, <2>2, UseIsNotBlank DEF NotBlank
<1>4. CASE Failed BY <1>4 DEF NotBlank, Failed, Raises, cxVars, caller
<1>5. CASE OpenSession
      BY <1>5 DEF NotBlank, OpenSession, Open, Missing, Outcome, genVars
<1>6. CASE SessionOver
  <2>1. UNCHANGED provider /\ outcome' = Outcome("none", None) BY <1>6 DEF SessionOver, Forget
  <2>2. CASE outcome.kind = "text"
        BY <1>6, <2>1, <2>2, UseIsNotBlank DEF NotBlank, SessionOver, Outcome
  <2>3. CASE outcome.kind # "text"
        BY <1>6, <2>1, <2>3 DEF NotBlank, SessionOver, Raises, Outcome
  <2> QED BY <2>2, <2>3
<1>7. CASE Done BY <1>7 DEF NotBlank, Done, Forget, Outcome
<1>8. CASE CallerStep /\ UNCHANGED genVars BY <1>8, CallerIsNotBlank DEF NotBlank, genVars
<1>9. CASE OtherStep
      BY <1>9, OthersLeaveTheCaller DEF NotBlank, OtherStep, genVars, Expire, Cancel, caller
<1>10. CASE UNCHANGED vars BY <1>10 DEF NotBlank, vars, cxVars, caller, genVars
<1> QED BY <1>1, <1>2, <1>3, <1>4, <1>5, <1>6, <1>7, <1>8, <1>9, <1>10
        DEF Next, ThreadStep, AdapterStep

\* For every answer of the model: what the two adapters of OpenAI return is not
\* blank (openai_optimizer.py:81-84, codex_client.py:379-392).
THEOREM NoBlankText == Spec => []BlankIsAnError
<1>1. Init => NotBlank BY DEF Init, CodexInit, NotBlank, Outcome
<1>2. NotBlank /\ [Next]_vars => NotBlank' BY NextIsNotBlank
<1>3. NotBlank => BlankIsAnError BY DEF NotBlank, BlankIsAnError
<1> QED BY <1>1, <1>2, <1>3, PTL DEF Spec

-----------------------------------------------------------------------------
(***************************************************************************)
(* Which attempts are made again                                           *)
(***************************************************************************)

Failures == {"transient", "permanent"}

\* How an adapter's attempts have failed that is still at it.
Counted ==
    /\ failures \in Seq(Failures) /\ attempt \in 1..MaxRetries
    /\ Optimizing => Len(failures) = attempt - 1
    /\ Optimizing /\ provider = "openai"
          => \A i \in 1..Len(failures) : failures[i] = "transient"
    /\ Optimizing /\ provider # "codex" => pc = "idle"
    /\ provider = "codex" \/ phase \in {"idle", "returned"} => failures = <<>>
    /\ phase \in {"idle", "draft", "validate", "returned", "raised"}
    /\ phase = "raised" => RetriesWhatMayPass

\* An adapter's answer, or an error that is not of an attempt, ends the call.
LEMMA UseIsCounted ==
    ASSUME NEW text, Use(text)
    PROVE  phase' \in {"validate", "returned", "raised"}
BY DEF Use, ParseValidation, Raises

\* A failed attempt is counted, and made again or not.
LEMMA FailedIsCounted ==
    ASSUME Counted, Failed
    PROVE  Counted'
<1>1. PICK kind \in Failures :
          /\ failures' = Append(failures, kind)
          /\ \/ Retries(kind) /\ attempt' = attempt + 1 /\ UNCHANGED <<phase, draft, result>>
             \/ ~Retries(kind) /\ Raises /\ UNCHANGED attempt
      BY DEF Failed, Failures
<1>2. Optimizing /\ provider # "codex" /\ UNCHANGED <<provider, pc>> /\ pc = "idle"
      BY DEF Failed, cxVars, Counted
<1>3. /\ failures \in Seq(Failures) /\ attempt \in 1..MaxRetries /\ MaxRetries \in Nat \ {0}
      /\ Len(failures) = attempt - 1
      /\ provider = "openai" => \A i \in 1..Len(failures) : failures[i] = "transient"
      BY <1>2, GenerationAssumption DEF Counted
<1>4. /\ failures' \in Seq(Failures) /\ Len(failures') = attempt
      /\ failures'[attempt] = kind
      /\ \A i \in 1..(attempt - 1) : failures'[i] = failures[i]
      BY <1>1, <1>3
<1>5. CASE Retries(kind) /\ attempt' = attempt + 1 /\ UNCHANGED <<phase, draft, result>>
  <2>1. attempt' \in 1..MaxRetries /\ (provider = "openai" => kind = "transient")
        BY <1>3, <1>5 DEF Retries
  <2>2. provider' = "openai" => \A i \in 1..Len(failures') : failures'[i] = "transient"
        BY <1>2, <1>3, <1>4, <2>1
  <2> QED BY <1>2, <1>3, <1>4, <1>5, <2>1, <2>2 DEF Counted, Optimizing
<1>6. CASE ~Retries(kind) /\ Raises /\ UNCHANGED attempt
  <2>1. attempt = MaxRetries \/ (provider = "openai" /\ kind = "permanent")
        BY <1>3, <1>6 DEF Retries, Failures
  <2>2. RetriesWhatMayPass'
        BY <1>2, <1>3, <1>4, <1>6, <2>1 DEF RetriesWhatMayPass, Raises
  <2> QED BY <1>2, <1>3, <1>4, <1>6, <2>2 DEF Counted, Raises, Optimizing
<1> QED BY <1>1, <1>5, <1>6

\* Every step of the system counts them.
LEMMA NextIsCounted ==
    ASSUME Counted, [Next]_vars
    PROVE  Counted'
<1>0. MaxRetries \in Nat \ {0} /\ <<>> \in Seq(Failures) /\ Len(<<>>) = 0
      BY GenerationAssumption
<1>1. CASE Optimize
      BY <1>0, <1>1 DEF Counted, Optimize, cxVars, Optimizing
<1>2. CASE Discover BY <1>2 DEF Counted, Discover, Optimizing
<1>3. CASE Answered
  <2>1. phase' \in {"validate", "returned", "raised"} BY <1>3, UseIsCounted DEF Answered
  <2>2. failures' = <<>> /\ attempt' = 1 /\ UNCHANGED <<provider, pc>> /\ pc = "idle"
        BY <1>3 DEF Answered, cxVars, Counted
  <2> QED BY <1>0, <2>1, <2>2 DEF Counted, Optimizing, RetriesWhatMayPass
<1>4. CASE Failed BY <1>4, FailedIsCounted
<1>5. CASE OpenSession
      BY <1>5 DEF Counted, OpenSession, genVars, Optimizing, RetriesWhatMayPass
<1>6. CASE SessionOver
  <2>1. provider = "codex" /\ failures = <<>> /\ UNCHANGED <<provider, attempt, failures>>
        BY <1>6 DEF SessionOver, Counted
  <2>2. phase' \in {"validate", "returned", "raised"}
        BY <1>6, UseIsCounted DEF SessionOver, Raises
  <2> QED BY <1>0, <1>6, <2>1, <2>2 DEF Counted, SessionOver, Optimizing, RetriesWhatMayPass
<1>7. CASE Done BY <1>0, <1>7 DEF Counted, Done, Optimizing
<1>8. CASE CallerStep /\ UNCHANGED genVars
      BY <1>8, CallersAreInASession DEF Counted, genVars, Optimizing, RetriesWhatMayPass
<1>9. CASE OtherStep
  <2>1. UNCHANGED <<pc, genVars>>
        BY <1>9, OthersLeaveTheCaller DEF OtherStep, Expire, Cancel
  <2> QED BY <2>1 DEF Counted, genVars, Optimizing, RetriesWhatMayPass
<1>10. CASE UNCHANGED vars
       BY <1>10 DEF Counted, vars, cxVars, genVars, Optimizing, RetriesWhatMayPass
<1> QED BY <1>1, <1>2, <1>3, <1>4, <1>5, <1>6, <1>7, <1>8, <1>9, <1>10
        DEF Next, ThreadStep, AdapterStep

\* For every number of attempts: only OpenAI's lasting failures end a call
\* before its attempts are spent, and they do at once
\* (openai_optimizer.py:70-100, local_llm_optimizer.py:80-106).
THEOREM RetriesOnly == Spec => []RetriesWhatMayPass
<1>1. Init => Counted
      BY GenerationAssumption DEF Init, CodexInit, Counted, Optimizing, RetriesWhatMayPass
<1>2. Counted /\ [Next]_vars => Counted' BY NextIsCounted
<1>3. Counted => RetriesWhatMayPass
  <2>1. SUFFICES ASSUME Counted PROVE RetriesWhatMayPass OBVIOUS
  <2>2. CASE Optimizing
    <3>1. Len(failures) \in Nat /\ Len(failures) <= MaxRetries
          BY <2>1, <2>2, GenerationAssumption DEF Counted
    <3>2. phase # "raised" BY <2>2 DEF Optimizing
    <3> QED BY <2>1, <2>2, <3>1, <3>2 DEF Counted, RetriesWhatMayPass
  <2>3. CASE phase \in {"idle", "returned"}
        BY <2>1, <2>3, GenerationAssumption DEF Counted, RetriesWhatMayPass
  <2> QED BY <2>1, <2>2, <2>3 DEF Counted, Optimizing
<1> QED BY <1>1, <1>2, <1>3, PTL DEF Spec

-----------------------------------------------------------------------------
(***************************************************************************)
(* Types                                                                   *)
(***************************************************************************)

Kinds  == {"none", "text", "models", "config", "optimization", "pipe"}
Blanks == Texts \cup {None}

\* What is between the threads and the processes.
QueuesTyped ==
    /\ input \in Seq(Messages) /\ lines \in Seq(Messages) /\ messages \in Seq(Messages)
    /\ events \in Seq(Messages) /\ sent \in Seq(Messages)
    /\ serving \in Messages /\ nextId \in Nat /\ method \in Values
    /\ final \in Blanks /\ said \in Blanks

\* Where the caller is, and with what.
CallerTyped ==
    /\ op \in {"none", "generate", "models", "signin"} /\ (op = "none" => pc = "idle")
    /\ pc \in {"idle", "call", "reply", "reply_get", "event", "event_get",
               "call_held", "ask_held", "reply_held", "event_held",
               "term", "reap", "join", "kill", "streams", "over"}
    /\ outcome.kind \in Kinds /\ outcome.text \in Blanks

\* What may happen at any time.
FlagsTyped ==
    /\ expired \in BOOLEAN /\ cancel \in BOOLEAN /\ unsent \in BOOLEAN
    /\ turn \in {"none", "open", "blocked", "over"} /\ faults \in 0..MaxFaults

\* The optimization.
TextsTyped == draft \in Blanks /\ result \in Blanks /\ uses \in 0..MaxUses

Typed == QueuesTyped /\ CallerTyped /\ FlagsTyped /\ TextsTyped

\* Messages.
LEMMA MessagesAreMessages ==
    /\ \A id \in Nat, value \in Values :
           /\ Message("request", id, value, None) \in Messages
           /\ Message("reply", id, value, None) \in Messages
    /\ \A value \in Values, text \in Blanks : Note(value, text) \in Messages
    /\ Message("refusal", 0, "refusal", None) \in Messages
    /\ Tool \in Messages /\ Garbage \in Messages /\ Broken \in Messages /\ NoRequest \in Messages
    /\ \A m \in Messages : m.id \in Nat /\ m.value \in Values /\ m.text \in Blanks
<1>1. ASSUME NEW type \in {"request", "refusal", "reply", "note", "tool", "garbage", "broken", "none"},
             NEW id \in Nat, NEW value \in Values, NEW text \in Blanks
      PROVE  Message(type, id, value, text) \in Messages
      BY DEF Message, Messages, Blanks
<1>2. None \in Blanks BY DEF Blanks
<1>3. {"refusal", "tool", "garbage", "broken", "none"} \subseteq Values BY DEF Values
<1>4. \A m \in Messages : m.id \in Nat /\ m.value \in Values /\ m.text \in Blanks
      BY DEF Messages, Blanks
<1>5. Tool \in Messages /\ Garbage \in Messages /\ Broken \in Messages /\ NoRequest \in Messages
      BY <1>1, <1>2, <1>3 DEF Tool, Garbage, Broken, NoRequest
<1> QED BY <1>1, <1>2, <1>3, <1>4, <1>5 DEF Note

\* A queue takes one more of them.
LEMMA QueueGrows ==
    ASSUME NEW s \in Seq(Messages), NEW m \in Messages
    PROVE  Append(s, m) \in Seq(Messages)
OBVIOUS

\* A session ends with something.
LEMMA LeaveIsTyped ==
    ASSUME NEW kind \in Kinds, NEW text \in Blanks, Leave(kind, text), op' = op, op # "none"
    PROVE  CallerTyped' \/ op \notin {"generate", "models", "signin"}
BY DEF Leave, Outcome, CallerTyped

\* A step of the caller that only goes on.
LEMMA GoesOn ==
    ASSUME CallerTyped, pc # "idle", UNCHANGED outcome,
           op' \in {op, "models"},
           pc' \in {"call", "reply", "reply_get", "event", "event_get",
                    "call_held", "ask_held", "reply_held", "event_held",
                    "term", "reap", "join", "kill", "streams", "over"}
    PROVE  CallerTyped'
BY DEF CallerTyped

\* Or raises.
LEMMA RaiseIsTyped ==
    ASSUME CallerTyped, op # "none", op' = op, NEW kind \in Kinds, Raise(kind)
    PROVE  CallerTyped'
BY LeaveIsTyped DEF Raise, CallerTyped, Blanks

\* What the caller makes of a reply.
LEMMA ProceedIsTyped ==
    ASSUME CallerTyped, pc = "reply_get", method \in Values, NEW value, Proceed(value)
    PROVE  CallerTyped' /\ method' \in Values
<1>0. op # "none" /\ op \in {"generate", "models", "signin"} BY DEF CallerTyped
<1>1. method' \in Values
  <2>1. \A what \in {"initialized", "thread/start", "model/list", "account/read", "turn/start"} :
            what \in Values
        BY DEF Values
  <2>2. method' \in {method, "initialized", "thread/start", "model/list", "account/read", "turn/start"}
        BY <1>0 DEF Proceed, Ask
  <2> QED BY <2>1, <2>2
<1>2. \/ op' = op /\ Raise("config")
      \/ op' = op /\ Leave("models", None)
      \/ op' \in {op, "models"} /\ pc' \in {"call", "event"} /\ UNCHANGED outcome
      BY DEF Proceed, Ask
<1>3. "config" \in Kinds /\ "models" \in Kinds /\ None \in Blanks BY DEF Kinds, Blanks
<1> QED BY <1>0, <1>1, <1>2, <1>3, RaiseIsTyped, LeaveIsTyped, GoesOn

\* What it makes of a notification.
LEMMA HearIsTyped ==
    ASSUME CallerTyped, pc = "event_get", method \in Values, final \in Blanks, NEW m \in Messages,
           Hear(m), op' = op
    PROVE  CallerTyped' /\ method' \in Values /\ final' \in Blanks
<1>0. op # "none" /\ op \in {"generate", "models", "signin"} BY DEF CallerTyped
<1>1. method' \in Values BY DEF Hear, Ask, Values
<1>2. final' \in Blanks BY MessagesAreMessages DEF Hear, LastText
<1>3. \/ Raise("config") \/ Raise("optimization") \/ Leave("text", final)
      \/ pc' \in {"call", "reply", "event"} /\ UNCHANGED outcome
      BY DEF Hear, Ask, Again
<1>4. "config" \in Kinds /\ "optimization" \in Kinds /\ "text" \in Kinds BY DEF Kinds
<1> QED BY <1>0, <1>1, <1>2, <1>3, <1>4, RaiseIsTyped, LeaveIsTyped, GoesOn

\* The caller's steps within its waits.
LEMMA WaitIsTyped ==
    ASSUME Typed,
           \/ Call \/ Flush \/ Check \/ GetNothing \/ GetBroken \/ GetTool \/ GetReply
           \/ GetOther \/ KeepNote \/ HearKept \/ HearNew
    PROVE  QueuesTyped' /\ CallerTyped' /\ FlagsTyped'
<1>0. /\ QueuesTyped /\ CallerTyped /\ FlagsTyped
      /\ pc # "idle" /\ op # "none" /\ "config" \in Kinds
      BY CallersAreInASession DEF Typed, CallerStep, CallerTyped, Kinds
<1>1. CASE Call
  <2>1. \/ /\ UNCHANGED outcome /\ unsent' = unsent
           /\ pc' \in {"call", "call_held", "reply", "ask_held"}
        \/ Raise("config") /\ unsent' = TRUE
        BY <1>1 DEF Call, Write, Behind, WriteFails
  <2>2. op' = op BY <1>1 DEF Call
  <2>3. CallerTyped' BY <1>0, <2>1, <2>2, RaiseIsTyped, GoesOn
  <2>4. nextId' \in Nat /\ method' \in Values
    <3>1. nextId' \in {nextId, nextId + 1} BY <1>1 DEF Call
    <3>2. method' \in {method, "account/login/start", "account/read"} BY <1>1 DEF Call
    <3> QED BY <1>0, <3>1, <3>2 DEF QueuesTyped, Values
  <2>5. input' \in Seq(Messages)
    <3>1. PICK m \in Messages : input' = Append(input, m) \/ input' = input
      <4>1. CASE method = "initialized"
            BY <1>0, <1>1, <4>1, MessagesAreMessages DEF Call, Write, WriteFails, QueuesTyped
      <4>2. CASE method # "initialized"
            BY <1>0, <1>1, <2>4, <4>2, MessagesAreMessages DEF Call, Write, WriteFails, QueuesTyped
      <4> QED BY <4>1, <4>2
    <3>2. input \in Seq(Messages) BY <1>0 DEF QueuesTyped
    <3> QED BY <3>1, <3>2, QueueGrows
  <2>6. QueuesTyped' BY <1>0, <1>1, <2>4, <2>5 DEF Call, server, QueuesTyped
  <2>7. expired' \in {expired, FALSE} /\ unsent' \in {unsent, TRUE} BY <1>1, <2>1 DEF Call
  <2>8. FlagsTyped' BY <1>0, <1>1, <2>7 DEF Call, server, FlagsTyped
  <2> QED BY <2>3, <2>6, <2>8
<1>12. CASE Flush
  <2>1. /\ UNCHANGED <<op, method, nextId, events, final, cancel, expired, input, lines, messages,
                        serving, turn, faults, said, sent>>
        BY <1>12 DEF Flush, WriteFails, server
  <2>2. \/ Raise("config") /\ unsent' = TRUE
        \/ pc' \in {"call", "reply", "event"} /\ UNCHANGED <<outcome, unsent>>
        BY <1>12 DEF Flush, Writing, Behind, WriteFails
  <2>3. CallerTyped' BY <1>0, <2>1, <2>2, RaiseIsTyped, GoesOn
  <2> QED BY <1>0, <2>1, <2>2, <2>3 DEF QueuesTyped, FlagsTyped
<1>2. CASE Check
  <2>1. /\ UNCHANGED <<op, method, nextId, events, final, cancel, unsent, expired, input, lines,
                        messages, serving, turn, faults, said, sent>>
        BY <1>2 DEF Check, server
  <2>2. \/ Raise("config")
        \/ pc' \in {"reply_get", "event_get"} /\ UNCHANGED outcome
        BY <1>2 DEF Check
  <2> QED BY <1>0, <2>1, <2>2, RaiseIsTyped, GoesOn DEF QueuesTyped, FlagsTyped
<1>3. CASE GetNothing
  <2>1. /\ UNCHANGED <<op, method, nextId, events, final, cancel, unsent, expired, input, lines,
                        messages, serving, turn, faults, said, sent>>
        BY <1>3 DEF GetNothing, server
  <2>2. pc' \in {"reply", "event"} /\ UNCHANGED outcome BY <1>3 DEF GetNothing, Again
  <2> QED BY <1>0, <2>1, <2>2, GoesOn DEF QueuesTyped, FlagsTyped
<1>4. ASSUME NEW type, Receives(type)
      PROVE  Head(messages) \in Messages /\ messages' \in Seq(Messages)
      BY <1>0, <1>4 DEF Receives, QueuesTyped
<1>5. CASE GetBroken
  <2>1. /\ UNCHANGED <<op, method, nextId, events, final, cancel, unsent, expired, input, lines,
                        serving, turn, faults, said, sent>>
        BY <1>5 DEF GetBroken, server
  <2>2. messages' \in Seq(Messages) /\ Raise("config") BY <1>4, <1>5 DEF GetBroken
  <2> QED BY <1>0, <2>1, <2>2, RaiseIsTyped DEF QueuesTyped, FlagsTyped
<1>6. CASE GetTool
  <2>1. /\ UNCHANGED <<op, method, nextId, events, final, cancel, expired, lines,
                        serving, turn, faults, said, sent>>
        BY <1>6 DEF GetTool, server
  <2>2. messages' \in Seq(Messages) BY <1>4, <1>6 DEF GetTool
  <2>3. \/ /\ input' = Append(input, Message("refusal", 0, "refusal", None)) /\ unsent' = unsent
           /\ pc' \in {"reply", "event", "reply_held", "event_held"} /\ UNCHANGED outcome
        \/ Raise("config") /\ unsent' = TRUE /\ input' = input
        BY <1>6 DEF GetTool, Write, Behind, WriteFails
  <2>4. input' \in Seq(Messages) /\ unsent' \in BOOLEAN
    <3>1. input \in Seq(Messages) /\ unsent \in BOOLEAN BY <1>0 DEF QueuesTyped, FlagsTyped
    <3>2. input' \in Seq(Messages) BY <2>3, <3>1, MessagesAreMessages, QueueGrows
    <3>3. unsent' \in BOOLEAN BY <2>3, <3>1
    <3> QED BY <3>2, <3>3
  <2>5. CallerTyped' BY <1>0, <2>1, <2>3, RaiseIsTyped, GoesOn
  <2> QED BY <1>0, <2>1, <2>2, <2>4, <2>5 DEF QueuesTyped, FlagsTyped
<1>7. CASE GetReply
  <2>1. /\ UNCHANGED <<nextId, events, final, cancel, unsent, input, lines,
                        serving, turn, faults, said, sent>> /\ expired' = FALSE
        BY <1>7 DEF GetReply, server
  <2>2. messages' \in Seq(Messages) BY <1>4, <1>7 DEF GetReply
  <2>3. CallerTyped' /\ method' \in Values
        BY <1>0, <1>7, ProceedIsTyped DEF GetReply, QueuesTyped
  <2> QED BY <1>0, <2>1, <2>2, <2>3 DEF QueuesTyped, FlagsTyped
<1>8. CASE GetOther
  <2>1. /\ UNCHANGED <<op, method, nextId, events, final, cancel, unsent, expired, input, lines,
                        serving, turn, faults, said, sent>>
        BY <1>8 DEF GetOther, server
  <2>2. /\ messages' \in Seq(Messages) /\ pc' \in {"reply", "event"} /\ UNCHANGED outcome
        BY <1>4, <1>8 DEF GetOther, Again
  <2> QED BY <1>0, <2>1, <2>2, GoesOn DEF QueuesTyped, FlagsTyped
<1>9. CASE KeepNote
  <2>1. /\ UNCHANGED <<op, method, nextId, final, cancel, unsent, expired, input, lines,
                        serving, turn, faults, said, sent>>
        BY <1>9 DEF KeepNote, server
  <2>2. /\ messages' \in Seq(Messages) /\ pc' \in {"reply", "event"} /\ UNCHANGED outcome
        /\ events' = Append(events, Head(messages)) /\ Head(messages) \in Messages
        BY <1>4, <1>9 DEF KeepNote, Again
  <2>3. events' \in Seq(Messages) BY <1>0, <2>2 DEF QueuesTyped
  <2> QED BY <1>0, <2>1, <2>2, <2>3, GoesOn DEF QueuesTyped, FlagsTyped
<1>10. CASE HearKept
  <2>1. /\ UNCHANGED <<op, nextId, cancel, unsent, expired, input, lines, messages,
                        serving, turn, faults, said, sent>>
        BY <1>10 DEF HearKept, server
  <2>2. Head(events) \in Messages /\ events' \in Seq(Messages)
        BY <1>0, <1>10 DEF HearKept, QueuesTyped
  <2>3. CallerTyped' /\ method' \in Values /\ final' \in Blanks
        BY <1>0, <1>10, <2>1, <2>2, HearIsTyped DEF HearKept, QueuesTyped
  <2> QED BY <1>0, <2>1, <2>2, <2>3 DEF QueuesTyped, FlagsTyped
<1>11. CASE HearNew
  <2>1. /\ UNCHANGED <<op, nextId, events, cancel, unsent, expired, input, lines,
                        serving, turn, faults, said, sent>>
        BY <1>11 DEF HearNew, server
  <2>2. Head(messages) \in Messages /\ messages' \in Seq(Messages) BY <1>4, <1>11 DEF HearNew
  <2>3. CallerTyped' /\ method' \in Values /\ final' \in Blanks
        BY <1>0, <1>11, <2>1, <2>2, HearIsTyped DEF HearNew, QueuesTyped
  <2> QED BY <1>0, <2>1, <2>2, <2>3 DEF QueuesTyped, FlagsTyped
<1> QED BY <1>1, <1>2, <1>3, <1>5, <1>6, <1>7, <1>8, <1>9, <1>10, <1>11, <1>12

\* Nothing is left of a session.
LEMMA DropIsTyped ==
    ASSUME Drop, lines' \in {<<>>, <<Garbage>>}
    PROVE  /\ QueuesTyped'
           /\ expired' = FALSE /\ cancel' = FALSE /\ turn' = "none"
<1>1. <<>> \in Seq(Messages) /\ <<Garbage>> \in Seq(Messages) /\ NoRequest \in Messages
      BY MessagesAreMessages
<1>3. "none" \in Values /\ None \in Blanks /\ 0 \in Nat BY DEF Values, Blanks
<1>4. QueuesTyped' BY <1>1, <1>3 DEF Drop, QueuesTyped
<1> QED BY <1>4 DEF Drop

\* Its closing.
LEMMA CloseIsTyped ==
    ASSUME Typed, Term \/ Reap \/ Join \/ Kill \/ Streams
    PROVE  QueuesTyped' /\ CallerTyped' /\ FlagsTyped'
<1>0. QueuesTyped /\ CallerTyped /\ FlagsTyped /\ pc # "idle"
      BY CallersAreInASession DEF Typed, CallerStep
<1>1. CASE Term
  <2>1. UNCHANGED <<op, unsent, outcome, faults>> /\ pc' = "reap" BY <1>1 DEF Term
  <2>2. Drop /\ lines' \in {<<>>, <<Garbage>>} BY <1>1 DEF Term
  <2> QED BY <1>0, <2>1, <2>2, DropIsTyped, GoesOn DEF FlagsTyped
<1>2. CASE Reap \/ Join \/ Kill
  <2>1. UNCHANGED <<caller, expired, input, lines, messages, server>>
        /\ pc' \in {"join", "kill", "streams"}
        BY <1>2 DEF Reap, Join, Kill
  <2> QED BY <1>0, <2>1, GoesOn DEF caller, server, QueuesTyped, FlagsTyped
<1>3. CASE Streams
  <2>1. /\ UNCHANGED <<op, method, nextId, events, final, cancel, unsent, expired, input, lines,
                        messages, serving, turn, faults, said, sent>>
        BY <1>3 DEF Streams, server
  <2>2. outcome'.kind \in Kinds /\ outcome'.text \in Blanks /\ pc' = "over"
        BY <1>0, <1>3 DEF Streams, Outcome, Kinds, Blanks, CallerTyped
  <2> QED BY <1>0, <2>1, <2>2 DEF QueuesTyped, FlagsTyped, CallerTyped
<1> QED BY <1>1, <1>2, <1>3

\* The reader.
LEMMA ReaderIsTyped ==
    ASSUME QueuesTyped, ReaderStep
    PROVE  QueuesTyped'
<1>0. <<>> \in Seq(Messages) /\ <<Broken>> \in Seq(Messages) /\ <<Broken, Broken>> \in Seq(Messages)
      BY MessagesAreMessages
<1>1. ASSUME NEW ms \in Seq(Messages), Put(ms) PROVE messages' \in Seq(Messages)
      BY <1>0, <1>1 DEF Put, QueuesTyped
<1>2. CASE ReadLine
  <2>1. <<Head(lines)>> \in Seq(Messages) /\ lines' \in Seq(Messages)
        BY <1>2 DEF ReadLine, QueuesTyped
  <2>2. messages' \in Seq(Messages) BY <1>0, <1>1, <1>2, <2>1 DEF ReadLine
  <2> QED BY <1>2, <2>1, <2>2 DEF ReadLine, readerFrame, caller, server, QueuesTyped
<1>3. CASE ReadEnd
  <2>1. messages' \in Seq(Messages) BY <1>0, <1>1, <1>3 DEF ReadEnd
  <2> QED BY <1>3, <2>1 DEF ReadEnd, readerFrame, caller, server, QueuesTyped
<1> QED BY <1>2, <1>3 DEF ReaderStep

\* The server.
LEMMA ServerIsTyped ==
    ASSUME Typed, ServerStep
    PROVE  QueuesTyped' /\ turn' \in {"none", "open", "blocked", "over"} /\ faults' \in 0..MaxFaults
<1>0. /\ QueuesTyped /\ op \in {"none", "generate", "models", "signin"} /\ (op = "none" => pc = "idle")
      /\ turn \in {"none", "open", "blocked", "over"} /\ faults \in 0..MaxFaults /\ MaxFaults \in Nat
      BY CodexAssumption DEF Typed, CallerTyped, FlagsTyped
<1>1. CASE Accept
  <2>1. /\ UNCHANGED <<method, nextId, events, final, lines, messages, said, sent, faults>>
        /\ input' = Tail(input) /\ input # <<>>
        BY <1>1 DEF Accept, serverFrame, caller
  <2>2. input' \in Seq(Messages) /\ Head(input) \in Messages BY <1>0, <2>1 DEF QueuesTyped
  <2>3. serving' \in {Head(input), NoRequest} /\ turn' \in {turn, "open"} BY <1>1 DEF Accept
  <2> QED BY <1>0, <2>1, <2>2, <2>3, MessagesAreMessages DEF QueuesTyped
<1>2. CASE Answer
  <2>1. /\ UNCHANGED <<method, nextId, events, final, input, messages, said, sent, turn>>
        BY <1>2 DEF Answer, serverFrame, caller
  <2>2. \A what, value : value \in Answers(what) => value \in Values BY DEF Answers, Values
  <2>3. lines' \in Seq(Messages) /\ serving' \in Messages
    <3>1. serving.id \in Nat BY <1>0, MessagesAreMessages DEF QueuesTyped
    <3>2. PICK m \in Messages : lines' = Append(lines, m)
      <4>1. "yes" \in Values /\ 0 \in Nat BY DEF Values
      <4>2. \/ \E value \in Answers(serving.value) :
                   lines' = Append(lines, Message("reply", serving.id, value, None))
            \/ lines' = Append(lines, Message("reply", 0, "yes", None))
            BY <1>2 DEF Answer
      <4> QED BY <2>2, <3>1, <4>1, <4>2, MessagesAreMessages
    <3>3. serving' \in {serving, NoRequest} BY <1>2 DEF Answer
    <3>4. lines \in Seq(Messages) /\ serving \in Messages BY <1>0 DEF QueuesTyped
    <3> QED BY <3>2, <3>3, <3>4, MessagesAreMessages, QueueGrows
  <2>4. faults' \in 0..MaxFaults BY <1>0, <1>2 DEF Answer
  <2> QED BY <1>0, <2>1, <2>3, <2>4 DEF QueuesTyped
<1>3. CASE Remark
  <2>1. /\ UNCHANGED <<method, nextId, events, final, input, messages, serving, faults>>
        BY <1>3 DEF Remark, serverFrame, caller
  <2>2. op \in {"generate", "models", "signin"}
        BY <1>0, <1>3 DEF Remark, Talking, Waiting, Writing
  <2>3. Remarks[op] \subseteq Values BY <2>2 DEF Remarks, Values
  <2>4. PICK value \in Values, text \in Blanks :
            /\ sent' = Append(sent, Note(value, text)) /\ lines' = Append(lines, Note(value, text))
            /\ said' \in {text, said} /\ turn' \in {"over", turn}
        BY <1>3, <2>3 DEF Remark, Blanks
  <2>5. Note(value, text) \in Messages BY <2>4, MessagesAreMessages
  <2>6. sent' \in Seq(Messages) /\ lines' \in Seq(Messages) BY <1>0, <2>4, <2>5 DEF QueuesTyped
  <2> QED BY <1>0, <2>1, <2>4, <2>6 DEF QueuesTyped
<1>4. CASE AskTool
  <2>1. /\ UNCHANGED <<method, nextId, events, final, input, messages, serving, faults, said, sent>>
        /\ lines' = Append(lines, Tool) /\ turn' = "blocked"
        BY <1>4 DEF AskTool, serverFrame, caller
  <2>2. lines \in Seq(Messages) BY <1>0 DEF QueuesTyped
  <2>3. lines' \in Seq(Messages) BY <2>1, <2>2, MessagesAreMessages, QueueGrows
  <2> QED BY <1>0, <2>1, <2>3 DEF QueuesTyped
<1>5. CASE Fault
  <2>1. /\ UNCHANGED <<method, nextId, events, final, input, messages, serving, turn, said, sent>>
        /\ lines' \in {lines, Append(lines, Garbage)}
        BY <1>5 DEF Fault, serverFrame, caller
  <2>2. lines \in Seq(Messages) BY <1>0 DEF QueuesTyped
  <2>3. lines' \in Seq(Messages) BY <2>1, <2>2, MessagesAreMessages, QueueGrows
  <2>4. faults' \in 0..MaxFaults BY <1>0, <1>5 DEF Fault
  <2> QED BY <1>0, <2>1, <2>3, <2>4 DEF QueuesTyped
<1> QED BY <1>1, <1>2, <1>3, <1>4, <1>5 DEF ServerStep

\* A step that leaves the session alone.
LEMMA SessionStays ==
    ASSUME QueuesTyped, CallerTyped, FlagsTyped, UNCHANGED cxVars
    PROVE  QueuesTyped' /\ CallerTyped' /\ FlagsTyped'
BY DEF cxVars, caller, server, QueuesTyped, CallerTyped, FlagsTyped

\* A session is opened, or cannot be.
LEMMA OpenIsTyped ==
    ASSUME QueuesTyped, CallerTyped, FlagsTyped, NEW o \in {"generate", "models", "signin"},
           Open(o) \/ Missing(o)
    PROVE  QueuesTyped' /\ CallerTyped' /\ FlagsTyped'
<1>1. /\ UNCHANGED <<nextId, events, final, cancel, unsent, expired, input, lines, messages, serving,
                      turn, faults, said, sent>>
      /\ op' = o /\ method' \in {method, "initialize"} /\ pc' \in {"call", "over"}
      BY DEF Open, Missing, server
<1>0. "initialize" \in Values /\ "none" \in Values BY DEF Values
<1>2. outcome' = outcome \/ outcome' = Outcome("config", None) BY DEF Open, Missing
<1>3. outcome'.kind \in Kinds /\ outcome'.text \in Blanks
      BY <1>2 DEF Outcome, Kinds, Blanks, CallerTyped
<1> QED BY <1>0, <1>1, <1>3 DEF QueuesTyped, CallerTyped, FlagsTyped

\* And forgotten.
LEMMA ForgetIsTyped ==
    ASSUME FlagsTyped, Forget
    PROVE  QueuesTyped' /\ CallerTyped' /\ FlagsTyped'
<1>1. /\ Drop /\ lines' = <<>>
      /\ op' = "none" /\ pc' = "idle" /\ unsent' = FALSE /\ outcome' = Outcome("none", None)
      /\ UNCHANGED faults
      BY DEF Forget
<1>2. outcome'.kind = "none" /\ outcome'.text = None BY <1>1 DEF Outcome
<1> QED BY <1>1, <1>2, DropIsTyped DEF CallerTyped, FlagsTyped, Kinds, Blanks

\* A text is used.
LEMMA UseIsTyped ==
    ASSUME TextsTyped, NEW text \in Blanks, Use(text) \/ Raises, UNCHANGED uses
    PROVE  TextsTyped'
BY DEF Use, ParseValidation, Raises, TextsTyped, Blanks

\* Every step of the system.
LEMMA NextIsTyped ==
    ASSUME Typed, [Next]_vars
    PROVE  Typed'
<1>0. /\ QueuesTyped /\ CallerTyped /\ FlagsTyped /\ TextsTyped /\ uses \in 0..MaxUses
      /\ MaxUses \in Nat
      BY GenerationAssumption DEF Typed, TextsTyped
<1>1. UNCHANGED genVars => TextsTyped' BY <1>0 DEF genVars, TextsTyped
<1>2. CASE Optimize
      BY <1>0, <1>2, SessionStays DEF Optimize, TextsTyped, Blanks, Typed
<1>3. CASE Discover
  <2>1. \E o \in {"models", "signin"} : Open(o) \/ Missing(o) BY <1>3 DEF Discover
  <2>2. QueuesTyped' /\ CallerTyped' /\ FlagsTyped' BY <1>0, <2>1, OpenIsTyped
  <2>3. TextsTyped' BY <1>0, <1>3 DEF Discover, TextsTyped
  <2> QED BY <2>2, <2>3 DEF Typed
<1>4. CASE Answered \/ Failed
  <2>1. UNCHANGED <<cxVars, uses>> BY <1>4 DEF Answered, Failed
  <2>2. TextsTyped'
    <3>1. CASE Answered
      <4>1. PICK text \in Blanks : Use(text) BY <3>1 DEF Answered, Blanks
      <4> QED BY <1>0, <2>1, <4>1, UseIsTyped
    <3>2. CASE Failed
          BY <1>0, <2>1, <3>2 DEF Failed, Raises, TextsTyped
    <3> QED BY <1>4, <3>1, <3>2
  <2> QED BY <1>0, <2>1, <2>2, SessionStays DEF Typed
<1>5. CASE OpenSession
  <2>1. Open("generate") \/ Missing("generate") BY <1>5 DEF OpenSession
  <2>2. QueuesTyped' /\ CallerTyped' /\ FlagsTyped' BY <1>0, <2>1, OpenIsTyped
  <2> QED BY <1>1, <1>5, <2>2 DEF OpenSession, Typed
<1>6. CASE SessionOver
  <2>1. QueuesTyped' /\ CallerTyped' /\ FlagsTyped' BY <1>0, <1>6, ForgetIsTyped DEF SessionOver
  <2>2. outcome.text \in Blanks /\ None \in Blanks BY <1>0 DEF CallerTyped, Blanks
  <2>3. Use(outcome.text) \/ Raises BY <1>6 DEF SessionOver
  <2>4. UNCHANGED uses BY <1>6 DEF SessionOver
  <2>5. TextsTyped' BY <1>0, <2>2, <2>3, <2>4, UseIsTyped
  <2> QED BY <2>1, <2>5 DEF Typed
<1>7. CASE Done
  <2>1. QueuesTyped' /\ CallerTyped' /\ FlagsTyped' BY <1>0, <1>7, ForgetIsTyped DEF Done
  <2> QED BY <1>0, <1>7, <2>1 DEF Done, TextsTyped, Blanks, Typed
<1>8. CASE CallerStep /\ UNCHANGED genVars
      BY <1>1, <1>8, WaitIsTyped, CloseIsTyped DEF CallerStep, Typed
<1>9. CASE (ReaderStep \/ ServerStep) /\ UNCHANGED genVars
  <2>1. UNCHANGED <<op, outcome, pc, expired, cancel>> BY <1>9, OthersLeaveTheCaller
  <2>2. CallerTyped' BY <1>0, <2>1 DEF CallerTyped
  <2>3. CASE ReaderStep
    <3>1. UNCHANGED <<unsent, turn, faults>>
          BY <2>3 DEF ReaderStep, ReadLine, ReadEnd, readerFrame, caller, server
    <3> QED BY <1>0, <1>1, <1>9, <2>1, <2>2, <2>3, <3>1, ReaderIsTyped DEF FlagsTyped, Typed
  <2>4. CASE ServerStep
    <3>1. UNCHANGED unsent
          BY <2>4 DEF ServerStep, Accept, Answer, Remark, AskTool, Fault, serverFrame, caller
    <3>2. QueuesTyped' /\ turn' \in {"none", "open", "blocked", "over"} /\ faults' \in 0..MaxFaults
          BY <2>4, ServerIsTyped
    <3> QED BY <1>0, <1>1, <1>9, <2>1, <2>2, <3>1, <3>2 DEF FlagsTyped, Typed
  <2> QED BY <1>9, <2>3, <2>4
<1>10. CASE (Expire \/ Cancel) /\ UNCHANGED genVars
  <2>1. /\ UNCHANGED <<op, outcome, pc, method, nextId, events, final, unsent, input, lines, messages,
                        serving, turn, faults, said, sent>>
        BY <1>10 DEF Expire, Cancel, caller, server
  <2>2. \/ expired' = TRUE /\ cancel' = cancel
        \/ cancel' = TRUE /\ expired' = expired
        BY <1>10 DEF Expire, Cancel, caller
  <2>3. FlagsTyped' BY <1>0, <2>1, <2>2 DEF FlagsTyped
  <2> QED BY <1>0, <1>1, <1>10, <2>1, <2>3 DEF QueuesTyped, CallerTyped, Typed
<1>11. CASE UNCHANGED vars BY <1>0, <1>1, <1>11, SessionStays DEF vars, Typed
<1> QED BY <1>2, <1>3, <1>4, <1>5, <1>6, <1>7, <1>8, <1>9, <1>10, <1>11
        DEF Next, ThreadStep, AdapterStep, OtherStep

\* At the start there is no session.
LEMMA GenerationInit == Init => Typed /\ Clean
<1>1. Init => Typed
  <2>1. SUFFICES ASSUME Init PROVE Typed OBVIOUS
  <2>2. QueuesTyped
    <3>1. <<>> \in Seq(Messages) OBVIOUS
    <3>2. "none" \in Values /\ None \in Blanks /\ 0 \in Nat BY DEF Values, Blanks
    <3> QED BY <2>1, <3>1, <3>2, MessagesAreMessages DEF Init, CodexInit, QueuesTyped
  <2>3. CallerTyped BY <2>1 DEF Init, CodexInit, CallerTyped, Outcome, Kinds, Blanks
  <2>4. FlagsTyped
    <3>1. expired = FALSE /\ cancel = FALSE /\ unsent = FALSE /\ turn = "none" /\ faults = 0
          BY <2>1 DEF Init, CodexInit
    <3>2. faults \in 0..MaxFaults BY <3>1, CodexAssumption
    <3>3. expired \in BOOLEAN /\ cancel \in BOOLEAN /\ unsent \in BOOLEAN BY <3>1
    <3> QED BY <3>1, <3>2, <3>3 DEF FlagsTyped
  <2>5. TextsTyped BY <2>1, GenerationAssumption DEF Init, TextsTyped, Blanks
  <2> QED BY <2>2, <2>3, <2>4, <2>5 DEF Typed
<1>2. Init => Clean BY DEF Init, CodexInit, Clean
<1> QED BY <1>1, <1>2

\* For every number of notifications, pages, faults and attempts: sessions,
\* queues and texts have the values they are to have.
THEOREM GenerationTypes == Spec => []TypeOK
<1>1. Init => Typed /\ Clean BY GenerationInit
<1>3. Init => Counted
      BY GenerationAssumption DEF Init, CodexInit, Counted, Optimizing, RetriesWhatMayPass
<1>4. Typed /\ Clean /\ Counted => TypeOK
  <2>1. SUFFICES ASSUME Typed, Clean, Counted PROVE TypeOK OBVIOUS
  <2>2. \A s \in {events, input, lines, messages, sent} : \A n \in DOMAIN s : s[n] \in Messages
        BY <2>1 DEF Typed, QueuesTyped
  <2>3. {expired, cancel, unsent, child} \subseteq BOOLEAN
        BY <2>1 DEF Typed, FlagsTyped, Clean
  <2> QED BY <2>1, <2>2, <2>3
          DEF Typed, QueuesTyped, CallerTyped, FlagsTyped, TextsTyped, Clean, Counted, Kinds, Blanks,
              TypeOK
<1> QED BY <1>1, <1>3, <1>4, NextIsTyped, NextIsClean, NextIsCounted, PTL DEF Spec

-----------------------------------------------------------------------------
(***************************************************************************)
(* Queues: what they hold, and the notifications among it                  *)
(***************************************************************************)

\* A set of numbers that is not empty has a least one.
LEMMA LeastNumber ==
    ASSUME NEW S, S \subseteq Nat, S # {}
    PROVE  \E m \in S : \A n \in S : m <= n
<1> DEFINE R == OpToRel(<, Nat)
<1>1. IsWellFoundedOn(R, Nat) BY NatLessThanWellFounded
<1>2. R = {p \in Nat \X Nat : p[1] < p[2]} BY DEF OpToRel
<1> HIDE DEF R
<1>3. PICK m \in S : \A n \in S : ~(<<n, m>> \in R) BY <1>1, WFMin
<1>4. ASSUME NEW n \in S PROVE m <= n
  <2>1. ~(<<n, m>> \in R) /\ m \in Nat /\ n \in Nat BY <1>3
  <2> QED BY <1>2, <2>1
<1> QED BY <1>3, <1>4

\* What holds of 0, and of each number after one it holds of, holds up to n.
LEMMA OneByOne ==
    ASSUME NEW n \in Nat, NEW S, 0 \in S, \A k \in 0..(n - 1) : k \in S => k + 1 \in S
    PROVE  \A k \in 0..n : k \in S
<1> DEFINE Out == {k \in 0..n : k \notin S}
<1>1. SUFFICES ASSUME Out # {} PROVE FALSE OBVIOUS
<1>2. Out \subseteq Nat OBVIOUS
<1> HIDE DEF Out
<1>3. PICK m \in Out : \A k \in Out : m <= k BY <1>1, <1>2, LeastNumber
<1>4. m \in 0..n /\ m \notin S BY <1>3 DEF Out
<1>5. m - 1 \in 0..(n - 1) BY <1>4
<1>6. m - 1 \notin Out BY <1>3, <1>4, <1>5
<1>7. m - 1 \in S BY <1>4, <1>5, <1>6 DEF Out
<1> QED BY <1>4, <1>5, <1>7

\* How the notifications among the first n of some messages are found.
Found(s, n, f) ==
    f = [k \in 0..n |->
            IF k = 0 THEN <<>>
            ELSE IF s[k].type = "note" THEN Append(f[k - 1], s[k]) ELSE f[k - 1]]

\* The same, one message at a time.
Each(s, n, f) ==
    /\ f = [k \in 0..n |-> f[k]]
    /\ f[0] = <<>>
    /\ \A k \in 1..n : f[k] = IF s[k].type = "note" THEN Append(f[k - 1], s[k]) ELSE f[k - 1]

LEMMA FoundEach ==
    ASSUME NEW s, NEW n \in Nat, NEW f
    PROVE  Found(s, n, f) <=> Each(s, n, f)
<1> DEFINE e(k) == IF k = 0 THEN <<>>
                   ELSE IF s[k].type = "note" THEN Append(f[k - 1], s[k]) ELSE f[k - 1]
<1>1. Found(s, n, f) <=> f = [k \in 0..n |-> e(k)] BY DEF Found
<1>2. /\ e(0) = <<>>
      /\ \A k \in 1..n : e(k) = IF s[k].type = "note" THEN Append(f[k - 1], s[k]) ELSE f[k - 1]
      OBVIOUS
<1> HIDE DEF e
<1>3. ASSUME f = [k \in 0..n |-> e(k)] PROVE Each(s, n, f)
  <2>1. \A k \in 0..n : f[k] = e(k) BY <1>3
  <2>2. f = [k \in 0..n |-> f[k]] BY <1>3, <2>1
  <2>3. 0 \in 0..n /\ \A k \in 1..n : k \in 0..n OBVIOUS
  <2> QED BY <1>2, <2>1, <2>2, <2>3 DEF Each
<1>4. ASSUME Each(s, n, f) PROVE f = [k \in 0..n |-> e(k)]
  <2>1. f = [k \in 0..n |-> f[k]] BY <1>4 DEF Each
  <2>2. ASSUME NEW k \in 0..n PROVE f[k] = e(k)
    <3>1. CASE k = 0 BY <1>2, <1>4, <3>1 DEF Each
    <3>2. CASE k \in 1..n BY <1>2, <1>4, <3>2 DEF Each
    <3> QED BY <3>1, <3>2
  <2> QED BY <2>1, <2>2
<1> QED BY <1>1, <1>3, <1>4

\* They can be found.
LEMMA NotesAreFound ==
    ASSUME NEW s \in Seq(Messages)
    PROVE  \E f : Found(s, Len(s), f)
<1> DEFINE S == {n \in Nat : \E f : Found(s, n, f)}
<1>1. 0 \in S
  <2> DEFINE f == [k \in 0..0 |-> <<>>]
  <2>1. f = [k \in 0..0 |-> f[k]] /\ f[0] = <<>> /\ 0 \in Nat OBVIOUS
  <2> HIDE DEF f
  <2>2. Each(s, 0, f) BY <2>1 DEF Each
  <2>3. Found(s, 0, f) BY <2>1, <2>2, FoundEach
  <2> QED BY <2>3
<1>2. ASSUME NEW n \in Nat, n \in S PROVE n + 1 \in S
  <2>1. PICK f : Found(s, n, f) BY <1>2
  <2> DEFINE last == IF s[n + 1].type = "note" THEN Append(f[n], s[n + 1]) ELSE f[n]
             g == [k \in 0..(n + 1) |-> IF k = n + 1 THEN last ELSE f[k]]
  <2>2. \A k \in 0..n : g[k] = f[k] OBVIOUS
  <2>3. g[n + 1] = last /\ g = [k \in 0..(n + 1) |-> g[k]] OBVIOUS
  <2>4. f[0] = <<>> /\ \A k \in 1..n :
            f[k] = IF s[k].type = "note" THEN Append(f[k - 1], s[k]) ELSE f[k - 1]
        BY <2>1, FoundEach DEF Each
  <2>5. g[n] = f[n] BY <2>2
  <2> HIDE DEF g
  <2>6. g[n + 1] = IF s[n + 1].type = "note" THEN Append(g[n], s[n + 1]) ELSE g[n]
        BY <2>3, <2>5
  <2>7. \A k \in 1..(n + 1) :
            g[k] = IF s[k].type = "note" THEN Append(g[k - 1], s[k]) ELSE g[k - 1]
    <3>1. TAKE k \in 1..(n + 1)
    <3>2. CASE k = n + 1 BY <2>6, <3>2
    <3>3. CASE k # n + 1
      <4>1. k \in 1..n /\ k - 1 \in 0..n /\ k \in 0..n BY <3>3
      <4> QED BY <2>2, <2>4, <4>1
    <3> QED BY <3>2, <3>3
  <2>8. g[0] = <<>> BY <2>2, <2>4
  <2>9. Each(s, n + 1, g) BY <2>3, <2>7, <2>8 DEF Each
  <2>10. Found(s, n + 1, g) BY <2>9, FoundEach
  <2> QED BY <2>10
<1> HIDE DEF S
<1>3. Len(s) \in Nat OBVIOUS
<1>4. \A k \in 0..Len(s) : k \in S BY <1>1, <1>2, <1>3, OneByOne
<1>5. Len(s) \in S BY <1>3, <1>4
<1> QED BY <1>5 DEF S

\* And are what Notes gives.
LEMMA NotesFound ==
    ASSUME NEW s \in Seq(Messages)
    PROVE  \E f : Found(s, Len(s), f) /\ Notes(s) = f[Len(s)]
<1> DEFINE F == CHOOSE f : Found(s, Len(s), f)
<1>1. Found(s, Len(s), F) BY NotesAreFound
<1>2. Notes(s) = F[Len(s)] BY DEF Notes, Found
<1> QED BY <1>1, <1>2

\* Two searches that see the same find the same.
LEMMA SameFound ==
    ASSUME NEW s, NEW t, NEW m \in Nat, NEW n \in Nat, NEW k \in Nat, k <= m, k <= n,
           NEW f, NEW g, Found(s, m, f), Found(t, n, g), \A i \in 1..k : s[i] = t[i]
    PROVE  f[k] = g[k]
<1> DEFINE S == {i \in 0..k : f[i] = g[i]}
<1>1. /\ f[0] = <<>> /\ g[0] = <<>>
      /\ \A i \in 1..m : f[i] = IF s[i].type = "note" THEN Append(f[i - 1], s[i]) ELSE f[i - 1]
      /\ \A i \in 1..n : g[i] = IF t[i].type = "note" THEN Append(g[i - 1], t[i]) ELSE g[i - 1]
  <2>1. Each(s, m, f) /\ Each(t, n, g) BY FoundEach
  <2> QED BY <2>1 DEF Each
<1>2. 0 \in S BY <1>1
<1>3. ASSUME NEW i \in 0..(k - 1), i \in S PROVE i + 1 \in S
  <2>1. i + 1 \in 1..k /\ i + 1 \in 1..m /\ i + 1 \in 1..n /\ (i + 1) - 1 = i OBVIOUS
  <2>2. f[i + 1] = g[i + 1] BY <1>1, <1>3, <2>1
  <2> QED BY <2>1, <2>2
<1> HIDE DEF S
<1>4. \A i \in 0..k : i \in S BY <1>2, <1>3, OneByOne
<1> QED BY <1>4 DEF S

\* Of no messages.
LEMMA NoNotes == Notes(<<>>) = <<>>
<1>1. <<>> \in Seq(Messages) /\ Len(<<>>) = 0 OBVIOUS
<1>2. PICK f : Found(<<>>, 0, f) /\ Notes(<<>>) = f[0] BY <1>1, NotesFound
<1>3. Each(<<>>, 0, f) BY <1>2, FoundEach
<1> QED BY <1>2, <1>3 DEF Each

\* Of one message more.
LEMMA NotesGrow ==
    ASSUME NEW s \in Seq(Messages), NEW m \in Messages
    PROVE  Notes(Append(s, m)) = IF m.type = "note" THEN Append(Notes(s), m) ELSE Notes(s)
<1> DEFINE t == Append(s, m)
<1>1. /\ t \in Seq(Messages) /\ Len(s) \in Nat /\ Len(t) = Len(s) + 1 /\ t[Len(s) + 1] = m
      /\ \A i \in 1..Len(s) : t[i] = s[i]
      BY AppendProperties
<1> HIDE DEF t
<1>2. PICK f : Found(s, Len(s), f) /\ Notes(s) = f[Len(s)] BY NotesFound
<1>3. PICK g : Found(t, Len(t), g) /\ Notes(t) = g[Len(t)] BY <1>1, NotesFound
<1>4. f[Len(s)] = g[Len(s)]
  <2>1. Len(t) \in Nat /\ Len(s) \in Nat /\ Len(s) <= Len(s) /\ Len(s) <= Len(t) BY <1>1
  <2>2. \A i \in 1..Len(s) : s[i] = t[i] BY <1>1
  <2>3. Found(s, Len(s), f) /\ Found(t, Len(t), g) BY <1>2, <1>3
  <2> QED BY <2>1, <2>2, <2>3, SameFound
<1>5. g[Len(s) + 1] =
          IF t[Len(s) + 1].type = "note" THEN Append(g[Len(s)], t[Len(s) + 1]) ELSE g[Len(s)]
  <2>1. Len(s) + 1 \in 1..Len(t) /\ (Len(s) + 1) - 1 = Len(s) /\ Len(t) \in Nat BY <1>1
  <2>2. \A k \in 1..Len(t) :
            g[k] = IF t[k].type = "note" THEN Append(g[k - 1], t[k]) ELSE g[k - 1]
        BY ZenonT(30), <1>3, <2>1, FoundEach DEF Each
  <2> QED BY <2>1, <2>2
<1>6. Notes(t) = IF m.type = "note" THEN Append(Notes(s), m) ELSE Notes(s)
      BY <1>1, <1>2, <1>3, <1>4, <1>5
<1> QED BY <1>6 DEF t

\* They are messages.
LEMMA NotesAreMessages ==
    ASSUME NEW s \in Seq(Messages)
    PROVE  Notes(s) \in Seq(Messages)
<1>1. PICK f : Found(s, Len(s), f) /\ Notes(s) = f[Len(s)] BY NotesFound
<1>2. Len(s) \in Nat OBVIOUS
<1> DEFINE S == {k \in 0..Len(s) : f[k] \in Seq(Messages)}
<1>3. /\ f[0] = <<>>
      /\ \A k \in 1..Len(s) :
             f[k] = IF s[k].type = "note" THEN Append(f[k - 1], s[k]) ELSE f[k - 1]
  <2>1. Each(s, Len(s), f) BY <1>1, <1>2, FoundEach
  <2> QED BY <2>1 DEF Each
<1>4. 0 \in S
  <2>1. <<>> \in Seq(Messages) /\ 0 \in 0..Len(s) BY <1>2
  <2> QED BY <1>3, <2>1
<1>5. ASSUME NEW k \in 0..(Len(s) - 1), k \in S PROVE k + 1 \in S
  <2>1. k + 1 \in 1..Len(s) /\ k + 1 \in 0..Len(s) /\ (k + 1) - 1 = k BY <1>2
  <2>2. s[k + 1] \in Messages /\ f[k] \in Seq(Messages) BY <1>5, <2>1, ElementOfSeq
  <2>3. f[k + 1] = IF s[k + 1].type = "note" THEN Append(f[k], s[k + 1]) ELSE f[k]
        BY <1>3, <2>1
  <2>4. f[k + 1] \in Seq(Messages) BY <2>2, <2>3, QueueGrows
  <2> QED BY <2>1, <2>4
<1> HIDE DEF S
<1>6. \A k \in 0..Len(s) : k \in S BY <1>2, <1>4, <1>5, OneByOne
<1>7. Len(s) \in S BY <1>2, <1>6
<1> QED BY <1>1, <1>7 DEF S

\* Queues one behind the other.
LEMMA QueuesJoin ==
    ASSUME NEW s \in Seq(Messages), NEW t \in Seq(Messages)
    PROVE  /\ s \o t \in Seq(Messages)
           /\ \A u \in Seq(Messages) : (s \o t) \o u = s \o (t \o u)
           /\ \A m \in Messages : Append(s, m) = s \o <<m>> /\ <<m>> \in Seq(Messages)
           /\ <<>> \o s = s /\ s \o <<>> = s
<1>1. s \o t \in Seq(Messages) BY ConcatProperties
<1>2. ASSUME NEW u \in Seq(Messages) PROVE (s \o t) \o u = s \o (t \o u) BY ConcatAssociative
<1>3. ASSUME NEW m \in Messages PROVE Append(s, m) = s \o <<m>> /\ <<m>> \in Seq(Messages)
      BY AppendIsConcat
<1>4. <<>> \o s = s /\ s \o <<>> = s BY ConcatEmptySeq
<1> QED BY <1>1, <1>2, <1>3, <1>4

LEMMA AppendBehind ==
    ASSUME NEW s \in Seq(Messages), NEW t \in Seq(Messages), NEW m \in Messages
    PROVE  Append(s \o t, m) = s \o Append(t, m)
<1> DEFINE one == <<m>>
<1>1. s \o t \in Seq(Messages) /\ one \in Seq(Messages) BY QueuesJoin
<1>2. Append(s \o t, m) = (s \o t) \o one BY <1>1, QueuesJoin
<1>3. Append(t, m) = t \o one BY QueuesJoin
<1> HIDE DEF one
<1>4. (s \o t) \o one = s \o (t \o one) BY SMTT(30), <1>1, QueuesJoin
<1> QED BY <1>2, <1>3, <1>4

\* The first message, and what is behind it.
LEMMA NotesBehind ==
    ASSUME NEW s \in Seq(Messages), s # <<>>
    PROVE  Notes(s) = IF Head(s).type = "note" THEN <<Head(s)>> \o Notes(Tail(s)) ELSE Notes(Tail(s))
<1> DEFINE t == Tail(s)
           first == IF Head(s).type = "note" THEN <<Head(s)>> ELSE <<>>
<1>1. /\ t \in Seq(Messages) /\ Len(s) \in Nat \ {0} /\ Len(t) = Len(s) - 1
      /\ \A i \in 1..Len(t) : t[i] = s[i + 1]
      /\ Head(s) \in Messages /\ Head(s) = s[1]
      BY HeadTailProperties, EmptySeq
<1>2. first \in Seq(Messages) BY <1>1
<1>3. first = IF Head(s).type = "note" THEN <<Head(s)>> ELSE <<>> OBVIOUS
<1> HIDE DEF t, first
<1>4. PICK f : Found(s, Len(s), f) /\ Notes(s) = f[Len(s)] BY NotesFound
<1>5. PICK g : Found(t, Len(t), g) /\ Notes(t) = g[Len(t)] BY <1>1, NotesFound
<1>6. /\ f[0] = <<>>
      /\ \A k \in 1..Len(s) :
             f[k] = IF s[k].type = "note" THEN Append(f[k - 1], s[k]) ELSE f[k - 1]
      /\ g[0] = <<>>
      /\ \A k \in 1..Len(t) :
             g[k] = IF t[k].type = "note" THEN Append(g[k - 1], t[k]) ELSE g[k - 1]
  <2>1. Each(s, Len(s), f) /\ Each(t, Len(t), g) BY <1>1, <1>4, <1>5, FoundEach
  <2> QED BY <2>1 DEF Each
<1> DEFINE S == {k \in 0..Len(t) : g[k] \in Seq(Messages) /\ f[k + 1] = first \o g[k]}
<1>7. 0 \in S
  <2>1. 1 \in 1..Len(s) /\ 1 - 1 = 0 /\ 0 + 1 = 1 /\ 0 \in 0..Len(t) BY <1>1
  <2>2. f[1] = IF Head(s).type = "note" THEN Append(<<>>, Head(s)) ELSE <<>> BY ZenonT(30), <1>1, <1>6, <2>1
  <2>3. f[1] = first BY <1>1, <1>3, <2>2
  <2>4. <<>> \in Seq(Messages) /\ first = first \o <<>> BY <1>2, ConcatEmptySeq
  <2> QED BY <1>6, <2>1, <2>3, <2>4
<1>8. ASSUME NEW k \in 0..(Len(t) - 1), k \in S PROVE k + 1 \in S
  <2>1. /\ k + 1 \in 1..Len(t) /\ k + 1 \in 0..Len(t) /\ (k + 1) - 1 = k
        /\ (k + 1) + 1 \in 1..Len(s) /\ ((k + 1) + 1) - 1 = k + 1
        BY <1>1
  <2> DEFINE m == t[k + 1]
  <2>2. m = s[(k + 1) + 1] /\ m \in Messages BY <1>1, <2>1, ElementOfSeq
  <2>3. g[k + 1] = IF m.type = "note" THEN Append(g[k], m) ELSE g[k] BY <1>6, <2>1
  <2>4. f[(k + 1) + 1] = IF m.type = "note" THEN Append(f[k + 1], m) ELSE f[k + 1]
        BY <1>6, <2>1, <2>2
  <2> HIDE DEF m
  <2>5. g[k] \in Seq(Messages) /\ f[k + 1] = first \o g[k] BY <1>8
  <2>6. g[k + 1] \in Seq(Messages) BY <2>2, <2>3, <2>5, QueueGrows
  <2>7. Append(first \o g[k], m) = first \o Append(g[k], m)
    <3>1. first \in Seq(Messages) /\ g[k] \in Seq(Messages) BY <1>2, <2>5
    <3> QED BY <2>2, <3>1, AppendBehind
  <2>8. f[(k + 1) + 1] = first \o g[k + 1] BY <2>3, <2>4, <2>5, <2>7
  <2> QED BY <2>1, <2>6, <2>8
<1>9. Len(t) \in Nat /\ Len(t) + 1 = Len(s) BY <1>1
<1> HIDE DEF S
<1>10. \A k \in 0..Len(t) : k \in S BY <1>7, <1>8, <1>9, OneByOne
<1>11. Len(t) \in S BY <1>9, <1>10
<1>12. Notes(s) = first \o Notes(t) /\ Notes(t) \in Seq(Messages)
       BY <1>4, <1>5, <1>9, <1>11 DEF S
<1>13. <<>> \o Notes(t) = Notes(t) BY <1>12, ConcatEmptySeq
<1> QED BY <1>3, <1>12, <1>13 DEF t

\* Where a message goes from one queue to the next: three queues are still the
\* same, one behind the other.
LEMMA JoinsJoin ==
    ASSUME NEW a \in Seq(Messages), NEW b \in Seq(Messages), NEW c \in Seq(Messages)
    PROVE  (a \o b) \o c \in Seq(Messages) /\ (a \o b) \o c = a \o (b \o c)
<1>1. a \o b \in Seq(Messages) BY QueuesJoin
<1> QED BY <1>1, QueuesJoin

LEMMA LastGrows ==
    ASSUME NEW a \in Seq(Messages), NEW b \in Seq(Messages), NEW c \in Seq(Messages),
           NEW m \in Messages
    PROVE  (a \o b) \o Append(c, m) = Append((a \o b) \o c, m)
<1>1. a \o b \in Seq(Messages) BY QueuesJoin
<1> QED BY <1>1, AppendBehind

LEMMA LastToMiddle ==
    ASSUME NEW a \in Seq(Messages), NEW b \in Seq(Messages), NEW c \in Seq(Messages),
           NEW m \in Messages
    PROVE  (a \o Append(b, m)) \o c = (a \o b) \o (<<m>> \o c)
<1> DEFINE one == <<m>>
<1>1. one \in Seq(Messages) /\ a \o b \in Seq(Messages) BY QueuesJoin
<1>2. a \o Append(b, m) = Append(a \o b, m) BY AppendBehind
<1>3. Append(a \o b, m) = (a \o b) \o one BY <1>1, QueuesJoin
<1> HIDE DEF one
<1>4. ((a \o b) \o one) \o c = (a \o b) \o (one \o c) BY SMTT(30), <1>1, JoinsJoin
<1>5. (a \o Append(b, m)) \o c = (a \o b) \o (one \o c) BY <1>2, <1>3, <1>4
<1> QED BY <1>5 DEF one

LEMMA MiddleToFirst ==
    ASSUME NEW a \in Seq(Messages), NEW b \in Seq(Messages), NEW c \in Seq(Messages),
           NEW m \in Messages
    PROVE  (Append(a, m) \o b) \o c = (a \o (<<m>> \o b)) \o c
<1> DEFINE one == <<m>>
<1>1. one \in Seq(Messages) /\ Append(a, m) = a \o one BY QueuesJoin
<1> HIDE DEF one
<1>2. (a \o one) \o b = a \o (one \o b) BY <1>1, JoinsJoin
<1>3. (Append(a, m) \o b) \o c = (a \o (one \o b)) \o c BY <1>1, <1>2
<1> QED BY <1>3 DEF one

LEMMA FirstTaken ==
    ASSUME NEW a \in Seq(Messages), NEW b \in Seq(Messages), NEW c \in Seq(Messages),
           NEW m \in Messages
    PROVE  ((<<m>> \o a) \o b) \o c = <<m>> \o ((a \o b) \o c)
<1> DEFINE one == <<m>>
<1>1. one \in Seq(Messages) /\ a \o b \in Seq(Messages) BY QueuesJoin
<1> HIDE DEF one
<1>2. (one \o a) \o b = one \o (a \o b) BY SMTT(30), <1>1, JoinsJoin
<1>3. (one \o (a \o b)) \o c = one \o ((a \o b) \o c) BY SMTT(30), <1>1, JoinsJoin
<1>4. ((one \o a) \o b) \o c = one \o ((a \o b) \o c) BY <1>2, <1>3
<1> QED BY <1>4 DEF one

LEMMA MiddleTaken ==
    ASSUME NEW b \in Seq(Messages), NEW c \in Seq(Messages), NEW m \in Messages
    PROVE  (<<>> \o (<<m>> \o b)) \o c = <<m>> \o ((<<>> \o b) \o c)
<1> DEFINE one == <<m>>
<1>1. one \in Seq(Messages) BY QueuesJoin
<1> HIDE DEF one
<1>2. one \o b \in Seq(Messages) BY <1>1, QueuesJoin
<1>3. <<>> \o (one \o b) = one \o b /\ <<>> \o b = b BY <1>2, ConcatEmptySeq
<1>4. (one \o b) \o c = one \o (b \o c) BY <1>1, JoinsJoin
<1>5. (<<>> \o (one \o b)) \o c = one \o ((<<>> \o b) \o c) BY <1>3, <1>4
<1> QED BY <1>5 DEF one

\* What is still to come of a sequence that grows, and of which one is taken.
LEMMA RestGrows ==
    ASSUME NEW s \in Seq(Messages), NEW m \in Messages, NEW h \in Nat, h <= Len(s)
    PROVE  /\ Len(Append(s, m)) = Len(s) + 1
           /\ SubSeq(Append(s, m), h + 1, Len(s) + 1) = Append(SubSeq(s, h + 1, Len(s)), m)
<1> DEFINE t == Append(s, m)
           u == SubSeq(s, h + 1, Len(s))
           v == SubSeq(t, h + 1, Len(s) + 1)
<1>1. /\ t \in Seq(Messages) /\ Len(s) \in Nat /\ Len(t) = Len(s) + 1 /\ t[Len(s) + 1] = m
      /\ \A i \in 1..Len(s) : t[i] = s[i] /\ s[i] \in Messages
      /\ \A i \in 1..Len(t) : t[i] \in Messages
      BY AppendProperties, ElementOfSeq
<1> HIDE DEF t
<1>2. /\ u \in Seq(Messages) /\ Len(u) = Len(s) - h
      /\ \A i \in 1..(Len(s) - h) : u[i] = s[h + i]
  <2>1. \A i \in (h + 1)..Len(s) : s[i] \in Messages BY <1>1
  <2>2. h + 1 \in Int /\ Len(s) \in Int BY <1>1
  <2>3. /\ u \in Seq(Messages)
        /\ Len(u) = IF h + 1 <= Len(s) THEN Len(s) - (h + 1) + 1 ELSE 0
        /\ \A i \in 1..(Len(s) - (h + 1) + 1) : u[i] = s[(h + 1) + i - 1]
        BY <2>1, <2>2, SubSeqProperties
  <2> QED BY <1>1, <2>3
<1>3. /\ v \in Seq(Messages) /\ Len(v) = Len(s) + 1 - h
      /\ \A i \in 1..(Len(s) + 1 - h) : v[i] = t[h + i]
  <2>1. \A i \in (h + 1)..(Len(s) + 1) : t[i] \in Messages BY <1>1
  <2>2. h + 1 \in Int /\ Len(s) + 1 \in Int BY <1>1
  <2>3. /\ v \in Seq(Messages)
        /\ Len(v) = IF h + 1 <= Len(s) + 1 THEN (Len(s) + 1) - (h + 1) + 1 ELSE 0
        /\ \A i \in 1..((Len(s) + 1) - (h + 1) + 1) : v[i] = t[(h + 1) + i - 1]
        BY <2>1, <2>2, SubSeqProperties
  <2> QED BY <1>1, <2>3
<1> HIDE DEF u, v
<1> DEFINE w == Append(u, m)
<1>4. /\ w \in Seq(Messages) /\ Len(w) = Len(u) + 1 /\ w[Len(u) + 1] = m
      /\ \A i \in 1..Len(u) : w[i] = u[i]
      BY <1>2, AppendProperties
<1> HIDE DEF w
<1>5. v = w
  <2>1. Len(v) = Len(w) BY <1>1, <1>2, <1>3, <1>4
  <2>2. ASSUME NEW i \in 1..Len(v) PROVE v[i] = w[i]
    <3>1. CASE i = Len(u) + 1
      <4>1. i = Len(s) - h + 1 /\ i \in 1..(Len(s) + 1 - h) /\ h + i = Len(s) + 1
            BY <1>1, <1>2, <3>1
      <4> QED BY <1>1, <1>3, <1>4, <3>1, <4>1
    <3>2. CASE i \in 1..Len(u)
      <4>1. i \in 1..(Len(s) - h) /\ i \in 1..(Len(s) + 1 - h) /\ h + i \in 1..Len(s)
            BY <1>1, <1>2, <3>2
      <4> QED BY <1>1, <1>2, <1>3, <1>4, <3>2, <4>1
    <3>3. i = Len(u) + 1 \/ i \in 1..Len(u) BY <1>1, <1>2, <1>3
    <3> QED BY <3>1, <3>2, <3>3
  <2> QED BY <1>3, <1>4, <2>1, <2>2, SeqEqual
<1> QED BY <1>1, <1>5 DEF t, u, v, w

LEMMA RestStarts ==
    ASSUME NEW s \in Seq(Messages), NEW q \in Seq(Messages), NEW m \in Messages,
           NEW h \in Nat, <<m>> \o q = SubSeq(s, h + 1, Len(s))
    PROVE  h + 1 <= Len(s) /\ s[h + 1] = m /\ q = SubSeq(s, (h + 1) + 1, Len(s))
<1> DEFINE one == <<m>>
<1>0. one \in Seq(Messages) /\ one = <<m>> /\ Len(one) = 1 /\ one[1] = m BY QueuesJoin
<1>a. Len(s) \in Nat /\ Len(q) \in Nat OBVIOUS
<1> HIDE DEF one
<1>1. h + 1 <= Len(s)
  <2>1. CASE Len(s) < h + 1
    <3>1. SubSeq(s, h + 1, Len(s)) = <<>> BY <1>a, <2>1, SubSeqEmpty
    <3>2. Len(one \o q) = 1 + Len(q) BY <1>0, ConcatProperties
    <3>3. Len(<<>>) = 0 BY EmptySeq
    <3> QED BY <1>0, <1>a, <3>1, <3>2, <3>3
  <2> QED BY <1>a, <2>1
<1> DEFINE first == <<s[h + 1]>>
           rest == SubSeq(s, (h + 1) + 1, Len(s))
<1>2. SubSeq(s, h + 1, Len(s)) = first \o rest
  <2>1. h + 1 \in 1..Len(s) /\ Len(s) \in (h + 1)..Len(s) BY <1>a, <1>1
  <2> QED BY <2>1, SubSeqRecursiveFirst
<1>3. s[h + 1] \in Messages
  <2>1. h + 1 \in 1..Len(s) BY <1>a, <1>1
  <2> QED BY <2>1, ElementOfSeq
<1>4. first \in Seq(Messages) /\ Len(first) = 1 /\ first[1] = s[h + 1] BY <1>3, QueuesJoin
<1>5. rest \in Seq(Messages)
  <2>1. \A i \in ((h + 1) + 1)..Len(s) : s[i] \in Messages BY <1>a, ElementOfSeq
  <2>2. (h + 1) + 1 \in Int /\ Len(s) \in Int BY <1>a
  <2> QED BY <2>1, <2>2, SubSeqProperties
<1>b. first = <<s[h + 1]>> /\ rest = SubSeq(s, (h + 1) + 1, Len(s)) OBVIOUS
<1> HIDE DEF first, rest
<1>6. one \o q = first \o rest BY <1>0, <1>2
<1>7. (one \o q)[1] = one[1] /\ (first \o rest)[1] = first[1]
  <2>1. Len(rest) \in Nat BY <1>5
  <2>2. 1 \in 1..(Len(one) + Len(q)) /\ 1 \in 1..(Len(first) + Len(rest)) /\ 1 <= Len(one)
        /\ 1 <= Len(first)
        BY <1>0, <1>a, <1>4, <2>1
  <2>3. \A i \in 1..(Len(one) + Len(q)) :
            (one \o q)[i] = IF i <= Len(one) THEN one[i] ELSE q[i - Len(one)]
        BY <1>0, ConcatProperties
  <2>4. \A i \in 1..(Len(first) + Len(rest)) :
            (first \o rest)[i] = IF i <= Len(first) THEN first[i] ELSE rest[i - Len(first)]
        BY <1>4, <1>5, ConcatProperties
  <2>5. (one \o q)[1] = one[1] BY <2>2, <2>3
  <2>6. (first \o rest)[1] = first[1] BY <2>2, <2>4
  <2> QED BY <2>5, <2>6
<1>8. m = s[h + 1] BY <1>0, <1>4, <1>6, <1>7
<1>9. one = first BY <1>0, <1>8, <1>b
<1>10. q = rest BY <1>0, <1>5, <1>6, <1>9, ConcatSimplifications
<1> QED BY <1>1, <1>8, <1>10, <1>b

-----------------------------------------------------------------------------
(***************************************************************************)
(* Every notification, once and in order                                   *)
(***************************************************************************)

\* A session that has not been opened has nothing in hand.
Fresh ==
    /\ events = <<>> /\ messages = <<>> /\ lines = <<>> /\ input = <<>> /\ sent = <<>>
    /\ heard = 0 /\ nextId = 0 /\ final = None /\ said = None /\ turn = "none"
    /\ serving = NoRequest

Unheard == (events \o Notes(messages)) \o Notes(lines)

\* What has been said, as far as it has not been heard, is on its way.
NotesFit ==
    /\ pc = "idle" => Fresh
    /\ Talking =>
           /\ heard \in Nat /\ heard <= Len(sent)
           /\ Unheard = SubSeq(sent, heard + 1, Len(sent))

\* A step that moves no message.
LEMMA NotesStay ==
    ASSUME NotesFit, UNCHANGED <<events, messages, lines, sent, heard>>, Talking' => Talking,
           pc' # "idle"
    PROVE  NotesFit'
BY DEF NotesFit, Unheard

\* A step that ends the talk.
LEMMA NotesOver ==
    ASSUME pc' \in {"term", "reap", "join", "kill", "streams", "over"}
    PROVE  NotesFit'
BY DEF NotesFit, Talking, Waiting, Writing

\* The caller's steps but those that take a notification.
LEMMA CallerMovesNone ==
    ASSUME QueuesTyped, NotesFit,
           Call \/ Flush \/ Check \/ GetNothing \/ GetBroken \/ GetTool \/ GetReply \/ GetOther
    PROVE  NotesFit'
<1>0. Talking /\ pc # "idle"
      BY DEF Talking, Waiting, Writing, Call, Flush, Check, GetNothing, GetBroken, GetTool, GetReply,
             GetOther, Receives
<1>a. pc' # "idle"
      BY <1>0 DEF Call, Flush, Check, GetNothing, GetBroken, GetTool, GetReply, GetOther, Write,
             Writing, Behind, WriteFails, Raise, Leave, Again, Proceed, Ask
<1>1. CASE Call \/ Flush \/ Check \/ GetNothing
      BY <1>0, <1>a, <1>1, NotesStay DEF Call, Flush, Check, GetNothing, server
<1>2. ASSUME NEW type, type # "note", Receives(type), UNCHANGED <<events, lines, sent, heard>>
      PROVE  NotesFit'
  <2>1. messages \in Seq(Messages) /\ messages # <<>> /\ messages' = Tail(messages)
        /\ Head(messages).type # "note"
        BY <1>2 DEF Receives, QueuesTyped
  <2>2. Notes(messages') = Notes(messages) BY <2>1, NotesBehind
  <2> QED BY <1>0, <1>a, <1>2, <2>2 DEF NotesFit, Unheard
<1>3. CASE GetBroken
  <2>1. "broken" # "note" OBVIOUS
  <2>2. Receives("broken") /\ UNCHANGED <<events, lines, sent, heard>>
        BY <1>3 DEF GetBroken, server
  <2> QED BY <1>2, <2>1, <2>2
<1>4. CASE GetTool
  <2>1. Receives("tool") /\ UNCHANGED <<events, lines, sent, heard>> BY <1>4 DEF GetTool, server
  <2> QED BY <1>2, <2>1
<1>5. CASE GetReply \/ GetOther
  <2>1. Receives("reply") /\ UNCHANGED <<events, lines, sent, heard>>
        BY <1>5 DEF GetReply, GetOther, server
  <2> QED BY <1>2, <2>1
<1> QED BY <1>1, <1>3, <1>4, <1>5

\* A call puts the next notification aside.
LEMMA KeptInOrder ==
    ASSUME QueuesTyped, NotesFit, KeepNote
    PROVE  NotesFit'
<1> DEFINE m == Head(messages)
<1>1. /\ messages \in Seq(Messages) /\ messages # <<>> /\ messages' = Tail(messages)
      /\ m.type = "note" /\ m \in Messages /\ messages' \in Seq(Messages)
      /\ events \in Seq(Messages) /\ lines \in Seq(Messages)
      BY DEF KeepNote, Receives, QueuesTyped
<1>2. events' = Append(events, m) /\ UNCHANGED <<lines, sent, heard>> BY DEF KeepNote, server
<1>3. Talking /\ pc' = "reply" BY DEF KeepNote, Talking, Waiting, Writing, Again
<1>4. Notes(messages) = <<m>> \o Notes(messages') BY <1>1, NotesBehind
<1>5. Notes(messages') \in Seq(Messages) /\ Notes(lines) \in Seq(Messages)
      BY <1>1, NotesAreMessages
<1> HIDE DEF m
<1>6. (Append(events, m) \o Notes(messages')) \o Notes(lines)
          = (events \o (<<m>> \o Notes(messages'))) \o Notes(lines)
      BY SMTT(30), <1>1, <1>5, MiddleToFirst
<1>7. Unheard' = (Append(events, m) \o Notes(messages')) \o Notes(lines) BY <1>2 DEF Unheard
<1>8. Unheard' = Unheard BY <1>4, <1>6, <1>7 DEF Unheard
<1> QED BY <1>2, <1>3, <1>8 DEF NotesFit

\* What the caller hears is the next that has been said.
LEMMA NextIsHeard ==
    ASSUME QueuesTyped, NotesFit, HearKept \/ HearNew
    PROVE  /\ heard \in Nat /\ heard < Len(sent)
           /\ Hear(sent[heard + 1])
           /\ NotesFit'
<1>0. /\ Talking /\ events \in Seq(Messages) /\ messages \in Seq(Messages)
      /\ lines \in Seq(Messages) /\ sent \in Seq(Messages)
      BY DEF HearKept, HearNew, Talking, Waiting, Writing, QueuesTyped
<1>1. heard \in Nat /\ Unheard = SubSeq(sent, heard + 1, Len(sent)) BY <1>0 DEF NotesFit
<1>2. Notes(messages) \in Seq(Messages) /\ Notes(lines) \in Seq(Messages) /\ Len(sent) \in Nat
      BY <1>0, NotesAreMessages
<1>3. ASSUME NEW m \in Messages, Hear(m), NEW q \in Seq(Messages),
             Unheard = <<m>> \o q, Unheard' = q, UNCHANGED sent
      PROVE  /\ heard < Len(sent)
             /\ Hear(sent[heard + 1])
             /\ NotesFit'
  <2>1. <<m>> \o q = SubSeq(sent, heard + 1, Len(sent)) BY <1>1, <1>3
  <2>2. heard + 1 <= Len(sent) /\ sent[heard + 1] = m /\ q = SubSeq(sent, (heard + 1) + 1, Len(sent))
        BY <1>0, <1>1, <2>1, RestStarts
  <2>3. heard' = heard + 1 /\ pc' # "idle"
        BY <1>0, <1>3 DEF Hear, Raise, Leave, Ask, Again, Talking, Waiting, Writing
  <2>4. heard' \in Nat /\ heard' <= Len(sent) /\ Unheard' = SubSeq(sent, heard' + 1, Len(sent))
        BY <1>1, <1>3, <2>2, <2>3
  <2>5. NotesFit' BY <1>3, <2>3, <2>4 DEF NotesFit
  <2> QED BY <1>1, <1>2, <1>3, <2>2, <2>5
<1>4. CASE HearKept
  <2> DEFINE m == Head(events)
             e == Tail(events)
             q == (e \o Notes(messages)) \o Notes(lines)
  <2>1. /\ events # <<>> /\ Hear(m) /\ events' = e
        /\ UNCHANGED <<messages, lines, sent>>
        BY <1>4 DEF HearKept, server
  <2>2. m \in Messages /\ e \in Seq(Messages) /\ events = <<m>> \o e
    <3>1. m \in Messages /\ e \in Seq(Messages) /\ Len(events) \in Nat \ {0}
          BY <1>0, <2>1, HeadTailProperties, EmptySeq
    <3>2. SubSeq(events, 1, Len(events)) = events BY <1>0, SubSeqFull
    <3>3. 1 \in 1..Len(events) /\ Len(events) \in 1..Len(events) BY <3>1
    <3>4. SubSeq(events, 1, Len(events)) = <<events[1]>> \o SubSeq(events, 1 + 1, Len(events))
          BY <1>0, <3>3, SubSeqRecursiveFirst
    <3>5. e = SubSeq(events, 2, Len(events)) BY <1>0, <2>1, TailIsSubSeq
    <3>6. m = events[1] /\ 1 + 1 = 2 BY <1>0, <2>1
    <3> QED BY <3>1, <3>2, <3>4, <3>5, <3>6
  <2>3. Unheard' = q BY <2>1 DEF Unheard
  <2> HIDE DEF m, e
  <2>a. m \in Messages /\ e \in Seq(Messages) BY <2>2
  <2>b. ((<<m>> \o e) \o Notes(messages)) \o Notes(lines)
            = <<m>> \o ((e \o Notes(messages)) \o Notes(lines))
        BY ZenonT(30), <1>2, <2>a, FirstTaken
  <2>4. q \in Seq(Messages)
        /\ ((<<m>> \o e) \o Notes(messages)) \o Notes(lines) = <<m>> \o q
        BY <1>2, <2>a, <2>b, JoinsJoin
  <2>5. Unheard = <<m>> \o q BY <2>2, <2>4 DEF Unheard
  <2> HIDE DEF q
  <2> QED BY <1>1, <1>3, <2>1, <2>2, <2>3, <2>4, <2>5
<1>5. CASE HearNew
  <2> DEFINE m == Head(messages)
             t == Tail(messages)
             q == (<<>> \o Notes(t)) \o Notes(lines)
  <2>1. /\ events = <<>> /\ messages # <<>> /\ m.type = "note" /\ Hear(m) /\ messages' = t
        /\ UNCHANGED <<events, lines, sent>>
        BY <1>5 DEF HearNew, Receives, server
  <2>2. m \in Messages /\ t \in Seq(Messages) BY <1>0, <2>1
  <2>3. Notes(messages) = <<m>> \o Notes(t) BY <1>0, <2>1, NotesBehind
  <2>4. Unheard' = q BY <2>1 DEF Unheard
  <2>a. <<>> \in Seq(Messages) BY EmptySeq
  <2>5. Notes(t) \in Seq(Messages) BY <2>2, NotesAreMessages
  <2> HIDE DEF m, t
  <2>6. q \in Seq(Messages) /\ (<<>> \o (<<m>> \o Notes(t))) \o Notes(lines) = <<m>> \o q
        BY SMTT(30), <1>2, <2>2, <2>a, <2>5, MiddleTaken, JoinsJoin
  <2>7. Unheard = <<m>> \o q BY <2>1, <2>3, <2>6 DEF Unheard
  <2> HIDE DEF q
  <2> QED BY <1>1, <1>3, <2>1, <2>2, <2>4, <2>6, <2>7
<1> QED BY <1>1, <1>4, <1>5

\* The reader moves what is next.
LEMMA ReaderInOrder ==
    ASSUME QueuesTyped, Clean, NotesFit, ReaderStep
    PROVE  NotesFit'
<1>0. UNCHANGED <<pc, events, sent, heard>> /\ pc # "idle"
      BY DEF ReaderStep, ReadLine, ReadEnd, readerFrame, caller, server, Clean
<1>a. /\ events \in Seq(Messages) /\ messages \in Seq(Messages) /\ lines \in Seq(Messages)
      /\ Notes(messages) \in Seq(Messages) /\ Notes(lines) \in Seq(Messages)
      BY NotesAreMessages DEF QueuesTyped
<1>1. CASE ~Talking BY <1>0, <1>1 DEF NotesFit, Talking, Waiting, Writing
<1>b. Broken \in Messages /\ Broken.type # "note" BY MessagesAreMessages DEF Broken, Message
<1>c. Notes(messages \o <<Broken>>) = Notes(messages)
  <2>1. messages \o <<Broken>> = Append(messages, Broken) BY <1>a, <1>b, AppendIsConcat
  <2> QED BY <1>a, <1>b, <2>1, NotesGrow
<1>2. CASE Talking /\ ReadLine
  <2> DEFINE m == Head(lines)
             t == Tail(lines)
  <2>1. m \in Messages /\ t \in Seq(Messages) /\ lines # <<>> /\ lines' = t
        BY <1>2, <1>a DEF ReadLine
  <2>2. Notes(lines) = IF m.type = "note" THEN <<m>> \o Notes(t) ELSE Notes(t)
        BY <1>a, <2>1, NotesBehind
  <2>3. \/ m.type = "garbage" /\ messages' = messages \o <<Broken, Broken>>
        \/ messages' = messages \o <<m>>
        BY <1>2 DEF ReadLine, Put
  <2>4. Notes(t) \in Seq(Messages) BY <2>1, NotesAreMessages
  <2> HIDE DEF m, t
  <2>5. CASE m.type = "garbage" /\ messages' = messages \o <<Broken, Broken>>
    <3>1. messages \o <<Broken, Broken>> = Append(Append(messages, Broken), Broken)
          BY <1>a, <1>b
    <3>2. Append(messages, Broken) \in Seq(Messages) BY <1>a, <1>b
    <3>3. Notes(messages') = Notes(messages) BY ZenonT(30), <1>a, <1>b, <2>5, <3>1, <3>2, NotesGrow
    <3>4. Unheard' = Unheard BY <1>0, <2>1, <2>2, <2>5, <3>3 DEF Unheard
    <3> QED BY <1>0, <1>2, <3>4 DEF NotesFit
  <2>6. CASE messages' = messages \o <<m>> /\ m.type # "note"
    <3>1. messages \o <<m>> = Append(messages, m) BY <1>a, <2>1, AppendIsConcat
    <3>2. Notes(messages') = Notes(messages) BY <1>a, <2>1, <2>6, <3>1, NotesGrow
    <3>3. Unheard' = Unheard BY <1>0, <2>1, <2>2, <2>6, <3>2 DEF Unheard
    <3> QED BY <1>0, <1>2, <3>3 DEF NotesFit
  <2>7. CASE messages' = messages \o <<m>> /\ m.type = "note"
    <3>1. messages \o <<m>> = Append(messages, m) BY <1>a, <2>1, AppendIsConcat
    <3>2. Notes(messages') = Append(Notes(messages), m) BY <1>a, <2>1, <2>7, <3>1, NotesGrow
    <3>3. (events \o Append(Notes(messages), m)) \o Notes(t)
              = (events \o Notes(messages)) \o (<<m>> \o Notes(t))
      <4>1. events \in Seq(Messages) /\ Notes(messages) \in Seq(Messages) /\ m \in Messages
            BY <1>a, <2>1
      <4> QED BY ZenonT(30), <2>4, <4>1, LastToMiddle
    <3>4. Unheard' = Unheard BY <1>0, <2>1, <2>2, <2>7, <3>2, <3>3 DEF Unheard
    <3> QED BY <1>0, <1>2, <3>4 DEF NotesFit
  <2> QED BY <2>3, <2>5, <2>6, <2>7
<1>3. CASE Talking /\ ReadEnd
  <2>1. messages' = messages \o <<Broken>> /\ lines' = lines BY <1>3 DEF ReadEnd, Put
  <2>2. Unheard' = Unheard BY <1>0, <1>c, <2>1 DEF Unheard
  <2> QED BY <1>0, <1>3, <2>2 DEF NotesFit
<1> QED BY <1>1, <1>2, <1>3 DEF ReaderStep

\* The server writes what it says.
LEMMA ServerInOrder ==
    ASSUME Typed, NotesFit, ServerStep
    PROVE  NotesFit'
<1>0. /\ UNCHANGED <<pc, events, messages, heard>> /\ Talking /\ pc # "idle"
      BY DEF ServerStep, Accept, Answer, Remark, AskTool, Fault, serverFrame, caller, Talking,
             Waiting, Writing
<1>a. /\ events \in Seq(Messages) /\ messages \in Seq(Messages) /\ lines \in Seq(Messages)
      /\ sent \in Seq(Messages) /\ Len(sent) \in Nat /\ serving.id \in Nat
      /\ Notes(messages) \in Seq(Messages) /\ Notes(lines) \in Seq(Messages)
      BY NotesAreMessages, MessagesAreMessages DEF Typed, QueuesTyped
<1>b. heard \in Nat /\ heard <= Len(sent) /\ Unheard = SubSeq(sent, heard + 1, Len(sent))
      BY <1>0 DEF NotesFit
<1>1. ASSUME NEW m \in Messages, m.type # "note", lines' = Append(lines, m), UNCHANGED sent
      PROVE  NotesFit'
  <2>1. Notes(lines') = Notes(lines) BY <1>a, <1>1, NotesGrow
  <2> QED BY <1>0, <1>1, <1>b, <2>1 DEF NotesFit, Unheard
<1>2. CASE UNCHANGED <<lines, sent>>
      BY <1>0, <1>2, <1>b DEF NotesFit, Unheard
<1>3. CASE Accept BY <1>2, <1>3 DEF Accept
<1>4. CASE Answer
  <2>1. \A what, value : value \in Answers(what) => value \in Values BY DEF Answers, Values
  <2>2. "yes" \in Values /\ 0 \in Nat BY DEF Values
  <2>3. \/ \E value \in Answers(serving.value) :
               lines' = Append(lines, Message("reply", serving.id, value, None))
        \/ lines' = Append(lines, Message("reply", 0, "yes", None))
        BY <1>4 DEF Answer
  <2>4. PICK id \in Nat, value \in Values : lines' = Append(lines, Message("reply", id, value, None))
        BY <1>a, <2>1, <2>2, <2>3
  <2>5. Message("reply", id, value, None) \in Messages BY MessagesAreMessages
  <2>6. Message("reply", id, value, None).type # "note" BY DEF Message
  <2>7. UNCHANGED sent BY <1>4 DEF Answer
  <2> QED BY <1>1, <2>4, <2>5, <2>6, <2>7
<1>5. CASE Remark
  <2>1. op \in {"generate", "models", "signin"}
        BY <1>0 DEF Typed, CallerTyped
  <2>2. Remarks[op] \subseteq Values BY <2>1 DEF Remarks, Values
  <2>3. PICK value \in Values, text \in Blanks :
            sent' = Append(sent, Note(value, text)) /\ lines' = Append(lines, Note(value, text))
        BY <1>5, <2>2 DEF Remark, Blanks
  <2> DEFINE m == Note(value, text)
  <2>4. m \in Messages /\ m.type = "note" /\ sent' = Append(sent, m) /\ lines' = Append(lines, m)
        BY <2>3, MessagesAreMessages DEF Note, Message
  <2> HIDE DEF m
  <2>5. Notes(lines') = Append(Notes(lines), m) BY <1>a, <2>4, NotesGrow
  <2>6. (events \o Notes(messages)) \o Append(Notes(lines), m)
            = Append((events \o Notes(messages)) \o Notes(lines), m)
    <3>1. /\ events \in Seq(Messages) /\ Notes(messages) \in Seq(Messages)
          /\ Notes(lines) \in Seq(Messages) /\ m \in Messages
          BY <1>a, <2>4
    <3> QED BY <3>1, LastGrows
  <2>7. Unheard' = Append(Unheard, m) BY <1>0, <2>5, <2>6 DEF Unheard
  <2>8. Len(sent') = Len(sent) + 1
        /\ SubSeq(sent', heard + 1, Len(sent) + 1) = Append(SubSeq(sent, heard + 1, Len(sent)), m)
        BY <1>a, <1>b, <2>4, RestGrows
  <2>a. SubSeq(sent', heard' + 1, Len(sent')) = Append(SubSeq(sent, heard + 1, Len(sent)), m)
        BY <1>0, <2>8
  <2>b. Unheard' = SubSeq(sent', heard' + 1, Len(sent')) BY <1>b, <2>7, <2>a
  <2>c. heard' \in Nat /\ heard' <= Len(sent') BY <1>0, <1>a, <1>b, <2>8
  <2>9. Unheard' = SubSeq(sent', heard' + 1, Len(sent')) /\ heard' \in Nat /\ heard' <= Len(sent')
        BY <2>b, <2>c
  <2> QED BY <1>0, <2>9 DEF NotesFit
<1>6. CASE AskTool
  <2>1. Tool \in Messages /\ Tool.type # "note" BY MessagesAreMessages DEF Tool, Message
  <2> QED BY <1>1, <1>6, <2>1 DEF AskTool
<1>7. CASE Fault
  <2>1. Garbage \in Messages /\ Garbage.type # "note" BY MessagesAreMessages DEF Garbage, Message
  <2>2. UNCHANGED sent /\ (UNCHANGED lines \/ lines' = Append(lines, Garbage)) BY <1>7 DEF Fault
  <2> QED BY <1>1, <1>2, <2>1, <2>2
<1> QED BY <1>3, <1>4, <1>5, <1>6, <1>7 DEF ServerStep

\* Every step of the system keeps the order.
LEMMA NextInOrder ==
    ASSUME Typed, Clean, NotesFit, [Next]_vars
    PROVE  NotesFit'
<1>0. QueuesTyped BY DEF Typed
<1>1. CASE UNCHANGED cxVars
      BY <1>1 DEF cxVars, caller, server, NotesFit, Fresh, Unheard, Talking, Waiting, Writing
<1>2. CASE Optimize \/ Answered \/ Failed \/ UNCHANGED vars
      BY <1>1, <1>2 DEF Optimize, Answered, Failed, vars
<1>3. ASSUME NEW o, Open(o) \/ Missing(o) PROVE NotesFit'
  <2>1. pc = "idle" /\ Fresh /\ pc' \in {"call", "over"}
        /\ UNCHANGED <<events, messages, lines, sent, heard>>
        BY <1>3 DEF Open, Missing, NotesFit, server
  <2>2. /\ <<>> \in Seq(Messages) /\ Len(<<>>) = 0 /\ <<>> \o <<>> = <<>> /\ Notes(<<>>) = <<>>
        BY NoNotes, EmptySeq, ConcatEmptySeq
  <2>3. SubSeq(<<>>, 0 + 1, 0) = <<>> BY SubSeqEmpty
  <2>4. Unheard' = SubSeq(sent', heard' + 1, Len(sent')) /\ heard' \in Nat /\ heard' <= Len(sent')
        BY <2>1, <2>2, <2>3 DEF Unheard, Fresh
  <2> QED BY <2>1, <2>4 DEF NotesFit
<1>4. CASE Discover \/ OpenSession BY <1>3, <1>4 DEF Discover, OpenSession
<1>5. CASE SessionOver \/ Done
  <2>1. pc' = "idle" /\ Fresh' BY <1>5 DEF SessionOver, Done, Forget, Drop, Fresh
  <2> QED BY <2>1 DEF NotesFit, Talking, Waiting, Writing
<1>6. CASE CallerStep
  <2>1. CASE Term \/ Reap \/ Join \/ Kill \/ Streams
        BY <2>1, NotesOver DEF Term, Reap, Join, Kill, Streams
  <2> QED BY <1>0, <1>6, <2>1, CallerMovesNone, KeptInOrder, NextIsHeard DEF CallerStep
<1>7. CASE ReaderStep BY <1>0, <1>7, ReaderInOrder
<1>8. CASE ServerStep BY <1>8, ServerInOrder
<1>9. CASE Expire \/ Cancel
  <2>1. Talking /\ UNCHANGED <<pc, events, messages, lines, sent, heard>>
        BY <1>9 DEF Expire, Cancel, caller, server, Talking, Waiting, Writing
  <2>2. pc' # "idle" BY <2>1 DEF Talking, Waiting, Writing
  <2> QED BY <2>1, <2>2, NotesStay
<1> QED BY <1>2, <1>4, <1>5, <1>6, <1>7, <1>8, <1>9
        DEF Next, ThreadStep, AdapterStep, OtherStep

\* For every server, reader and caller, and every number of notifications: each
\* is heard, kept or on its way, once and in the order it was sent
\* (codex_client.py:172-187, 243-250 and 264-265).
THEOREM NotesAreInOrder == Spec => []NotesInOrder
<1>1. Init => Typed /\ Clean BY GenerationInit
<1>2. Init => NotesFit BY DEF Init, CodexInit, NotesFit, Fresh, Talking, Waiting, Writing
<1>3. NotesFit => NotesInOrder BY DEF NotesFit, NotesInOrder, Unheard
<1> QED BY <1>1, <1>2, <1>3, NextIsTyped, NextIsClean, NextInOrder, PTL DEF Spec

-----------------------------------------------------------------------------
(***************************************************************************)
(* An answer is final                                                      *)
(***************************************************************************)

Elements(s) == {s[i] : i \in 1..Len(s)}

LEMMA ElementsOf ==
    ASSUME NEW s \in Seq(Messages)
    PROVE  /\ Elements(<<>>) = {}
           /\ Elements(s) \subseteq Messages
           /\ s # <<>> => Head(s) \in Elements(s) /\ Elements(Tail(s)) \subseteq Elements(s)
           /\ \A m \in Messages : Elements(Append(s, m)) = Elements(s) \cup {m}
<1>1. Elements(<<>>) = {} /\ Elements(s) \subseteq Messages BY DEF Elements
<1>2. ASSUME s # <<>>
      PROVE  Head(s) \in Elements(s) /\ Elements(Tail(s)) \subseteq Elements(s)
  <2>1. /\ Len(s) \in Nat \ {0} /\ Head(s) = s[1] /\ Len(Tail(s)) = Len(s) - 1
        /\ \A i \in 1..Len(Tail(s)) : Tail(s)[i] = s[i + 1]
        BY <1>2
  <2>2. \A i \in 1..Len(Tail(s)) : i + 1 \in 1..Len(s) BY <2>1
  <2> QED BY <2>1, <2>2 DEF Elements
<1>3. ASSUME NEW m \in Messages
      PROVE  Elements(Append(s, m)) = Elements(s) \cup {m}
  <2> DEFINE t == Append(s, m)
  <2>1. /\ Len(s) \in Nat /\ Len(t) = Len(s) + 1 /\ t[Len(s) + 1] = m
        /\ \A i \in 1..Len(s) : t[i] = s[i]
        OBVIOUS
  <2> HIDE DEF t
  <2>2. 1..Len(t) = 1..Len(s) \cup {Len(s) + 1} BY <2>1
  <2>3. Elements(t) = Elements(s) \cup {m} BY <2>1, <2>2 DEF Elements
  <2> QED BY <2>3 DEF t
<1> QED BY <1>1, <1>2, <1>3

Begins == {"turn/start", "account/login/start"}

\* The requests that begin a turn or a login, in a queue.
AtMostOne(s) ==
    \A i, j \in 1..Len(s) : s[i].value \in Begins /\ s[j].value \in Begins => i = j

NoneOf(s) == \A m \in Elements(s) : m.value \notin Begins

LEMMA OneBegins ==
    ASSUME NEW s \in Seq(Messages)
    PROVE  /\ NoneOf(s) => AtMostOne(s)
           /\ AtMostOne(s) /\ s # <<>> => AtMostOne(Tail(s))
           /\ AtMostOne(s) /\ s # <<>> /\ Head(s).value \in Begins => NoneOf(Tail(s))
           /\ \A m \in Messages : AtMostOne(s) /\ m.value \notin Begins => AtMostOne(Append(s, m))
           /\ \A m \in Messages : NoneOf(s) => AtMostOne(Append(s, m))
<1>1. NoneOf(s) => AtMostOne(s) BY DEF NoneOf, AtMostOne, Elements
<1>2. ASSUME s # <<>>, AtMostOne(s)
      PROVE  AtMostOne(Tail(s)) /\ (Head(s).value \in Begins => NoneOf(Tail(s)))
  <2>1. /\ Len(s) \in Nat \ {0} /\ Head(s) = s[1] /\ Len(Tail(s)) = Len(s) - 1
        /\ \A i \in 1..Len(Tail(s)) : Tail(s)[i] = s[i + 1]
        BY <1>2
  <2>2. 1 \in 1..Len(s) /\ \A i \in 1..Len(Tail(s)) : i + 1 \in 1..Len(s) /\ i \in Nat /\ i + 1 # 1
        BY <2>1
  <2>3. AtMostOne(Tail(s))
    <3>1. SUFFICES ASSUME NEW i \in 1..Len(Tail(s)), NEW j \in 1..Len(Tail(s)),
                          Tail(s)[i].value \in Begins, Tail(s)[j].value \in Begins
                   PROVE  i = j
          BY DEF AtMostOne
    <3>2. i + 1 = j + 1 BY <1>2, <2>1, <2>2, <3>1 DEF AtMostOne
    <3> QED BY <2>2, <3>2
  <2>4. Head(s).value \in Begins => NoneOf(Tail(s))
        BY <1>2, <2>1, <2>2 DEF AtMostOne, NoneOf, Elements
  <2> QED BY <2>3, <2>4
<1>3. ASSUME NEW m \in Messages, NoneOf(s) \/ (AtMostOne(s) /\ m.value \notin Begins)
      PROVE  AtMostOne(Append(s, m))
  <2> DEFINE t == Append(s, m)
  <2>1. /\ Len(s) \in Nat /\ Len(t) = Len(s) + 1 /\ t[Len(s) + 1] = m
        /\ \A i \in 1..Len(s) : t[i] = s[i]
        OBVIOUS
  <2> HIDE DEF t
  <2>2. ASSUME NEW i \in 1..Len(t), NEW j \in 1..Len(t), t[i].value \in Begins, t[j].value \in Begins
        PROVE  i = j
    <3>1. CASE NoneOf(s)
      <4>1. i \notin 1..Len(s) /\ j \notin 1..Len(s) BY <2>1, <2>2, <3>1 DEF NoneOf, Elements
      <4> QED BY <2>1, <4>1
    <3>2. CASE AtMostOne(s) /\ m.value \notin Begins
      <4>1. i # Len(s) + 1 /\ j # Len(s) + 1 BY <2>1, <2>2, <3>2
      <4>2. i \in 1..Len(s) /\ j \in 1..Len(s) BY <2>1, <4>1
      <4> QED BY <2>1, <2>2, <3>2, <4>2 DEF AtMostOne
    <3> QED BY <1>3, <3>1, <3>2
  <2>3. AtMostOne(t) BY <2>2 DEF AtMostOne
  <2> QED BY <2>3 DEF t
<1> QED BY <1>1, <1>2, <1>3

\* Before a request, and in the waits for a reply and for a notification, with
\* the writes they are held in.
Calling   == pc \in {"call", "call_held"}
Replying  == pc \in {"reply", "reply_get", "ask_held", "reply_held"}
Hearing   == pc \in {"event", "event_get", "event_held"}
Methods   == {"initialize", "account/read", "account/login/start", "thread/start", "turn/start",
              "model/list"}
Coming    == Elements(messages) \cup Elements(lines)
Requested(m) == m.id = nextId => m.value = method
Replied(m) ==
    m.type = "reply" /\ m.id = nextId =>
        m.value \in Answers(method) /\ (method \in Begins => turn # "none")

\* The request that begins the turn, or the login, has not been made.
Before ==
    \/ op = "generate" /\ (method # "turn/start" \/ Calling)
    \/ op = "signin" /\ method \in {"initialize", "initialized"}
    \/ op = "signin" /\ method = "account/login/start" /\ Calling

\* What the caller asks for, by what the session is for.
Asked ==
    /\ Talking =>
           /\ method \in {"thread/start", "turn/start"} => op = "generate"
           /\ method = "account/login/start" => op = "signin"
    /\ Calling => method \in Methods \cup {"initialized"}
    /\ Replying => method \in Methods /\ nextId > 0

\* A turn or a login begins once, and nobody waits for its end before.
Begun ==
    /\ Talking =>
           /\ AtMostOne(input)
           /\ ~NoneOf(input) => turn = "none"
           /\ Before => turn = "none" /\ NoneOf(input)
    /\ Hearing => turn # "none"

\* A request, and the reply to it, have the number of their time.
Numbered == Talking => \A m \in Elements(input) \cup {serving} \cup Coming : m.id <= nextId

\* Who has the last number belongs to the request the caller waits for.
Matched ==
    Replying =>
        /\ \A m \in Elements(input) \cup {serving} : Requested(m)
        /\ serving.id = nextId /\ method \in Begins => turn # "none"
        /\ \A m \in Coming : Replied(m)

Protocol == Asked /\ Begun /\ Numbered /\ Matched

\* It is about the talk only.
LEMMA ProtocolOver ==
    ASSUME ~Talking'
    PROVE  Protocol'
BY DEF Talking, Waiting, Writing, Calling, Replying, Hearing, Protocol, Asked, Begun, Numbered,
       Matched

\* A step that only takes messages.
LEMMA ProtocolStays ==
    ASSUME QueuesTyped, Protocol, Talking,
           UNCHANGED <<op, method, nextId, input, serving, turn>>,
           Coming' \subseteq Coming \cup {Broken},
           \/ pc' = pc
           \/ Calling /\ Calling'
           \/ Replying /\ Replying'
           \/ Hearing /\ Hearing'
           \/ ~Talking'
    PROVE  Protocol'
<1>1. CASE ~Talking' BY <1>1, ProtocolOver
<1>2. CASE /\ Talking'
           /\ \/ pc' = pc \/ (Calling /\ Calling')
              \/ (Replying /\ Replying') \/ (Hearing /\ Hearing')
  <2>1. (Replying' => Replying) /\ (Hearing' => Hearing) /\ (Calling' <=> Calling)
        BY <1>2 DEF Calling, Replying, Hearing
  <2>2. Asked' BY <2>1 DEF Protocol, Asked
  <2>3. Begun'
    <3>1. Before' => Before BY <2>1 DEF Before
    <3>2. (AtMostOne(input))' = AtMostOne(input) /\ (NoneOf(input))' = NoneOf(input)
          BY DEF AtMostOne, NoneOf
    <3> QED BY <2>1, <3>1, <3>2 DEF Protocol, Begun
  <2>4. Broken.id = 0 /\ Broken.type # "reply" /\ nextId \in Nat
        BY DEF Broken, Message, QueuesTyped
  <2>5. Numbered' BY <2>4 DEF Protocol, Numbered
  <2>6. Matched'
    <3>1. SUFFICES ASSUME Replying' PROVE Matched' BY DEF Matched
    <3>2. /\ \A m \in Elements(input) \cup {serving} : Requested(m)
          /\ serving.id = nextId /\ method \in Begins => turn # "none"
          /\ \A m \in Coming : Replied(m)
          BY <2>1, <3>1 DEF Protocol, Matched
    <3>3. (\A m \in Elements(input) \cup {serving} : Requested(m))'
          BY <3>2 DEF Requested
    <3>4. (\A m \in Coming : Replied(m))' BY <2>4, <3>2 DEF Replied
    <3> QED BY <3>2, <3>3, <3>4 DEF Matched
  <2> QED BY <2>2, <2>3, <2>5, <2>6 DEF Protocol
<1> QED BY <1>1, <1>2

\* The queues between the server and the caller.
LEMMA ComingTaken ==
    ASSUME QueuesTyped, NEW type, Receives(type), UNCHANGED lines
    PROVE  Head(messages) \in Coming /\ Coming' \subseteq Coming
<1>1. messages \in Seq(Messages) /\ messages # <<>> /\ messages' = Tail(messages)
      BY DEF QueuesTyped, Receives
<1>2. Head(messages) \in Elements(messages) /\ Elements(Tail(messages)) \subseteq Elements(messages)
      BY <1>1, ElementsOf
<1> QED BY <1>1, <1>2 DEF Coming

\* The caller's steps but those that begin to write or take a reply to their
\* request.
LEMMA WaitFits ==
    ASSUME QueuesTyped, Protocol,
           Flush \/ Check \/ GetNothing \/ GetBroken \/ GetOther \/ KeepNote
    PROVE  Protocol'
<1>0. Talking
      BY DEF Talking, Waiting, Writing, Flush, Check, GetNothing, GetBroken, GetOther, KeepNote,
             Receives
<1>1. UNCHANGED <<op, method, nextId, input, serving, turn>>
      BY DEF Flush, Check, GetNothing, GetBroken, GetOther, KeepNote, WriteFails, server
<1>4. CASE Flush
  <2>1. UNCHANGED <<messages, lines>> BY <1>4 DEF Flush
  <2>2. \/ Calling /\ Calling'
        \/ Replying /\ Replying'
        \/ Hearing /\ Hearing'
        \/ ~Talking'
        BY <1>4 DEF Flush, Behind, WriteFails, Raise, Leave, Calling, Replying, Hearing, Talking,
                    Waiting, Writing
  <2>3. Coming' = Coming BY <2>1 DEF Coming
  <2> QED BY <1>0, <1>1, <2>2, <2>3, ProtocolStays
<1>2. CASE Check \/ GetNothing
  <2>1. UNCHANGED <<messages, lines>> BY <1>2 DEF Check, GetNothing
  <2>2. \/ Replying /\ Replying'
        \/ Hearing /\ Hearing'
        \/ ~Talking'
        BY <1>2 DEF Check, GetNothing, Raise, Leave, Again, Replying, Hearing, Talking, Waiting, Writing
  <2>3. Coming' = Coming BY <2>1 DEF Coming
  <2> QED BY <1>0, <1>1, <2>2, <2>3, ProtocolStays
<1>3. CASE GetBroken \/ GetOther \/ KeepNote
  <2>1. UNCHANGED lines /\ \E type : Receives(type) BY <1>3 DEF GetBroken, GetOther, KeepNote
  <2>2. Coming' \subseteq Coming BY <2>1, ComingTaken
  <2>3. \/ Replying /\ Replying'
        \/ Hearing /\ Hearing'
        \/ ~Talking'
        BY <1>3 DEF GetBroken, GetOther, KeepNote, Receives, Raise, Leave, Again, Replying, Hearing,
                    Talking, Waiting, Writing
  <2> QED BY <1>0, <1>1, <2>2, <2>3, ProtocolStays
<1> QED BY <1>2, <1>3, <1>4

\* A request is made.
LEMMA CallFits ==
    ASSUME Typed, Protocol, Call
    PROVE  Protocol'
<1>0. /\ Talking /\ pc = "call" /\ UNCHANGED <<op, messages, lines, serving, turn>>
      /\ input \in Seq(Messages) /\ nextId \in Nat /\ method \in Values /\ nextId' \in {nextId, nextId + 1}
      BY DEF Call, Talking, server, Typed, QueuesTyped
<1>1. CASE ~Talking' BY <1>1, ProtocolOver
<1>2. CASE Talking' /\ method = "initialized"
  <2> DEFINE m == Message("request", 0, "initialized", None)
  <2>1. /\ input' = Append(input, m) /\ UNCHANGED nextId /\ Calling' /\ ~Replying' /\ ~Hearing'
        /\ method' = IF op = "signin" THEN "account/login/start" ELSE "account/read"
        BY <1>0, <1>2 DEF Call, Write, Behind, WriteFails, Raise, Leave, Talking, Waiting, Writing,
                          Calling, Replying, Hearing
  <2>2. m \in Messages /\ m.id = 0 /\ m.value \notin Begins
    <3>1. "initialized" \in Values /\ 0 \in Nat BY DEF Values
    <3> QED BY <3>1, MessagesAreMessages DEF Message, Begins
  <2> HIDE DEF m
  <2>3. Elements(input') = Elements(input) \cup {m} BY <1>0, <2>1, <2>2, ElementsOf
  <2>4. Asked' BY <1>0, <2>1 DEF Asked, Methods
  <2>5. Begun'
    <3>1. AtMostOne(input) /\ (~NoneOf(input) => turn = "none")
          /\ (Before => turn = "none" /\ NoneOf(input))
          BY <1>0 DEF Protocol, Begun
    <3>2. AtMostOne(input') BY <1>0, <2>1, <2>2, <3>1, OneBegins
    <3>3. NoneOf(input) => NoneOf(input') BY <2>2, <2>3 DEF NoneOf
    <3>4. Before' => Before BY <1>0, <1>2, <2>1 DEF Before
    <3> QED BY <1>0, <2>1, <3>1, <3>2, <3>3, <3>4 DEF Begun
  <2>6. Numbered' BY <1>0, <2>1, <2>2, <2>3 DEF Protocol, Numbered, Coming
  <2>7. Matched' BY <2>1 DEF Matched
  <2> QED BY <2>4, <2>5, <2>6, <2>7 DEF Protocol
<1>3. CASE Talking' /\ method # "initialized"
  <2> DEFINE m == Message("request", nextId', method, None)
  <2>1. /\ input' = Append(input, m) /\ nextId' = nextId + 1 /\ UNCHANGED method
        /\ Calling /\ Replying' /\ ~Calling' /\ ~Hearing'
    <3>1. WriteFails => ~Talking' BY DEF WriteFails, Raise, Leave, Talking, Waiting, Writing
    <3>2. /\ input' = Append(input, m) /\ nextId' = nextId + 1 /\ UNCHANGED method
          /\ pc' \in {"ask_held", "reply"}
          BY <1>0, <1>3, <3>1 DEF Call, Write, Behind
    <3> QED BY <1>0, <3>2 DEF Calling, Replying, Hearing
  <2>2. m \in Messages /\ m.id = nextId' /\ m.value = method
    <3>1. nextId' \in Nat BY <1>0, <2>1
    <3>2. m \in Messages BY <1>0, <3>1, MessagesAreMessages
    <3> QED BY <3>2 DEF Message
  <2> HIDE DEF m
  <2>3. Elements(input') = Elements(input) \cup {m} BY <1>0, <2>1, <2>2, ElementsOf
  <2>4. \A x \in Elements(input) \cup {serving} \cup Coming : x.id \in Nat /\ x.id <= nextId
    <3>1. /\ \A x \in Elements(input) \cup {serving} \cup Coming : x.id <= nextId
          BY <1>0 DEF Protocol, Numbered
    <3>2. Elements(input) \cup {serving} \cup Coming \subseteq Messages
          BY ElementsOf DEF Typed, QueuesTyped, Coming
    <3> QED BY <3>1, <3>2, MessagesAreMessages
  <2>5. Asked' BY <1>0, <1>3, <2>1 DEF Protocol, Asked
  <2>6. Begun'
    <3>1. AtMostOne(input) /\ (~NoneOf(input) => turn = "none")
          /\ (Before => turn = "none" /\ NoneOf(input))
          BY <1>0 DEF Protocol, Begun
    <3>2. ~Hearing' BY <2>1
    <3>3. CASE method \in Begins
      <4>1. Before /\ ~Before'
            BY <1>0, <2>1, <3>3 DEF Protocol, Asked, Before, Begins
      <4>2. AtMostOne(input') BY <1>0, <2>1, <2>2, <3>1, <4>1, OneBegins
      <4> QED BY <1>0, <3>1, <3>2, <4>1, <4>2 DEF Begun
    <3>4. CASE method \notin Begins
      <4>1. Before' => Before BY <1>0, <2>1, <3>4 DEF Before, Begins
      <4>2. AtMostOne(input') BY <1>0, <2>1, <2>2, <3>1, <3>4, OneBegins
      <4>3. NoneOf(input) => NoneOf(input') BY <2>2, <2>3, <3>4 DEF NoneOf
      <4> QED BY <1>0, <3>1, <3>2, <4>1, <4>2, <4>3 DEF Begun
    <3> QED BY <3>3, <3>4
  <2>7. Coming' = Coming BY <1>0 DEF Coming
  <2>8. Numbered'
    <3>1. \A x \in Elements(input') \cup {serving'} \cup Coming' : x.id <= nextId'
          BY <1>0, <2>1, <2>2, <2>3, <2>4, <2>7
    <3> QED BY <3>1 DEF Numbered
  <2>9. Matched'
    <3>1. \A x \in Elements(input) \cup {serving} \cup Coming : x.id # nextId'
          BY <1>0, <2>1, <2>4
    <3>2. (\A x \in Elements(input) \cup {serving} : Requested(x))'
          BY <1>0, <2>1, <2>2, <2>3, <3>1 DEF Requested
    <3>3. (\A x \in Coming : Replied(x))' BY <2>7, <3>1 DEF Replied
    <3>4. serving'.id # nextId' BY <1>0, <3>1
    <3> QED BY <3>2, <3>3, <3>4 DEF Matched
  <2> QED BY <2>5, <2>6, <2>8, <2>9 DEF Protocol
<1> QED BY <1>1, <1>2, <1>3

\* A request of the server is refused.
LEMMA RefusalFits ==
    ASSUME Typed, Protocol, GetTool
    PROVE  Protocol'
<1>1. CASE ~Talking' BY <1>1, ProtocolOver
<1>2. CASE Talking'
  <2> DEFINE m == Message("refusal", 0, "refusal", None)
  <2>1. /\ input' = Append(input, m) /\ UNCHANGED <<op, method, nextId, lines, serving, turn>>
        /\ (Replying /\ Replying') \/ (Hearing /\ Hearing')
    <3>1. WriteFails => ~Talking' BY DEF WriteFails, Raise, Leave, Talking, Waiting, Writing
    <3>2. Write(m, IF pc = "reply_get" THEN "reply_held" ELSE "event_held")
          /\ UNCHANGED <<op, method, nextId, lines, serving, turn>>
          /\ pc \in {"reply_get", "event_get"}
          BY <1>2, <3>1 DEF GetTool, Receives, server
    <3> QED BY <3>2 DEF Write, Behind, Replying, Hearing
  <2>2. /\ input \in Seq(Messages) /\ nextId \in Nat /\ Coming' \subseteq Coming
        /\ m \in Messages /\ m.id = 0 /\ m.value \notin Begins
    <3>1. input \in Seq(Messages) /\ nextId \in Nat BY DEF Typed, QueuesTyped
    <3>2. Coming' \subseteq Coming BY <2>1, ComingTaken DEF GetTool, Typed
    <3>3. m \in Messages /\ m.id = 0 /\ m.value \notin Begins
          BY MessagesAreMessages DEF Message, Begins
    <3> QED BY <3>1, <3>2, <3>3
  <2> HIDE DEF m
  <2>3. Elements(input') = Elements(input) \cup {m} BY <2>1, <2>2, ElementsOf
  <2>4. Talking BY <2>1 DEF Talking, Waiting, Writing, Replying, Hearing
  <2>5. Asked' BY <2>1, <2>4 DEF Protocol, Asked, Calling, Replying, Hearing
  <2>6. Begun'
    <3>1. AtMostOne(input) /\ (~NoneOf(input) => turn = "none")
          /\ (Before => turn = "none" /\ NoneOf(input)) /\ (Hearing' => turn # "none")
          BY <2>1, <2>4 DEF Protocol, Begun, Hearing, Replying
    <3>2. AtMostOne(input') BY <2>1, <2>2, <3>1, OneBegins
    <3>3. NoneOf(input) => NoneOf(input') BY <2>2, <2>3 DEF NoneOf
    <3>4. Before' => Before BY <2>1 DEF Before, Calling, Replying, Hearing
    <3> QED BY <2>1, <3>1, <3>2, <3>3, <3>4 DEF Begun
  <2>7. Numbered' BY <2>1, <2>2, <2>3, <2>4 DEF Protocol, Numbered
  <2>8. Matched'
    <3>1. SUFFICES ASSUME Replying' PROVE Matched' BY DEF Matched
    <3>2. Replying BY <2>1, <3>1 DEF Replying, Hearing
    <3>3. /\ \A x \in Elements(input) \cup {serving} : Requested(x)
          /\ serving.id = nextId /\ method \in Begins => turn # "none"
          /\ \A x \in Coming : Replied(x)
          /\ nextId > 0
          BY <3>2 DEF Protocol, Matched, Asked
    <3>4. (\A x \in Elements(input) \cup {serving} : Requested(x))'
          BY <2>1, <2>2, <2>3, <3>3 DEF Requested
    <3>5. (\A x \in Coming : Replied(x))' BY <2>1, <2>2, <3>3 DEF Replied
    <3> QED BY <2>1, <3>3, <3>4, <3>5 DEF Matched
  <2> QED BY <2>5, <2>6, <2>7, <2>8 DEF Protocol
<1> QED BY <1>1, <1>2

\* The reply to it arrives.
LEMMA ReplyFits ==
    ASSUME Typed, Protocol, GetReply
    PROVE  Protocol'
<1> DEFINE value == Head(messages).value
<1>1. /\ pc = "reply_get" /\ Replying /\ Talking /\ Proceed(value)
      /\ UNCHANGED <<nextId, input, lines, serving, turn>>
      /\ op \in {"generate", "models", "signin"}
      BY DEF GetReply, Replying, Talking, Waiting, Writing, server, Typed, CallerTyped
<1>2. Head(messages) \in Coming /\ Coming' \subseteq Coming
      BY ComingTaken DEF GetReply, Typed
<1>3. value \in Answers(method) /\ (method \in Begins => turn # "none") /\ method \in Methods
  <2>1. Replied(Head(messages)) /\ method \in Methods
        BY <1>1, <1>2 DEF Protocol, Matched, Asked
  <2>2. Head(messages).type = "reply" /\ Head(messages).id = nextId
        BY DEF GetReply, Receives, IsReply
  <2> QED BY <2>1, <2>2 DEF Replied
<1> HIDE DEF value
<1>4. CASE ~Talking' BY <1>4, ProtocolOver
<1>5. CASE Talking'
  <2>1. \/ /\ pc' = "event" /\ UNCHANGED <<op, method>> /\ method \in Begins
        \/ /\ pc' = "call" /\ op' = op /\ method' \in {"initialized", "model/list", method}
           /\ method \in {"initialize", "model/list"} /\ (method = "initialize" => method' = "initialized")
           /\ (method = "model/list" => method' = "model/list")
        \/ /\ pc' = "call" /\ method = "account/read"
           /\ \/ op = "generate" /\ op' = op /\ method' = "thread/start"
              \/ op' = "models" /\ method' \in {"model/list", "account/read"}
        \/ pc' = "call" /\ method = "thread/start" /\ op' = op /\ method' = "turn/start"
    <3>1. CASE value = "error"
      <4>1. pc' = "term" BY <1>1, <3>1 DEF Proceed, Raise, Leave
      <4> QED BY <1>5, <4>1 DEF Talking, Waiting, Writing
    <3>2. CASE value # "error" /\ method = "initialize"
          BY <1>1, <3>2 DEF Proceed, Ask
    <3>3. CASE value # "error" /\ method = "account/read"
      <4>1. value \in {"yes", "no"} BY <1>3, <3>3 DEF Answers
      <4>2. value = "yes"
            BY <1>1, <1>5, <3>3, <4>1 DEF Proceed, Raise, Leave, Talking, Waiting, Writing
      <4> QED BY <1>1, <3>3, <4>2 DEF Proceed, Ask
    <3>4. CASE value # "error" /\ method = "thread/start"
          BY <1>1, <3>4 DEF Proceed, Ask
    <3>5. CASE value # "error" /\ method = "account/login/start"
      <4>1. value \in {"yes", "no"} BY <1>3, <3>5 DEF Answers
      <4>2. value = "yes"
            BY <1>1, <1>5, <3>5, <4>1 DEF Proceed, Raise, Leave, Talking, Waiting, Writing
      <4> QED BY <1>1, <3>5, <4>2 DEF Proceed, Begins
    <3>6. CASE value # "error" /\ method = "model/list"
          BY <1>1, <1>5, <3>6 DEF Proceed, Ask, Raise, Leave, Talking, Waiting, Writing
    <3>7. CASE value # "error" /\ method = "turn/start"
          BY <1>1, <3>7 DEF Proceed, Begins
    <3> QED BY <1>3, <3>1, <3>2, <3>3, <3>4, <3>5, <3>6, <3>7 DEF Methods
  <2>2. pc' \in {"event", "call"} BY <2>1
  <2>3. ~Replying' BY <2>2 DEF Replying
  <2>4. /\ method \in {"thread/start", "turn/start"} => op = "generate"
        /\ method = "account/login/start" => op = "signin"
        BY <1>1 DEF Protocol, Asked
  <2>5. Asked' BY <2>1, <2>3, <2>4 DEF Asked, Calling, Methods, Begins
  <2>6. Begun'
    <3>1. Before' => Before BY <1>1, <2>1, <2>4 DEF Before, Calling, Begins
    <3>2. Hearing' => turn # "none" BY <1>3, <2>1 DEF Hearing
    <3> QED BY <1>1, <3>1, <3>2 DEF Protocol, Begun, NoneOf, AtMostOne
  <2>7. Numbered' BY <1>1, <1>2 DEF Protocol, Numbered
  <2> QED BY <2>3, <2>5, <2>6, <2>7 DEF Protocol, Matched
<1> QED BY <1>4, <1>5

\* The reader.
LEMMA ReaderFits ==
    ASSUME QueuesTyped, Protocol, ReaderStep
    PROVE  Protocol'
<1>0. UNCHANGED <<pc, op, method, nextId, input, serving, turn>>
      BY DEF ReaderStep, ReadLine, ReadEnd, readerFrame, caller, server
<1>a. /\ messages \in Seq(Messages) /\ lines \in Seq(Messages)
      /\ Broken \in Messages /\ Broken.id = 0 /\ Broken.type # "reply"
      BY MessagesAreMessages DEF QueuesTyped, Broken, Message
<1>1. CASE ~Talking
  <2>1. ~Talking' BY <1>0, <1>1 DEF Talking, Waiting, Writing
  <2> QED BY <2>1, ProtocolOver
<1>2. CASE Talking
  <2>1. Coming' \subseteq Coming \cup {Broken}
    <3>1. CASE ReadLine
      <4> DEFINE m == Head(lines)
      <4>1. m \in Messages /\ lines # <<>> /\ lines' = Tail(lines) BY <1>a, <3>1 DEF ReadLine
      <4>2. m \in Elements(lines) /\ Elements(lines') \subseteq Elements(lines)
            BY <1>a, <4>1, ElementsOf
      <4>3. \/ messages' = messages \o <<Broken, Broken>>
            \/ messages' = messages \o <<m>>
            BY <1>2, <3>1 DEF ReadLine, Put
      <4> HIDE DEF m
      <4>4. CASE messages' = messages \o <<m>>
        <5>1. messages' = Append(messages, m) BY <1>a, <4>1, <4>4, AppendIsConcat
        <5>2. Elements(messages') = Elements(messages) \cup {m} BY <1>a, <4>1, <5>1, ElementsOf
        <5> QED BY <4>2, <5>2 DEF Coming
      <4>5. CASE messages' = messages \o <<Broken, Broken>>
        <5> DEFINE q == Append(messages, Broken)
        <5>1. messages' = Append(q, Broken) /\ q \in Seq(Messages) BY <1>a, <4>5
        <5>2. Elements(q) = Elements(messages) \cup {Broken} BY <1>a, ElementsOf
        <5> HIDE DEF q
        <5>3. Elements(messages') = Elements(q) \cup {Broken} BY <1>a, <5>1, ElementsOf
        <5> QED BY <4>2, <5>2, <5>3 DEF Coming
      <4> QED BY <4>3, <4>4, <4>5
    <3>2. CASE ReadEnd
      <4>1. messages' = messages \o <<Broken>> /\ lines' = lines
            BY <1>2, <3>2 DEF ReadEnd, Put
      <4>2. messages' = Append(messages, Broken) BY <1>a, <4>1, AppendIsConcat
      <4>3. Elements(messages') = Elements(messages) \cup {Broken} BY <1>a, <4>2, ElementsOf
      <4> QED BY <4>1, <4>3 DEF Coming
    <3> QED BY <3>1, <3>2 DEF ReaderStep
  <2> QED BY <1>0, <1>2, <2>1, ProtocolStays
<1> QED BY <1>1, <1>2

\* The server takes a request, or another message of the caller.
LEMMA AcceptFits ==
    ASSUME Typed, Protocol, Accept
    PROVE  Protocol'
<1> DEFINE m == Head(input)
<1>1. /\ Talking /\ input # <<>> /\ input \in Seq(Messages) /\ input' = Tail(input)
      /\ UNCHANGED <<pc, op, method, nextId, messages, lines>> /\ nextId \in Nat
      BY DEF Accept, serverFrame, caller, Typed, QueuesTyped
<1>2. /\ m \in Elements(input) /\ Elements(input') \subseteq Elements(input)
      /\ AtMostOne(input) => AtMostOne(input')
      /\ AtMostOne(input) /\ m.value \in Begins => NoneOf(input')
      BY <1>1, ElementsOf, OneBegins
<1>3. /\ serving' \in {m, NoRequest}
      /\ m.value \in Begins => turn' = "open"
      /\ m.value \notin Begins => turn' = turn \/ (turn = "blocked" /\ turn' = "open")
      BY DEF Accept, Begins
<1> HIDE DEF m
<1>4. /\ AtMostOne(input) /\ (~NoneOf(input) => turn = "none")
      /\ Before => turn = "none" /\ NoneOf(input)
      /\ Hearing => turn # "none"
      BY <1>1 DEF Protocol, Begun
<1>5. Coming' = Coming /\ (Before' <=> Before) /\ (Hearing' <=> Hearing) /\ (Replying' <=> Replying)
      BY <1>1 DEF Coming, Before, Calling, Hearing, Replying
<1>6. NoRequest.id = 0 BY DEF NoRequest, Message
<1>7. Asked' BY <1>1 DEF Protocol, Asked, Calling, Replying, Talking, Waiting, Writing
<1>8. Begun'
  <2>1. CASE m.value \in Begins
    <3>1. ~NoneOf(input) BY <1>2, <2>1 DEF NoneOf
    <3>2. NoneOf(input') /\ AtMostOne(input') /\ turn' = "open" BY <1>2, <1>3, <1>4, <2>1
    <3>3. ~Before' BY <1>4, <1>5, <3>1
    <3> QED BY <3>2, <3>3 DEF Begun
  <2>2. CASE m.value \notin Begins
    <3>1. AtMostOne(input') /\ (NoneOf(input) => NoneOf(input')) BY <1>2, <1>4 DEF NoneOf
    <3>2. turn = "none" <=> turn' = "none" BY <1>3, <2>2
    <3> QED BY <1>4, <1>5, <3>1, <3>2 DEF Begun
  <2> QED BY <2>1, <2>2
<1>9. Numbered'
  <2>1. \A x \in Elements(input) \cup {serving} \cup Coming : x.id <= nextId
        BY <1>1 DEF Protocol, Numbered
  <2>2. \A x \in Elements(input') \cup {serving'} \cup Coming' : x.id <= nextId'
        BY <1>1, <1>2, <1>3, <1>5, <1>6, <2>1
  <2> QED BY <2>2 DEF Numbered
<1>10. Matched'
  <2>1. SUFFICES ASSUME Replying' PROVE Matched' BY DEF Matched
  <2>2. /\ \A x \in Elements(input) \cup {serving} : Requested(x)
        /\ serving.id = nextId /\ method \in Begins => turn # "none"
        /\ \A x \in Coming : Replied(x)
        /\ nextId > 0
        BY <1>5, <2>1 DEF Protocol, Matched, Asked
  <2>3. (\A x \in Elements(input) \cup {serving} : Requested(x))'
        BY <1>1, <1>2, <1>3, <1>6, <2>2 DEF Requested
  <2>4. turn # "none" => turn' # "none" BY <1>3
  <2>5. (\A x \in Coming : Replied(x))' BY <1>1, <1>5, <2>2, <2>4 DEF Replied
  <2>6. serving'.id = nextId' /\ method' \in Begins => turn' # "none"
    <3>1. SUFFICES ASSUME serving'.id = nextId', method' \in Begins PROVE turn' # "none" OBVIOUS
    <3>2. serving' = m BY <1>1, <1>3, <1>6, <2>2, <3>1
    <3>3. m.value = method BY <1>1, <1>2, <2>2, <3>1, <3>2 DEF Requested
    <3> QED BY <1>1, <1>3, <3>1, <3>3
  <2> QED BY <2>3, <2>5, <2>6 DEF Matched
<1> QED BY <1>7, <1>8, <1>9, <1>10 DEF Protocol

\* It writes a line: what the line says has the number of a request in hand, or
\* none, and a turn or a login that has begun does not begin again.
LEMMA LineFits ==
    ASSUME Typed, Protocol, Talking,
           UNCHANGED <<pc, op, method, nextId, messages, input>>,
           NEW m \in Messages, lines' = Append(lines, m) \/ lines' = lines,
           serving' \in {serving, NoRequest},
           turn' = turn \/ (turn # "none" /\ turn' # "none"),
           m.id <= nextId, m.type = "reply" => m.id = 0 \/ (m.id = serving.id /\ m.value \in Answers(serving.value))
    PROVE  Protocol'
<1>1. lines \in Seq(Messages) /\ nextId \in Nat BY DEF Typed, QueuesTyped
<1>2. Coming' \subseteq Coming \cup {m}
  <2>1. Elements(lines') \subseteq Elements(lines) \cup {m}
    <3>1. CASE lines' = Append(lines, m)
      <4>1. Elements(Append(lines, m)) = Elements(lines) \cup {m} BY <1>1, ElementsOf
      <4> QED BY <3>1, <4>1
    <3>2. CASE lines' = lines BY <3>2
    <3> QED BY <3>1, <3>2
  <2> QED BY <2>1 DEF Coming
<1>3. NoRequest.id = 0 BY DEF NoRequest, Message
<1>4. /\ AtMostOne(input) /\ (~NoneOf(input) => turn = "none")
      /\ Before => turn = "none" /\ NoneOf(input)
      /\ Hearing => turn # "none"
      BY DEF Protocol, Begun
<1>5. (Before' <=> Before) /\ (Hearing' <=> Hearing) /\ (Replying' <=> Replying)
      BY DEF Before, Calling, Hearing, Replying
<1>6. turn = "none" <=> turn' = "none" OBVIOUS
<1>7. Asked' BY DEF Protocol, Asked, Calling, Replying, Talking, Waiting, Writing
<1>8. Begun' BY <1>4, <1>5, <1>6 DEF Begun, NoneOf, AtMostOne
<1>9. Numbered'
  <2>1. \A x \in Elements(input) \cup {serving} \cup Coming : x.id <= nextId
        BY DEF Protocol, Numbered
  <2>2. \A x \in Elements(input') \cup {serving'} \cup Coming' : x.id <= nextId'
        BY <1>1, <1>2, <1>3, <2>1
  <2> QED BY <2>2 DEF Numbered
<1>10. Matched'
  <2>1. SUFFICES ASSUME Replying' PROVE Matched' BY DEF Matched
  <2>2. /\ \A x \in Elements(input) \cup {serving} : Requested(x)
        /\ serving.id = nextId /\ method \in Begins => turn # "none"
        /\ \A x \in Coming : Replied(x)
        /\ nextId > 0
        BY <1>5, <2>1 DEF Protocol, Matched, Asked
  <2>3. (\A x \in Elements(input) \cup {serving} : Requested(x))'
        BY <1>1, <1>3, <2>2 DEF Requested
  <2>4. Replied(m)
    <3>1. SUFFICES ASSUME m.type = "reply", m.id = nextId
                   PROVE  m.value \in Answers(method) /\ (method \in Begins => turn # "none")
          BY DEF Replied
    <3>2. m.id = serving.id /\ m.value \in Answers(serving.value) BY <1>1, <2>2, <3>1
    <3>3. serving.value = method BY <2>2, <3>1, <3>2 DEF Requested
    <3> QED BY <2>2, <3>1, <3>2, <3>3
  <2>5. (\A x \in Coming : Replied(x))' BY <1>2, <1>6, <2>2, <2>4 DEF Replied
  <2>6. serving'.id = nextId' /\ method' \in Begins => turn' # "none" BY <1>1, <1>3, <1>6, <2>2
  <2> QED BY <2>3, <2>5, <2>6 DEF Matched
<1> QED BY <1>7, <1>8, <1>9, <1>10 DEF Protocol

\* The server.
LEMMA ServerFits ==
    ASSUME Typed, Protocol, ServerStep
    PROVE  Protocol'
<1>0. /\ Talking /\ UNCHANGED <<pc, op, method, nextId, messages>> /\ nextId \in Nat
      /\ serving \in Messages /\ serving.id \in Nat
      /\ op \in {"generate", "models", "signin"}
      BY MessagesAreMessages
      DEF ServerStep, Accept, Answer, Remark, AskTool, Fault, serverFrame, caller, Typed, QueuesTyped,
          CallerTyped, Talking, Waiting, Writing
<1>1. CASE Accept BY <1>1, AcceptFits
<1>2. CASE Answer
  <2>0. UNCHANGED <<input, turn>> /\ serving' \in {serving, NoRequest} BY <1>2 DEF Answer
  <2>1. serving.id <= nextId BY <1>0 DEF Protocol, Numbered
  <2>2. CASE \E value \in Answers(serving.value) :
                 lines' = Append(lines, Message("reply", serving.id, value, None))
    <3>1. PICK value \in Answers(serving.value) :
              lines' = Append(lines, Message("reply", serving.id, value, None))
          BY <2>2
    <3>2. value \in Values BY DEF Answers, Values
    <3> DEFINE m == Message("reply", serving.id, value, None)
    <3>3. m \in Messages BY <1>0, <3>2, MessagesAreMessages
    <3>4. m.id = serving.id /\ m.value = value BY DEF Message
    <3> HIDE DEF m
    <3> QED BY <1>0, <2>0, <2>1, <3>1, <3>3, <3>4, LineFits DEF m
  <2>3. CASE lines' = Append(lines, Message("reply", 0, "yes", None))
    <3> DEFINE m == Message("reply", 0, "yes", None)
    <3>1. m \in Messages
      <4>1. "yes" \in Values /\ 0 \in Nat BY DEF Values
      <4> QED BY <4>1, MessagesAreMessages
    <3>2. m.id = 0 BY DEF Message
    <3> HIDE DEF m
    <3>3. m.id <= nextId BY <1>0, <3>2
    <3> QED BY <1>0, <2>0, <2>3, <3>1, <3>2, <3>3, LineFits DEF m
  <2> QED BY <1>2, <2>2, <2>3 DEF Answer
<1>3. ASSUME NEW m \in Messages, m.type # "reply", m.id = 0,
             lines' = Append(lines, m) \/ lines' = lines, UNCHANGED <<input, serving>>,
             turn' = turn \/ (turn # "none" /\ turn' # "none")
      PROVE  Protocol'
  <2>1. m.id <= nextId BY <1>0, <1>3
  <2> QED BY <1>0, <1>3, <2>1, LineFits
<1>4. CASE Remark
  <2>1. Remarks[op] \subseteq Values BY <1>0 DEF Remarks, Values
  <2>2. PICK value \in Values, text \in Blanks :
            /\ lines' = Append(lines, Note(value, text))
            /\ value # "other" => turn = "open"
            /\ turn' = IF value \in Ends THEN "over" ELSE turn
        BY <1>4, <2>1 DEF Remark, Blanks
  <2>3. Note(value, text) \in Messages BY MessagesAreMessages
  <2>4. Note(value, text).type # "reply" /\ Note(value, text).id = 0 BY DEF Note, Message
  <2>5. UNCHANGED <<input, serving>> BY <1>4 DEF Remark
  <2>6. turn' = turn \/ (turn # "none" /\ turn' # "none") BY <2>2 DEF Ends
  <2> QED BY <1>3, <2>2, <2>3, <2>4, <2>5, <2>6
<1>5. CASE AskTool
  <2>1. Tool \in Messages /\ Tool.type # "reply" /\ Tool.id = 0
        BY MessagesAreMessages DEF Tool, Message
  <2> QED BY <1>3, <1>5, <2>1 DEF AskTool
<1>6. CASE Fault
  <2>1. Garbage \in Messages /\ Garbage.type # "reply" /\ Garbage.id = 0
        BY MessagesAreMessages DEF Garbage, Message
  <2> QED BY <1>3, <1>6, <2>1 DEF Fault
<1> QED BY <1>1, <1>2, <1>4, <1>5, <1>6 DEF ServerStep

\* The text of the last final message among the first k of some messages.
LastFinal(s, k, text) ==
    \/ text = None /\ \A i \in 1..k : s[i].value # "final"
    \/ \E i \in 1..k :
           /\ s[i].value = "final" /\ text = s[i].text
           /\ \A j \in (i + 1)..k : s[j].value # "final"

\* Only what is none of the turn is said behind its end.
EndsLast ==
    \A i \in 1..Len(sent) : sent[i].value \in Ends =>
        turn = "over" /\ \A j \in (i + 1)..Len(sent) : sent[j].value = "other"

\* What has been said and heard of a turn.
Spoken ==
    Talking =>
        /\ heard \in Nat /\ heard <= Len(sent)
        /\ LastFinal(sent, heard, final)
        /\ LastFinal(sent, Len(sent), said)
        /\ EndsLast
        /\ op = "generate" => \A i \in 1..Len(sent) : sent[i].value # "success"

\* What the caller has made of it.
Concluded ==
    pc = "term" /\ outcome.kind \in {"text", "optimization"} =>
        /\ turn = "over"
        /\ LET done == \E n \in DOMAIN sent : sent[n].value = "done" IN
           IF outcome.kind = "text"
           THEN done /\ outcome.text = said /\ said # None
           ELSE done => said = None

\* There is one last final message, and it is that of fewer of them unless
\* there is one among the others.
LEMMA OneLastFinal ==
    ASSUME NEW s, NEW k \in Nat, NEW text
    PROVE  /\ s[k + 1].value = "final" => LastFinal(s, k + 1, s[k + 1].text)
           /\ s[k + 1].value # "final" /\ LastFinal(s, k, text) => LastFinal(s, k + 1, text)
           /\ \A other : \A n \in Nat :
                  /\ LastFinal(s, k, text) /\ LastFinal(s, n, other) /\ k <= n
                  /\ \A i \in (k + 1)..n : s[i].value # "final"
                  => other = text
<1>1. 1..(k + 1) = 1..k \cup {k + 1} /\ k + 1 \in 1..(k + 1) OBVIOUS
<1>2. ((k + 1) + 1)..(k + 1) = {} OBVIOUS
<1>3. ASSUME s[k + 1].value = "final" PROVE LastFinal(s, k + 1, s[k + 1].text)
      BY <1>1, <1>2, <1>3 DEF LastFinal
<1>4. ASSUME s[k + 1].value # "final", LastFinal(s, k, text) PROVE LastFinal(s, k + 1, text)
  <2>1. CASE text = None /\ \A i \in 1..k : s[i].value # "final"
        BY <1>1, <1>4, <2>1 DEF LastFinal
  <2>2. CASE \E i \in 1..k :
                 /\ s[i].value = "final" /\ text = s[i].text
                 /\ \A j \in (i + 1)..k : s[j].value # "final"
    <3>1. PICK i \in 1..k :
              /\ s[i].value = "final" /\ text = s[i].text
              /\ \A j \in (i + 1)..k : s[j].value # "final"
          BY <2>2
    <3>2. (i + 1)..(k + 1) = ((i + 1)..k) \cup {k + 1} /\ i \in 1..(k + 1) OBVIOUS
    <3>3. \A j \in (i + 1)..(k + 1) : s[j].value # "final" BY <1>4, <3>1, <3>2
    <3> QED BY <3>1, <3>2, <3>3 DEF LastFinal
  <2> QED BY <1>4, <2>1, <2>2 DEF LastFinal
<1>5. ASSUME NEW other, NEW n \in Nat, LastFinal(s, k, text), LastFinal(s, n, other), k <= n,
             \A i \in (k + 1)..n : s[i].value # "final"
      PROVE  other = text
  <2>1. 1..n = 1..k \cup (k + 1)..n BY <1>5
  <2>2. CASE \A i \in 1..n : s[i].value # "final"
    <3>1. \A i \in 1..k : s[i].value # "final" BY <2>1, <2>2
    <3> QED BY <1>5, <2>2, <3>1 DEF LastFinal
  <2>3. CASE \E i \in 1..n : s[i].value = "final"
    <3>1. PICK i \in 1..n :
              /\ s[i].value = "final" /\ other = s[i].text
              /\ \A j \in (i + 1)..n : s[j].value # "final"
          BY <1>5, <2>3 DEF LastFinal
    <3>2. i \in 1..k BY <1>5, <2>1, <3>1
    <3>3. PICK p \in 1..k :
              /\ s[p].value = "final" /\ text = s[p].text
              /\ \A j \in (p + 1)..k : s[j].value # "final"
          BY <1>5, <3>1, <3>2 DEF LastFinal
    <3>4. ~(i < p)
      <4>1. i < p => p \in (i + 1)..n BY <1>5, <3>2
      <4> QED BY <3>1, <3>3, <4>1
    <3>5. ~(p < i)
      <4>1. p < i => i \in (p + 1)..k BY <3>2
      <4> QED BY <3>1, <3>3, <4>1
    <3>6. i = p BY <3>2, <3>4, <3>5
    <3> QED BY <3>1, <3>3, <3>6
  <2> QED BY <2>2, <2>3
<1> QED BY <1>3, <1>4, <1>5

\* It depends on these messages only.
LEMMA LastFinalStays ==
    ASSUME NEW s, NEW t, NEW k \in Nat, NEW text, LastFinal(s, k, text), \A i \in 1..k : t[i] = s[i]
    PROVE  LastFinal(t, k, text)
<1>1. CASE text = None /\ \A i \in 1..k : s[i].value # "final"
      BY <1>1 DEF LastFinal
<1>2. CASE \E i \in 1..k :
               /\ s[i].value = "final" /\ text = s[i].text
               /\ \A j \in (i + 1)..k : s[j].value # "final"
  <2>1. PICK i \in 1..k :
            /\ s[i].value = "final" /\ text = s[i].text
            /\ \A j \in (i + 1)..k : s[j].value # "final"
        BY <1>2
  <2>2. \A j \in (i + 1)..k : j \in 1..k OBVIOUS
  <2>3. t[i].value = "final" /\ text = t[i].text
        /\ \A j \in (i + 1)..k : t[j].value # "final"
        BY <2>1, <2>2
  <2> QED BY <2>3 DEF LastFinal
<1> QED BY <1>1, <1>2 DEF LastFinal

\* A step that neither says nor hears anything.
LEMMA SpokenStays ==
    ASSUME Spoken, Talking' => Talking, UNCHANGED <<heard, final, sent, said>>,
           op' = op \/ op' # "generate",
           turn' = turn \/ turn # "over"
    PROVE  Spoken'
BY DEF Spoken, EndsLast

\* What is heard is the next that was said.
LEMMA HearingFits ==
    ASSUME Typed, NotesFit, Protocol, Spoken, HearKept \/ HearNew
    PROVE  Protocol' /\ Spoken' /\ Concluded'
<1> DEFINE m == sent[heard + 1]
<1>0. /\ Talking /\ pc = "event_get" /\ Hearing /\ QueuesTyped
      /\ UNCHANGED <<op, nextId, input, lines, serving, turn, sent, said>>
      /\ sent \in Seq(Messages) /\ Len(sent) \in Nat
      /\ op \in {"generate", "models", "signin"}
      BY DEF HearKept, HearNew, Talking, Waiting, Writing, Hearing, server, Typed, QueuesTyped,
             CallerTyped
<1>1. heard \in Nat /\ heard < Len(sent) /\ Hear(m) BY <1>0, NextIsHeard
<1>2. heard + 1 \in 1..Len(sent) BY <1>0, <1>1
<1>3. /\ LastFinal(sent, heard, final)
      /\ LastFinal(sent, Len(sent), said)
      /\ EndsLast
      /\ op = "generate" => \A i \in 1..Len(sent) : sent[i].value # "success"
      BY <1>0 DEF Spoken
<1>4. heard' = heard + 1 /\ final' = LastText(m) BY <1>1 DEF Hear
<1>5. Coming' \subseteq Coming
  <2>1. CASE HearKept BY <2>1 DEF HearKept, Coming
  <2>2. CASE HearNew BY <1>0, <2>2, ComingTaken DEF HearNew
  <2> QED BY <2>1, <2>2
<1>6. Spoken'
  <2>1. LastFinal(sent, heard + 1, final')
    <3>1. CASE m.value = "final"
      <4>1. final' = m.text BY <1>4, <3>1 DEF LastText
      <4> QED BY <1>1, <3>1, <4>1, OneLastFinal
    <3>2. CASE m.value # "final"
      <4>1. final' = final BY <1>4, <3>2 DEF LastText
      <4> QED BY <1>1, <1>3, <3>2, <4>1, OneLastFinal
    <3> QED BY <3>1, <3>2
  <2>2. heard' \in Nat /\ heard' <= Len(sent) BY <1>0, <1>1, <1>4
  <2>3. EndsLast' BY <1>0, <1>3 DEF EndsLast
  <2> QED BY <1>0, <1>3, <1>4, <2>1, <2>2, <2>3 DEF Spoken
<1>7. CASE m.value \in {"done", "failed"}
  <2>1. turn = "over" /\ \A j \in ((heard + 1) + 1)..Len(sent) : sent[j].value = "other"
        BY <1>2, <1>3, <1>7 DEF Ends, EndsLast
  <2>2. pc' = "term" BY <1>1, <1>7 DEF Hear, Raise, Leave
  <2>3. m.value = "done" =>
            outcome' = IF final = None THEN Outcome("optimization", None) ELSE Outcome("text", final)
        BY <1>1 DEF Hear, Raise, Leave
  <2>4. m.value = "failed" => outcome' = Outcome("optimization", None)
        BY <1>1 DEF Hear, Raise, Leave
  <2>5. m.value = "done" => said = final
    <3>1. SUFFICES ASSUME m.value = "done" PROVE said = final OBVIOUS
    <3>2. \A j \in (heard + 1)..Len(sent) : j = heard + 1 \/ j \in ((heard + 1) + 1)..Len(sent)
          BY <1>0, <1>1
    <3>3. \A j \in (heard + 1)..Len(sent) : sent[j].value # "final" BY <2>1, <3>1, <3>2
    <3>4. heard \in Nat /\ heard <= Len(sent) BY <1>0, <1>1
    <3>5. \A other : \A n \in Nat :
              /\ LastFinal(sent, heard, final) /\ LastFinal(sent, n, other) /\ heard <= n
              /\ \A j \in (heard + 1)..n : sent[j].value # "final"
              => other = final
          BY <3>4, OneLastFinal
    <3> QED BY <1>0, <1>3, <3>3, <3>4, <3>5
  <2>6. m.value = "failed" => \A n \in 1..Len(sent) : sent[n].value # "done"
    <3>1. SUFFICES ASSUME m.value = "failed", NEW n \in 1..Len(sent), sent[n].value = "done"
                   PROVE  FALSE
          OBVIOUS
    <3>2. \A j \in (n + 1)..Len(sent) : sent[j].value = "other" BY <1>3, <3>1 DEF Ends, EndsLast
    <3>3. n # heard + 1 BY <3>1
    <3>4. n \in ((heard + 1) + 1)..Len(sent) \/ heard + 1 \in (n + 1)..Len(sent)
          BY <1>0, <1>1, <3>3
    <3> QED BY <2>1, <3>1, <3>2, <3>4
  <2>7. Concluded'
    <3>1. CASE m.value = "done"
      <4>1. (\E n \in DOMAIN sent' : sent'[n].value = "done") /\ turn' = "over"
            BY <1>0, <1>2, <2>1, <3>1
      <4>2. said' = final BY <1>0, <2>5, <3>1
      <4>3. CASE final = None
        <5>1. outcome'.kind = "optimization" BY <2>3, <3>1, <4>3 DEF Outcome
        <5> QED BY <4>1, <4>2, <4>3, <5>1 DEF Concluded
      <4>4. CASE final # None
        <5>1. outcome'.kind = "text" /\ outcome'.text = final BY <2>3, <3>1, <4>4 DEF Outcome
        <5> QED BY <4>1, <4>2, <4>4, <5>1 DEF Concluded
      <4> QED BY <4>3, <4>4
    <3>2. CASE m.value = "failed"
      <4>1. (\A n \in DOMAIN sent' : sent'[n].value # "done") /\ turn' = "over"
            BY <1>0, <2>1, <2>6, <3>2
      <4>2. outcome'.kind = "optimization" BY <2>4, <3>2 DEF Outcome
      <4> QED BY <4>1, <4>2 DEF Concluded
    <3> QED BY <1>7, <3>1, <3>2
  <2>8. ~Talking' BY <2>2 DEF Talking, Waiting, Writing
  <2> QED BY <1>6, <2>7, <2>8, ProtocolOver
<1>8. CASE m.value = "refused"
  <2>1. pc' = "term" /\ outcome' = Outcome("config", None)
        BY <1>1, <1>8 DEF Hear, Raise, Leave
  <2>2. ~Talking' /\ Concluded' BY <2>1 DEF Talking, Waiting, Writing, Concluded, Outcome
  <2> QED BY <1>6, <2>2, ProtocolOver
<1>9. CASE m.value = "success"
  <2>1. pc' = "call" /\ method' = "account/read" BY <1>1, <1>9 DEF Hear, Ask
  <2>2. op # "generate" BY <1>2, <1>3, <1>9
  <2>3. ~Before' /\ ~Replying' /\ ~Hearing' BY <1>0, <2>1, <2>2 DEF Before, Replying, Hearing
  <2>4. Asked' BY <2>1, <2>3 DEF Asked, Methods
  <2>5. Begun' BY <1>0, <2>3 DEF Protocol, Begun, NoneOf, AtMostOne
  <2>6. Numbered' BY <1>0, <1>5 DEF Protocol, Numbered
  <2>7. Concluded' BY <2>1 DEF Concluded
  <2> QED BY <1>6, <2>3, <2>4, <2>5, <2>6, <2>7 DEF Protocol, Matched
<1>10. CASE m.value \notin {"done", "failed", "refused", "success"}
  <2>1. pc' = "event" /\ UNCHANGED method BY <1>0, <1>1, <1>10 DEF Hear, Again
  <2>2. Hearing' /\ Concluded' BY <2>1 DEF Hearing, Concluded
  <2> QED BY <1>0, <1>5, <1>6, <2>1, <2>2, ProtocolStays
<1> QED BY <1>7, <1>8, <1>9, <1>10

\* What is said is the last that was said.
LEMMA SayingFits ==
    ASSUME Typed, Spoken, Remark
    PROVE  Spoken'
<1>0. /\ Talking /\ UNCHANGED <<op, heard, final>> /\ op \in {"generate", "models", "signin"}
      /\ sent \in Seq(Messages) /\ Len(sent) \in Nat
      BY DEF Remark, serverFrame, caller, Typed, QueuesTyped, CallerTyped, Talking, Waiting,
             Writing
<1>1. Remarks[op] \subseteq Values BY <1>0 DEF Remarks, Values
<1>2. PICK value \in Remarks[op], text \in Blanks :
          /\ value # "other" => turn = "open"
          /\ sent' = Append(sent, Note(value, text))
          /\ said' = IF value = "final" THEN text ELSE said
          /\ turn' = IF value \in Ends THEN "over" ELSE turn
      BY DEF Remark, Blanks
<1> DEFINE m == Note(value, text)
<1>3. m \in Messages /\ m.value = value /\ m.text = text /\ sent' = Append(sent, m)
      BY <1>1, <1>2, MessagesAreMessages DEF Note, Message
<1> HIDE DEF m
<1>4. /\ Len(sent') = Len(sent) + 1 /\ sent'[Len(sent) + 1] = m
      /\ \A i \in 1..Len(sent) : sent'[i] = sent[i]
      BY <1>0, <1>3, AppendProperties
<1>5. /\ heard \in Nat /\ heard <= Len(sent)
      /\ LastFinal(sent, heard, final)
      /\ LastFinal(sent, Len(sent), said)
      /\ EndsLast
      /\ op = "generate" => \A i \in 1..Len(sent) : sent[i].value # "success"
      BY <1>0 DEF Spoken
<1>6. heard' \in Nat /\ heard' <= Len(sent') BY <1>0, <1>4, <1>5
<1>7. LastFinal(sent', heard', final')
  <2>1. \A i \in 1..heard : sent'[i] = sent[i] BY <1>0, <1>4, <1>5
  <2>2. LastFinal(sent', heard, final) BY <1>5, <2>1, LastFinalStays
  <2> QED BY <1>0, <2>2
<1>8. LastFinal(sent', Len(sent'), said')
  <2>1. LastFinal(sent', Len(sent), said) BY <1>0, <1>4, <1>5, LastFinalStays
  <2>2. CASE value = "final"
    <3>1. sent'[Len(sent) + 1].value = "final" /\ said' = sent'[Len(sent) + 1].text
          BY <1>2, <1>3, <1>4, <2>2
    <3>2. LastFinal(sent', Len(sent) + 1, said') BY <1>0, <3>1, OneLastFinal
    <3> QED BY <1>4, <3>2
  <2>3. CASE value # "final"
    <3>1. sent'[Len(sent) + 1].value # "final" /\ said' = said BY <1>2, <1>3, <1>4, <2>3
    <3>2. LastFinal(sent', Len(sent) + 1, said') BY <1>0, <2>1, <3>1, OneLastFinal
    <3> QED BY <1>4, <3>2
  <2> QED BY <2>2, <2>3
<1>9. ASSUME NEW i \in 1..Len(sent'), sent'[i].value \in Ends
      PROVE  turn' = "over" /\ \A j \in (i + 1)..Len(sent') : sent'[j].value = "other"
  <2>1. CASE i \in 1..Len(sent)
    <3>1. turn = "over" /\ \A j \in (i + 1)..Len(sent) : sent[j].value = "other"
          BY <1>4, <1>5, <1>9, <2>1 DEF EndsLast
    <3>2. value = "other" /\ turn' = turn BY <1>2, <3>1 DEF Ends
    <3>3. ASSUME NEW j \in (i + 1)..Len(sent') PROVE sent'[j].value = "other"
      <4>1. CASE j \in (i + 1)..Len(sent)
        <5>1. j \in 1..Len(sent) BY <1>0, <4>1
        <5> QED BY <1>4, <3>1, <4>1, <5>1
      <4>2. CASE j = Len(sent) + 1 BY <1>3, <1>4, <3>2, <4>2
      <4>3. j \in (i + 1)..Len(sent) \/ j = Len(sent) + 1 BY <1>0, <1>4
      <4> QED BY <4>1, <4>2, <4>3
    <3> QED BY <3>1, <3>2, <3>3
  <2>2. CASE i = Len(sent) + 1
    <3>1. turn' = "over" BY <1>2, <1>3, <1>4, <1>9, <2>2
    <3>2. (i + 1)..Len(sent') = {} BY <1>0, <1>4, <2>2
    <3> QED BY <3>1, <3>2
  <2> QED BY <1>0, <1>4, <2>1, <2>2
<1>b. EndsLast' BY <1>9 DEF EndsLast
<1>10. ASSUME op' = "generate", NEW i \in 1..Len(sent') PROVE sent'[i].value # "success"
  <2>1. value # "success" BY <1>0, <1>2, <1>10 DEF Remarks
  <2>2. CASE i \in 1..Len(sent) BY <1>0, <1>4, <1>5, <1>10, <2>2
  <2>3. CASE i = Len(sent) + 1 BY <1>3, <1>4, <2>1, <2>3
  <2> QED BY <1>0, <1>4, <2>2, <2>3
<1> QED BY <1>6, <1>7, <1>8, <1>b, <1>10 DEF Spoken

\* The inductive invariant.
Final == NotesFit /\ Protocol /\ Spoken /\ Concluded

\* A step that ends the talk with anything else.
LEMMA FinalOver ==
    ASSUME NotesFit', pc' = "term" => outcome'.kind \notin {"text", "optimization"}, ~Talking'
    PROVE  Final'
BY ProtocolOver DEF Final, Spoken, Concluded

\* The caller's steps.
LEMMA CallerIsFinal ==
    ASSUME Typed, Clean, Final, CallerStep, NotesFit'
    PROVE  Final'
<1>0. QueuesTyped /\ NotesFit /\ Protocol /\ Spoken BY DEF Typed, Final
<1>1. CASE Term \/ Reap \/ Join \/ Kill \/ Streams
  <2>1. pc' \in {"reap", "join", "kill", "streams", "over"}
        BY <1>1 DEF Term, Reap, Join, Kill, Streams
  <2> QED BY <2>1, FinalOver DEF Talking, Waiting, Writing
<1>2. CASE HearKept \/ HearNew BY <1>0, <1>2, HearingFits DEF Final
<1>3. CASE Call \/ Flush \/ Check \/ GetNothing \/ GetBroken \/ GetTool \/ GetOther \/ KeepNote
  <2>1. /\ Talking /\ UNCHANGED <<op, heard, final, sent, said, turn>>
        BY <1>3 DEF Call, Flush, Check, GetNothing, GetBroken, GetTool, GetOther, KeepNote, Receives,
                    Talking, Waiting, Writing, server
  <2>2. Spoken' BY <1>0, <2>1, SpokenStays
  <2>3. Protocol' BY <1>0, <1>3, CallFits, RefusalFits, WaitFits
  <2>4. pc' = "term" => outcome'.kind = "config"
        BY <1>3 DEF Call, Flush, Check, GetNothing, GetBroken, GetTool, GetOther, KeepNote, Receives,
                    Write, Writing, Behind, WriteFails, Raise, Leave, Again, Outcome
  <2> QED BY <2>2, <2>3, <2>4 DEF Final, Concluded
<1>4. CASE GetReply
  <2>1. /\ Talking /\ UNCHANGED <<heard, final, sent, said, turn>> /\ op' \in {op, "models"}
        BY <1>4 DEF GetReply, Talking, Waiting, Writing, server, Proceed
  <2>2. Spoken' BY <1>0, <2>1, SpokenStays
  <2>3. Protocol' BY <1>0, <1>4, ReplyFits
  <2>4. pc' = "term" => outcome'.kind \in {"config", "models"}
        BY <1>4 DEF GetReply, Proceed, Ask, Raise, Leave, Outcome
  <2> QED BY <2>2, <2>3, <2>4 DEF Final, Concluded
<1> QED BY <1>1, <1>2, <1>3, <1>4 DEF CallerStep

\* The server's.
LEMMA ServerIsFinal ==
    ASSUME Typed, Final, ServerStep, NotesFit'
    PROVE  Final'
<1>0. NotesFit /\ Protocol /\ Spoken BY DEF Final
<1>1. Protocol' BY <1>0, ServerFits
<1>2. /\ Talking /\ pc' = pc /\ UNCHANGED <<op, heard, final>>
      BY DEF ServerStep, Accept, Answer, Remark, AskTool, Fault, serverFrame, caller
<1>3. Concluded' BY <1>2 DEF Talking, Waiting, Writing, Concluded
<1>4. Spoken'
  <2>1. CASE Remark BY <1>0, <2>1, SayingFits
  <2>2. CASE Accept
    <3>1. UNCHANGED <<sent, said>> BY <2>2 DEF Accept
    <3>2. CASE Head(input).value \in Begins
      <4>1. input \in Seq(Messages) /\ input # <<>> BY <2>2 DEF Accept, Typed, QueuesTyped
      <4>2. ~NoneOf(input) BY <3>2, <4>1, ElementsOf DEF NoneOf
      <4>3. turn = "none" BY <1>0, <1>2, <4>2 DEF Protocol, Begun
      <4> QED BY <1>0, <1>2, <3>1, <4>3, SpokenStays DEF Talking, Waiting, Writing
    <3>3. CASE Head(input).value \notin Begins
      <4>1. turn' = turn \/ turn = "blocked" BY <2>2, <3>3 DEF Accept, Begins
      <4> QED BY <1>0, <1>2, <3>1, <4>1, SpokenStays DEF Talking, Waiting, Writing
    <3> QED BY <3>2, <3>3
  <2>3. CASE Answer \/ AskTool \/ Fault
    <3>1. UNCHANGED <<sent, said>> /\ (turn' = turn \/ turn = "open")
          BY <2>3 DEF Answer, AskTool, Fault
    <3> QED BY <1>0, <1>2, <3>1, SpokenStays DEF Talking, Waiting, Writing
  <2> QED BY <2>1, <2>2, <2>3 DEF ServerStep
<1> QED BY <1>1, <1>3, <1>4 DEF Final

\* Every step of the system.
LEMMA NextIsFinal ==
    ASSUME Typed, Clean, Final, [Next]_vars
    PROVE  Final'
<1>0. QueuesTyped /\ NotesFit /\ Protocol /\ Spoken /\ Concluded /\ NotesFit'
      BY NextInOrder DEF Typed, Final
<1>1. ASSUME UNCHANGED cxVars PROVE Final'
  <2>1. /\ UNCHANGED <<pc, op, method, nextId, input, serving, turn, messages, lines, heard, final,
                        sent, said, outcome>>
        BY <1>1 DEF cxVars, caller, server
  <2>2. Coming' = Coming BY <2>1 DEF Coming
  <2>3. CASE Talking
    <3>1. Talking' BY <2>1, <2>3 DEF Talking, Waiting, Writing
    <3>2. Protocol' BY <1>0, <2>1, <2>2, <2>3, ProtocolStays
    <3>3. Spoken' BY <1>0, <2>1, <2>3, SpokenStays
    <3> QED BY <1>0, <2>1, <3>2, <3>3 DEF Final, Concluded
  <2>4. CASE ~Talking
    <3>1. ~Talking' BY <2>1, <2>4 DEF Talking, Waiting, Writing
    <3> QED BY <1>0, <2>1, <3>1, ProtocolOver DEF Final, Spoken, Concluded
  <2> QED BY <2>3, <2>4
<1>2. CASE Optimize \/ Answered \/ Failed \/ UNCHANGED vars
      BY <1>1, <1>2 DEF Optimize, Answered, Failed, vars
<1>3. ASSUME NEW o \in {"generate", "models", "signin"}, Open(o) \/ Missing(o) PROVE Final'
  <2>1. CASE Missing(o)
    <3>1. pc' = "over" BY <2>1 DEF Missing
    <3> QED BY <1>0, <3>1, FinalOver DEF Talking, Waiting, Writing
  <2>2. CASE Open(o)
    <3>1. /\ pc = "idle" /\ Fresh /\ pc' = "call" /\ op' = o /\ method' = "initialize"
          /\ UNCHANGED <<nextId, input, messages, lines, serving, turn, heard, final, sent, said>>
          BY <1>0, <2>2 DEF Open, NotesFit, server
    <3>2. <<>> \in Seq(Messages) /\ Elements(<<>>) = {} /\ Len(<<>>) = 0
          BY EmptySeq, ElementsOf
    <3>3. /\ Elements(input') = {} /\ Coming' = {} /\ serving'.id = 0 /\ nextId' = 0
          /\ turn' = "none" /\ ~Replying' /\ ~Hearing'
          BY <3>1, <3>2 DEF Fresh, Coming, NoRequest, Message, Replying, Hearing
    <3>4. Asked' BY <3>1, <3>3 DEF Asked, Methods
    <3>5. Begun'
      <4>1. NoneOf(input') BY <3>3 DEF NoneOf
      <4>2. AtMostOne(input')
        <5>1. input' = <<>> BY <3>1 DEF Fresh
        <5>2. NoneOf(<<>>) BY <4>1, <5>1
        <5>3. AtMostOne(<<>>) BY <3>2, <5>2, OneBegins
        <5> QED BY <5>1, <5>3
      <4> QED BY <3>3, <4>1, <4>2 DEF Begun
    <3>6. Numbered' BY <3>3 DEF Numbered
    <3>7. Protocol' BY <3>3, <3>4, <3>5, <3>6 DEF Protocol, Matched
    <3>8. Spoken'
      <4>1. sent' = <<>> /\ heard' = 0 /\ final' = None /\ said' = None BY <3>1 DEF Fresh
      <4>2. LastFinal(<<>>, 0, None) BY DEF LastFinal
      <4>3. EndsLast' BY <3>2, <4>1 DEF EndsLast
      <4> QED BY <3>2, <4>1, <4>2, <4>3 DEF Spoken
    <3>9. Concluded' BY <3>1 DEF Concluded
    <3> QED BY <1>0, <3>7, <3>8, <3>9 DEF Final
  <2> QED BY <1>3, <2>1, <2>2
<1>4. CASE Discover \/ OpenSession BY <1>3, <1>4 DEF Discover, OpenSession
<1>5. CASE SessionOver \/ Done
  <2>1. pc' = "idle" BY <1>5 DEF SessionOver, Done, Forget
  <2> QED BY <1>0, <2>1, FinalOver DEF Talking, Waiting, Writing
<1>6. CASE CallerStep BY <1>0, <1>6, CallerIsFinal
<1>7. CASE ReaderStep
  <2>1. Protocol' BY <1>0, <1>7, ReaderFits
  <2>2. UNCHANGED <<pc, op, outcome, heard, final, sent, said, turn>>
        BY <1>7 DEF ReaderStep, ReadLine, ReadEnd, readerFrame, caller, server
  <2>3. Spoken' BY <1>0, <2>2, SpokenStays DEF Talking, Waiting, Writing
  <2>4. Concluded' BY <1>0, <2>2 DEF Concluded
  <2> QED BY <1>0, <2>1, <2>3, <2>4 DEF Final
<1>8. CASE ServerStep BY <1>0, <1>8, ServerIsFinal
<1>9. CASE Expire \/ Cancel
  <2>1. /\ Talking
        /\ UNCHANGED <<pc, op, method, nextId, input, serving, turn, messages, lines, heard, final,
                        sent, said, outcome>>
        BY <1>9 DEF Expire, Cancel, caller, server, Talking, Waiting, Writing
  <2>2. Coming' = Coming BY <2>1 DEF Coming
  <2>3. Protocol' BY <1>0, <2>1, <2>2, ProtocolStays
  <2>4. Spoken' BY <1>0, <2>1, SpokenStays
  <2> QED BY <1>0, <2>1, <2>3, <2>4 DEF Final, Concluded
<1> QED BY <1>2, <1>4, <1>5, <1>6, <1>7, <1>8, <1>9
        DEF Next, ThreadStep, AdapterStep, OtherStep

\* For every server and every number of notifications: the end of a turn or a
\* login is waited for once it has begun, the text of a session is the last
\* final message before that end, and a turn is only reported to be without a
\* text, or to have failed, when it was (codex_client.py:239-250 and 370-392).
THEOREM AnswersAreFinal == Spec => []AnswerIsFinal
<1>1. Init => Typed /\ Clean BY GenerationInit
<1>2. Init => Final
  <2>1. Init => NotesFit BY DEF Init, CodexInit, NotesFit, Fresh, Talking, Waiting, Writing
  <2>2. Init => pc = "idle" BY DEF Init, CodexInit
  <2> QED BY <2>1, <2>2
          DEF Final, Talking, Waiting, Writing, Calling, Replying, Hearing, Protocol, Asked, Begun,
              Numbered, Matched, Spoken, Concluded
<1>3. Final => AnswerIsFinal
      BY DEF Final, Protocol, Begun, Hearing, Concluded, AnswerIsFinal
<1> QED BY <1>1, <1>2, <1>3, NextIsTyped, NextIsClean, NextIsFinal, PTL DEF Spec
=============================================================================
