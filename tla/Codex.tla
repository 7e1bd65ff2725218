------------------------------- MODULE Codex -------------------------------
(***************************************************************************)
(* One session with the Codex app server (CodexClient of                   *)
(* src/pdo/core/codex_client.py): the caller's thread, the thread that     *)
(* reads the server's output, the queue between them, and the process      *)
(* tree the client owns.  The server is external: it answers the requests  *)
(* of this client and emits the notifications and requests of a turn in    *)
(* any order the client's code allows for.                                 *)
(***************************************************************************)
EXTENDS Naturals, Sequences

CONSTANTS
    None,
    Texts,      \* texts a model writes; None stands for a blank one
    MaxNotes,   \* notifications before the one that ends a turn or a login
    MaxPages,   \* pages of models the client asks for (10 in the code)
    MaxFaults   \* exits and malformed lines of the server

ASSUME CodexAssumption ==
    /\ None \notin Texts
    /\ MaxNotes \in Nat /\ MaxPages \in Nat \ {0} /\ MaxFaults \in Nat

VARIABLES
    \* the caller
    op,         \* what the session is for: generate, models or signin
    pc,         \* where the caller is in call, event, _send and close
    method,     \* the method of the last request
    nextId,     \* _next_id
    events,     \* _events: notifications kept while a call waited
    final,      \* final_text
    page,       \* pages of models read, and whether they had any
    expired,    \* the deadline of the current wait has passed
    cancel,     \* the event the desktop application sets when it closes
    unsent,     \* a write to the server failed and is still buffered
    outcome,    \* what the session returned or raised
    \* between the threads and the processes
    input,      \* the server's stdin
    lines,      \* its stdout
    messages,   \* _messages
    reader,     \* the reader thread
    main,       \* the process the client started
    child,      \* a descendant that holds stdin and stdout has outlived it
    \* the server
    serving,    \* the request it works on
    turn,       \* the turn, or the login, of this session
    faults

\* Auxiliary, no part of the program.
VARIABLES
    said,       \* the last final text of the turn
    sent,       \* all notifications, in order
    heard,      \* how many of them event() returned
    late        \* messages taken since the wait was cancelled or timed out

caller  == <<op, method, nextId, events, final, page, cancel, unsent, outcome>>
process == <<main, child>>
server  == <<serving, turn, faults, said, sent>>
cxVars  == <<caller, pc, expired, input, lines, messages, reader, process, server, heard, late>>
-----------------------------------------------------------------------------
Message(type, id, value, text) ==
    [type |-> type, id |-> id, value |-> value, text |-> text]

Note(value, text) == Message("note", 0, value, text)
Tool              == Message("tool", 0, "tool", None)
Garbage           == Message("garbage", 0, "garbage", None)
Broken            == Message("broken", 0, "broken", None)
NoRequest         == Message("none", 0, "none", None)

\* The notifications among some messages, in order.
Notes(s) ==
    LET among[n \in 0..Len(s)] ==
            IF n = 0 THEN <<>>
            ELSE IF s[n].type = "note" THEN Append(among[n - 1], s[n]) ELSE among[n - 1]
    IN  among[Len(s)]

NoPage == [read |-> 0, found |-> FALSE]

Outcome(kind, text) == [kind |-> kind, text |-> text]

\* What the server may answer: a ChatGPT account or another one, a sign-in
\* address of OpenAI or another one, a page with models (more, some) or without
\* (bare, nothing) and with a cursor (more, bare) or without.
Answers(what) ==
    CASE what \in {"account/read", "account/login/start"} -> {"yes", "no", "error"}
      [] what = "model/list"                              -> {"more", "some", "bare", "nothing", "error"}
      [] OTHER                                            -> {"yes", "error"}

\* What it may say of a turn and of a login: final is a final message of the
\* turn, other a commentary or an event of another thread, login or kind.
Remarks == [generate |-> {"final", "other", "done", "failed"},
            signin   |-> {"other", "success", "refused"},
            models   |-> {"other"}]

Alive    == main = "running" \/ child
Waiting  == pc \in {"reply", "reply_get", "event", "event_get"}

\* Where the caller is held in a write: of initialized, of a request, or of a
\* refusal while it waits for a reply or a notification.
Writing  == pc \in {"call_held", "ask_held", "reply_held", "event_held"}
Talking  == Waiting \/ Writing \/ pc = "call"

CodexInit ==
    /\ op = "none" /\ pc = "idle" /\ method = "none" /\ nextId = 0
    /\ events = <<>> /\ final = None /\ page = NoPage
    /\ expired = FALSE /\ cancel = FALSE /\ unsent = FALSE /\ outcome = Outcome("none", None)
    /\ input = <<>> /\ lines = <<>> /\ messages = <<>>
    /\ reader = "none" /\ main = "none" /\ child = FALSE
    /\ serving = NoRequest /\ turn = "none" /\ faults = 0
    /\ said = None /\ sent = <<>> /\ heard = 0 /\ late = 0

\* Nobody looks any more at what the caller and the server had in hand, or at
\* the messages the reader still puts into the queue.
Drop ==
    /\ method' = "none" /\ nextId' = 0
    /\ events' = <<>> /\ final' = None /\ page' = NoPage
    /\ expired' = FALSE /\ cancel' = FALSE
    /\ input' = <<>> /\ messages' = <<>>
    /\ serving' = NoRequest /\ turn' = "none"
    /\ said' = None /\ sent' = <<>> /\ heard' = 0 /\ late' = 0

\* Every session is an object of its own: its process goes with it.
Forget ==
    /\ Drop
    /\ lines' = <<>>
    /\ op' = "none" /\ pc' = "idle" /\ unsent' = FALSE /\ outcome' = Outcome("none", None)
    /\ reader' = "none" /\ main' = "none" /\ child' = FALSE
    /\ UNCHANGED faults
-----------------------------------------------------------------------------
(***************************************************************************)
(* Opening: __init__ and __enter__                                         *)
(***************************************************************************)

\* No executable, or Popen fails: there is no process to close.
Missing(o) ==
    /\ pc = "idle"
    /\ op' = o
    /\ outcome' = Outcome("config", None)
    /\ pc' = "over"
    /\ UNCHANGED <<method, nextId, events, final, page, cancel, unsent, expired, input, lines,
                   messages, reader, process, server, heard, late>>

Open(o) ==
    /\ pc = "idle"
    /\ op' = o /\ method' = "initialize" /\ pc' = "call"
    /\ reader' = "reading" /\ main' = "running"
    /\ UNCHANGED <<child, nextId, events, final, page, cancel, unsent, outcome, expired, input, lines,
                   messages, server, heard, late>>
-----------------------------------------------------------------------------
(***************************************************************************)
(* Requests: call, _send and _receive                                      *)
(***************************************************************************)

\* An exception or a return leaves the with block through close().
Leave(kind, text) == outcome' = Outcome(kind, text) /\ pc' = "term"

Raise(kind) == Leave(kind, None)

Behind(held) == CASE held = "call_held"                  -> "call"
                  [] held \in {"ask_held", "reply_held"} -> "reply"
                  [] held = "event_held"                 -> "event"

\* A write returns at once, or the pipe is full and it waits for the server to
\* read, with no deadline of its own and deaf to cancellation.
Write(m, held) ==
    /\ Alive
    /\ input' = Append(input, m)
    /\ pc' \in {held, Behind(held)}
    /\ UNCHANGED <<unsent, outcome>>

\* It fails when nobody can read it any more, and stays in the buffer.
WriteFails == ~Alive /\ Raise("config") /\ unsent' = TRUE /\ UNCHANGED input

Flush ==
    /\ Writing
    /\ \/ input = <<>> /\ pc' = Behind(pc) /\ UNCHANGED <<unsent, outcome, input>>
       \/ input # <<>> /\ WriteFails
    /\ UNCHANGED <<op, method, nextId, events, final, page, cancel, expired, lines, messages,
                   reader, process, server, heard, late>>

\* The deadline is taken after the write; initialized has no reply.
Call ==
    /\ pc = "call"
    /\ \/ /\ method = "initialized"
          /\ \/ /\ Write(Message("request", 0, method, None), "call_held")
                /\ method' = IF op = "signin" THEN "account/login/start" ELSE "account/read"
             \/ WriteFails /\ UNCHANGED method
          /\ UNCHANGED <<nextId, expired, late>>
       \/ /\ method # "initialized"
          /\ nextId' = nextId + 1
          /\ \/ /\ Write(Message("request", nextId', method, None), "ask_held")
                /\ expired' = FALSE
                /\ late' = IF cancel THEN late ELSE 0
             \/ WriteFails /\ UNCHANGED <<expired, late>>
          /\ UNCHANGED method
    /\ UNCHANGED <<op, events, final, page, cancel, lines, messages, reader, process, server, heard>>

\* Defect: the deadline is not looked at.
StopsOnCancel == cancel

\* Defect: cancellation is not looked at.
StopsOnTime == expired

\* _check_wait: cancellation and the deadline come before any message.
Stops == cancel \/ expired

Check ==
    /\ pc \in {"reply", "event"}
    /\ IF Stops
       THEN Raise("config")
       ELSE pc' = (IF pc = "reply" THEN "reply_get" ELSE "event_get") /\ UNCHANGED outcome
    /\ UNCHANGED <<op, method, nextId, events, final, page, cancel, unsent, expired, input, lines,
                   messages, reader, process, server, heard, late>>

Again == pc' = (IF pc = "reply_get" THEN "reply" ELSE "event") /\ UNCHANGED outcome

Taken == late' = IF cancel \/ expired THEN late + 1 ELSE late

\* Nothing within 0.2 seconds.
GetNothing ==
    /\ \/ pc = "reply_get"
       \/ pc = "event_get" /\ events = <<>>
    /\ messages = <<>>
    /\ Again
    /\ UNCHANGED <<op, method, nextId, events, final, page, cancel, unsent, expired, input, lines,
                   messages, reader, process, server, heard, late>>

\* The next message of the queue, in _receive.
Receives(type) ==
    /\ \/ pc = "reply_get"
       \/ pc = "event_get" /\ events = <<>>
    /\ messages # <<>>
    /\ Head(messages).type = type
    /\ messages' = Tail(messages)

\* The reader put an exception into the queue.
GetBroken ==
    /\ Receives("broken")
    /\ Taken
    /\ Raise("config")
    /\ UNCHANGED <<op, method, nextId, events, final, page, cancel, unsent, expired, input, lines,
                   reader, process, server, heard>>

\* A request of the server is refused.
GetTool ==
    /\ Receives("tool")
    /\ Taken
    /\ \/ Write(Message("refusal", 0, "refusal", None),
                IF pc = "reply_get" THEN "reply_held" ELSE "event_held")
       \/ WriteFails
    /\ UNCHANGED <<op, method, nextId, events, final, page, cancel, expired, lines, reader,
                   process, server, heard>>

Ask(what) == method' = what /\ pc' = "call" /\ UNCHANGED outcome

\* What the caller does with the result of its request.
Proceed(value) ==
    IF value = "error" THEN Raise("config") /\ UNCHANGED <<op, method, page>>
    ELSE CASE method = "initialize" -> Ask("initialized") /\ UNCHANGED <<op, page>>
           [] method \in {"account/read", "account/login/start"} /\ value = "no" ->
                 Raise("config") /\ UNCHANGED <<op, method, page>>
           [] method = "account/read" /\ value = "yes" ->
                 /\ Ask(CASE op = "generate" -> "thread/start"
                            [] op = "models"   -> "model/list"
                            [] op = "signin"   -> "account/read")
                 /\ op' = IF op = "signin" THEN "models" ELSE op
                 /\ UNCHANGED page
           [] method = "thread/start" -> Ask("turn/start") /\ UNCHANGED <<op, page>>
           [] method = "model/list" ->
                 /\ page' = [read  |-> page.read + 1,
                             found |-> page.found \/ value \in {"more", "some"}]
                 /\ CASE value \in {"more", "bare"} /\ page'.read < MaxPages -> Ask("model/list")
                      [] ~(value \in {"more", "bare"} /\ page'.read < MaxPages) /\ page'.found ->
                             Leave("models", None) /\ UNCHANGED method
                      [] OTHER -> Raise("config") /\ UNCHANGED method
                 /\ UNCHANGED op
           [] OTHER -> pc' = "event" /\ UNCHANGED <<op, method, page, outcome>>

IsReply(m) == m.id = nextId

\* The reply to this request; the deadline of a turn or a login begins.
GetReply ==
    /\ pc = "reply_get"
    /\ Receives("reply")
    /\ IsReply(Head(messages))
    /\ Proceed(Head(messages).value)
    /\ expired' = FALSE
    /\ late' = IF cancel THEN late + 1 ELSE 0
    /\ UNCHANGED <<nextId, events, final, cancel, unsent, input, lines, reader, process, server,
                   heard>>

\* The reply to another request is dropped.
GetOther ==
    /\ Receives("reply")
    /\ pc = "reply_get" => ~IsReply(Head(messages))
    /\ Taken
    /\ Again
    /\ UNCHANGED <<op, method, nextId, events, final, page, cancel, unsent, expired, input, lines,
                   reader, process, server, heard>>

\* Defect: a call throws notifications away.
KeepNoteDrops ==
    /\ pc = "reply_get"
    /\ Receives("note")
    /\ Taken
    /\ Again
    /\ UNCHANGED <<op, method, nextId, events, final, page, cancel, unsent, expired, input, lines,
                   reader, process, server, heard>>

\* A notification that arrives during a call is kept.
KeepNote ==
    /\ pc = "reply_get"
    /\ Receives("note")
    /\ events' = Append(events, Head(messages))
    /\ Taken
    /\ Again
    /\ UNCHANGED <<op, method, nextId, final, page, cancel, unsent, expired, input, lines,
                   reader, process, server, heard>>
-----------------------------------------------------------------------------
(***************************************************************************)
(* Notifications: event, and the loops of generate and login               *)
(***************************************************************************)

\* Defect: the first final message is kept.
FirstText(m) == IF m.value = "final" /\ final = None THEN m.text ELSE final

LastText(m) == IF m.value = "final" THEN m.text ELSE final

Hear(m) ==
    /\ heard' = heard + 1
    /\ final' = LastText(m)
    /\ CASE m.value = "done" ->
              /\ IF final = None THEN Raise("optimization") ELSE Leave("text", final)
              /\ UNCHANGED method
         [] m.value = "failed"  -> Raise("optimization") /\ UNCHANGED method
         [] m.value = "refused" -> Raise("config") /\ UNCHANGED method
         [] m.value = "success" -> Ask("account/read")
         [] OTHER               -> Again /\ UNCHANGED method

HearKept ==
    /\ pc = "event_get"
    /\ events # <<>>
    /\ Hear(Head(events))
    /\ events' = Tail(events)
    /\ Taken
    /\ UNCHANGED <<op, nextId, page, cancel, unsent, expired, input, lines, messages, reader,
                   process, server>>

HearNew ==
    /\ pc = "event_get"
    /\ Receives("note")
    /\ Taken
    /\ Hear(Head(messages))
    /\ UNCHANGED <<op, nextId, events, page, cancel, unsent, expired, input, lines, reader,
                   process, server>>
-----------------------------------------------------------------------------
(***************************************************************************)
(* close(): the whole process group, then the reader, then the streams     *)
(***************************************************************************)

\* The executable may be a launcher with the server as its child; any of them
\* may ignore a signal to the group that asks it to end.
Outlived == child' \in {FALSE, main = "running" \/ child}

\* SIGTERM to the group.  Of the lines left, a malformed one ends the reader.
Term ==
    /\ pc = "term"
    /\ main' \in IF main = "running" THEN {"running", "exited"} ELSE {main}
    /\ Outlived
    /\ pc' = "reap"
    /\ Drop
    /\ lines' = IF \E n \in DOMAIN lines : lines[n] = Garbage THEN <<Garbage>> ELSE <<>>
    /\ UNCHANGED <<op, unsent, outcome, reader, faults>>

\* poll, terminate, wait for five seconds, kill, wait.
Reap ==
    /\ pc = "reap"
    /\ main' = "reaped"
    /\ pc' = "join"
    /\ UNCHANGED <<caller, expired, input, lines, messages, reader, child, server, heard, late>>

\* Defect: a reader that has not ended is left behind.
JoinGivesUp ==
    /\ pc = "join"
    /\ pc' = "streams"
    /\ UNCHANGED <<caller, expired, input, lines, messages, reader, process, server, heard, late>>

\* The reader has one second to see the end of the output.
Join ==
    /\ pc = "join"
    /\ pc' = IF reader = "reading" THEN "kill" ELSE "streams"
    /\ UNCHANGED <<caller, expired, input, lines, messages, reader, process, server, heard, late>>

\* SIGKILL to the group, and another second.
Kill ==
    /\ pc = "kill"
    /\ child' = FALSE
    /\ pc' = "streams"
    /\ UNCHANGED <<caller, expired, input, lines, messages, reader, main, server, heard, late>>

\* Closing stdin writes what is still buffered: nobody reads it, and the
\* BrokenPipeError replaces the exception that led here.  (stdout is closed by
\* the reader.)
Streams ==
    /\ pc = "streams"
    /\ outcome' = IF unsent THEN Outcome("pipe", None) ELSE outcome
    /\ pc' = "over"
    /\ UNCHANGED <<op, method, nextId, events, final, page, cancel, unsent, expired, input, lines,
                   messages, reader, process, server, heard, late>>
-----------------------------------------------------------------------------
(***************************************************************************)
(* The reader thread: _read_messages                                       *)
(***************************************************************************)

Put(ms) == messages' = IF Talking THEN messages \o ms ELSE <<>>

readerFrame == <<caller, pc, expired, input, process, server, heard, late>>

\* A line that is no JSON object ends the reader.
ReadLine ==
    /\ reader = "reading"
    /\ lines # <<>>
    /\ lines' = Tail(lines)
    /\ IF Head(lines).type = "garbage"
       THEN Put(<<Broken, Broken>>) /\ reader' = "failed"
       ELSE Put(<<Head(lines)>>) /\ UNCHANGED reader
    /\ UNCHANGED readerFrame

ReadEnd ==
    /\ reader = "reading"
    /\ lines = <<>> /\ ~Alive
    /\ Put(<<Broken>>)
    /\ reader' = "ended"
    /\ UNCHANGED <<lines, readerFrame>>
-----------------------------------------------------------------------------
(***************************************************************************)
(* The environment: time, the desktop application and the server.  Nobody  *)
(* hears what a server says once it is being stopped.                      *)
(***************************************************************************)

\* The deadline of a request is taken behind its write.
Expire ==
    /\ Waiting \/ pc \in {"reply_held", "event_held"}
    /\ ~expired
    /\ expired' = TRUE
    /\ UNCHANGED <<caller, pc, input, lines, messages, reader, process, server, heard, late>>

\* Only the sessions of the desktop application have an event to cancel them.
Cancel ==
    /\ op \in {"models", "signin"} /\ Talking /\ ~cancel
    /\ cancel' = TRUE
    /\ UNCHANGED <<op, pc, method, nextId, events, final, page, unsent, outcome, expired, input,
                   lines, messages, reader, process, server, heard, late>>

serverFrame == <<caller, pc, expired, messages, reader, heard, late>>

Accept ==
    /\ Talking /\ Alive /\ serving = NoRequest /\ input # <<>>
    /\ input' = Tail(input)
    /\ LET m == Head(input)
           begins == m.value \in {"turn/start", "account/login/start"} IN
       /\ serving' = IF m.type = "request" /\ m.id > 0 THEN m ELSE NoRequest
       /\ turn' = CASE begins -> "open"
                    [] m.type = "refusal" /\ turn = "blocked" -> "open"
                    [] OTHER -> turn
    /\ UNCHANGED <<lines, process, faults, said, sent, serverFrame>>

\* A reply to nothing may come first.
Answer ==
    /\ Talking /\ Alive /\ serving # NoRequest
    /\ \/ /\ \E value \in Answers(serving.value) :
                 lines' = Append(lines, Message("reply", serving.id, value, None))
          /\ serving' = NoRequest
          /\ UNCHANGED faults
       \/ /\ faults < MaxFaults
          /\ faults' = faults + 1
          /\ lines' = Append(lines, Message("reply", 0, "yes", None))
          /\ UNCHANGED serving
    /\ UNCHANGED <<input, process, turn, said, sent, serverFrame>>

Ends == {"done", "failed", "success", "refused"}

\* Notifications that are none of a turn or a login may come at any time.
Remark ==
    /\ Talking /\ Alive
    /\ \E value \in Remarks[op], text \in Texts \cup {None} :
           /\ value # "other" => turn = "open"
           /\ value # "final" => text = None
           /\ value \notin Ends => Len(sent) < MaxNotes
           /\ sent' = Append(sent, Note(value, text))
           /\ lines' = Append(lines, Note(value, text))
           /\ said' = IF value = "final" THEN text ELSE said
           /\ turn' = IF value \in Ends THEN "over" ELSE turn
    /\ UNCHANGED <<input, process, serving, faults, serverFrame>>

\* The server asks for a permission and waits for the answer.
AskTool ==
    /\ Talking /\ Alive /\ turn = "open" /\ op = "generate"
    /\ lines' = Append(lines, Tool)
    /\ turn' = "blocked"
    /\ UNCHANGED <<input, process, serving, faults, said, sent, serverFrame>>

\* The process exits, with or without its child, or writes a malformed line.
Fault ==
    /\ Talking /\ Alive
    /\ faults < MaxFaults
    /\ faults' = faults + 1
    /\ \/ /\ main' = IF main = "running" THEN "exited" ELSE main
          /\ Outlived
          /\ UNCHANGED lines
       \/ lines' = Append(lines, Garbage) /\ UNCHANGED process
    /\ UNCHANGED <<input, serving, turn, said, sent, serverFrame>>
-----------------------------------------------------------------------------
CallerStep ==
    \/ Call \/ Flush \/ Check \/ GetNothing \/ GetBroken \/ GetTool \/ GetReply \/ GetOther \/ KeepNote
    \/ HearKept \/ HearNew
    \/ Term \/ Reap \/ Join \/ Kill \/ Streams

ReaderStep == ReadLine \/ ReadEnd

ServerStep == Accept \/ Answer \/ Remark \/ AskTool \/ Fault
=============================================================================
