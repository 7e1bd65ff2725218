---------------------------- MODULE WindowProofs ----------------------------
(***************************************************************************)
(* Safety of the main window against statuses that arrive late, for every  *)
(* number of jobs, crashes, gestures and dialogs.                          *)
(***************************************************************************)
EXTENDS WindowProperties, SequenceTheorems, TLAPS

-----------------------------------------------------------------------------
(***************************************************************************)
(* The status that is shown                                                *)
(***************************************************************************)

\* A status on its way that will be applied is not older than the one shown.
Current ==
    /\ seq \in Nat /\ status.seq \in Nat /\ status.seq <= seq
    /\ poll = [at |-> poll.at, fresh |-> poll.fresh, status |-> poll.status]
    /\ poll.at = "answered" /\ poll.fresh =>
           /\ poll.status.seq \in Nat
           /\ status.seq <= poll.status.seq /\ poll.status.seq <= seq

\* A status is applied at once, in whichever way it arrives.
LEMMA ReceiveApplies ==
    ASSUME NEW s, Receive(s)
    PROVE  status' = s
BY DEF Receive, Applies

\* The user's steps change neither the status nor a request in the pool.
LEMMA UserLeavesStatus ==
    ASSUME UserStep
    PROVE  UNCHANGED <<status, poll, polling>>
<1>1. CASE Browse \/ StartImport \/ ImportCorrections \/ RetryErrors \/ StartOptimization
      BY <1>1 DEF Browse, StartImport, ImportCorrections, RetryErrors, StartOptimization,
         gestureFrame, pollVars
<1>2. CASE TogglePause \/ OpenExport \/ StartExport \/ OpenSettings
      BY <1>2 DEF TogglePause, OpenExport, StartExport, OpenSettings, gestureFrame, pollVars
<1>3. CASE Navigate \/ LeaveSettings
      BY <1>3 DEF Navigate, LeaveSettings, turnFrame, pollVars
<1>4. CASE CloseMessage \/ CloseIncomplete \/ CloseQuestion
      BY <1>4 DEF CloseMessage, CloseIncomplete, CloseQuestion, dialogFrame, gestureFrame, pollVars
<1>5. CASE CloseProduct BY <1>5 DEF CloseProduct, productFrame, pollVars
<1>6. CASE CloseSource BY <1>6 DEF CloseSource, pollVars
<1>7. CASE CloseWindow \/ ShowFromTray \/ Quit
      BY <1>7 DEF CloseWindow, ShowFromTray, Quit, trayFrame, pollVars
<1> QED BY <1>1, <1>2, <1>3, <1>4, <1>5, <1>6, <1>7 DEF UserStep

\* The daemon's count of changes of its status.
LEMMA UserCounts ==
    ASSUME UserStep
    PROVE  seq' \in {seq, seq + 1}
<1>1. CASE UNCHANGED daemonVars \/ UNCHANGED serviceVars \/ UNCHANGED quiet
      BY <1>1 DEF daemonVars, serviceVars, quiet
<1>2. \A kind, retry, open : Request(kind, retry, open) => seq' \in {seq, seq + 1}
      BY DEF Request, Begin, Refused, daemonVars
<1>3. CASE StartImport \/ RetryErrors \/ StartOptimization
      BY <1>2, <1>3 DEF StartImport, RetryErrors, StartOptimization, Refused, quiet, daemonVars
<1>4. CASE TogglePause BY <1>4 DEF TogglePause, SetPaused, Refused, daemonVars
<1>5. CASE CloseQuestion BY <1>2, <1>5 DEF CloseQuestion, quiet, daemonVars
<1>6. CASE Quit BY <1>6 DEF Quit, daemonVars
<1>7. CASE Browse \/ ImportCorrections \/ OpenExport \/ StartExport \/ OpenSettings
      BY <1>1, <1>7 DEF Browse, ImportCorrections, OpenExport, StartExport, OpenSettings
<1>8. CASE Navigate \/ LeaveSettings BY <1>1, <1>8 DEF Navigate, LeaveSettings, turnFrame
<1>9. CASE CloseMessage \/ CloseIncomplete BY <1>1, <1>9 DEF CloseMessage, CloseIncomplete
<1>10. CASE CloseProduct BY <1>1, <1>10 DEF CloseProduct, productFrame
<1>11. CASE CloseSource BY <1>1, <1>11 DEF CloseSource
<1>12. CASE CloseWindow \/ ShowFromTray BY <1>1, <1>12 DEF CloseWindow, ShowFromTray
<1> QED BY <1>3, <1>4, <1>5, <1>6, <1>7, <1>8, <1>9, <1>10, <1>11, <1>12 DEF UserStep

\* Every step keeps what is on its way at least as new as what is shown, and
\* what is shown does not get older.
LEMMA NextIsCurrent ==
    ASSUME Current, [Next]_vars
    PROVE  Current' /\ status'.seq >= status.seq
<1>1. CASE UserStep BY <1>1, UserLeavesStatus, UserCounts DEF Current
<1>2. CASE SyncPoll
  <2>1. UNCHANGED seq BY <1>2 DEF SyncPoll, serviceVars, daemonVars
  <2>2. status' = Snapshot \/ status' = status BY <1>2, ReceiveApplies DEF SyncPoll
  <2>3. poll' = [at |-> poll.at, fresh |-> poll.at # "answered", status |-> poll.status]
        BY <1>2 DEF Current, SyncPoll
  <2>4. status'.seq \in {seq, status.seq} BY <2>2 DEF Snapshot
  <2>5. /\ poll' = [at |-> poll'.at, fresh |-> poll'.fresh, status |-> poll'.status]
        /\ ~(poll'.at = "answered" /\ poll'.fresh)
        BY <2>3
  <2>6. /\ seq' \in Nat /\ status'.seq \in Nat /\ status'.seq <= seq'
        /\ status'.seq >= status.seq
        BY <2>1, <2>4 DEF Current
  <2> QED BY <2>5, <2>6 DEF Current
<1>3. CASE ProductRead
      BY <1>3 DEF Current, ProductRead, productFrame, serviceVars, daemonVars, pollVars
<1>4. CASE PollFailed
      BY <1>4 DEF Current, PollFailed, receiveVars, pollFrame, serviceVars, daemonVars, NoPoll
<1>5. CASE PollDelivered
  <2>1. UNCHANGED seq /\ poll' = NoPoll BY <1>5 DEF PollDelivered, pollFrame, serviceVars, daemonVars
  <2>2. \/ poll.at = "answered" /\ poll.fresh /\ status' = poll.status
        \/ status' = status
        BY <1>5, ReceiveApplies DEF PollDelivered, IsFresh, receiveVars
  <2>3. /\ status'.seq \in Nat /\ status'.seq <= seq /\ status'.seq >= status.seq
        BY <2>2 DEF Current
  <2> QED BY <2>1, <2>3 DEF Current, NoPoll
<1>6. CASE TimerFires
  <2>1. UNCHANGED <<seq, status>> BY <1>6 DEF TimerFires, pollFrame, receiveVars, serviceVars, daemonVars
  <2>2. \/ poll' = [at |-> "answered", fresh |-> TRUE, status |-> Snapshot]
        \/ poll' = [at |-> "failed", fresh |-> TRUE, status |-> NoStatus]
        BY <1>6 DEF TimerFires, NoPoll
  <2> QED BY <2>1, <2>2 DEF Current, Snapshot
<1>7. CASE JobStep
      BY <1>7 DEF Current, JobStep, JobEnds, windowVars, pollVars
<1>8. CASE OtherStep
      BY <1>8 DEF Current, OtherStep, Crash, Restart, OtherJob, Begin, windowVars, pollVars
<1>9. CASE TrayChanges
      BY <1>9 DEF Current, TrayChanges, trayFrame, pollVars, daemonVars
<1>10. CASE UNCHANGED vars
       BY <1>10 DEF Current, vars, serviceVars, daemonVars, pollVars
<1> QED BY <1>1, <1>2, <1>3, <1>4, <1>5, <1>6, <1>7, <1>8, <1>9, <1>10
        DEF Next, HandlerStep, PollStep

\* For every order of requests, answers and crashes: the status shown never
\* gets older (app.py:1324-1347).
THEOREM NeverBack == Spec => StatusNeverGoesBack
<1>1. Init => Current
      BY DEF Init, ServiceInit, Current, NoPoll, NoStatus
<1>2. Current /\ [Next]_vars => Current' /\ [status'.seq >= status.seq]_vars
      BY NextIsCurrent
<1> QED BY <1>1, <1>2, PTL DEF Spec, StatusNeverGoesBack

-----------------------------------------------------------------------------
(***************************************************************************)
(* The result that answers an action                                       *)
(***************************************************************************)

\* A status without a job answers the action a: it has the result of the job
\* that was asked for, or of a later one, or is of another life of the daemon.
Answers(a, s) ==
    /\ s.last.n \in Nat
    /\ s.kind = "none" /\ s.crashes = a.crashes => s.last.n >= a.asked

Questions == {"replace", "correction", "export"}

\* The statuses that wait under a dialog do, and a question that will start an
\* action has nothing below it.
Tidy(a, ds) ==
    /\ \E S : ds \in Seq(S)
    /\ \A i \in 1..Len(ds) :
           /\ ds[i].what = "product" /\ ds[i].value.resumes => Answers(a, ds[i].value.status)
           /\ ds[i].what \in Questions => i = Len(ds)

\* All statuses the window may still apply answer its action.
Asked ==
    /\ jobs \in Nat /\ crashes \in Nat /\ last.n \in Nat
    /\ pending.asked \in Nat /\ pending.asked <= jobs
    /\ pending.crashes \in Nat /\ pending.crashes <= crashes
    /\ pending = NoAction \/ pending.kind \in Kinds \ {"none"}
    /\ job = NoJob \/ (job.kind # "none" /\ job.n = jobs)
    /\ ~closed /\ job = NoJob /\ crashes = pending.crashes => last.n >= pending.asked
    /\ closed => ui = "idle"
    /\ poll.at = "answered" /\ poll.fresh /\ ui # "poll" => Answers(pending, poll.status)
    /\ ui = "product" /\ held.resumes => Answers(pending, held.status)
    /\ Tidy(pending, dialogs)

\* One dialog more.
LEMMA PushIsTidy ==
    ASSUME NEW a, NEW d, NEW ds, Tidy(a, ds),
           d.what = "product" /\ d.value.resumes => Answers(a, d.value.status),
           d.what \in Questions => ds = <<>>
    PROVE  Tidy(a, <<d>> \o ds)
<1>1. PICK S : ds \in Seq(S) BY DEF Tidy
<1>2. PICK T : T = S \cup {d} OBVIOUS
<1>3. ds \in Seq(T) /\ <<d>> \in Seq(T)
  <2>1. \A i \in 1..Len(ds) : ds[i] \in T BY <1>1, <1>2
  <2> QED BY <1>1, <1>2, <2>1
<1>4. PICK es : es = <<d>> \o ds OBVIOUS
<1>5. /\ es \in Seq(T) /\ Len(es) = Len(ds) + 1 /\ Len(ds) \in Nat
      /\ es[1] = d /\ \A i \in 2..Len(es) : es[i] = ds[i - 1]
      BY <1>3, <1>4
<1>6. ASSUME NEW i \in 1..Len(es)
      PROVE  /\ es[i].what = "product" /\ es[i].value.resumes => Answers(a, es[i].value.status)
             /\ es[i].what \in Questions => i = Len(es)
  <2>1. CASE i = 1
    <3>1. d.what \in Questions => Len(ds) = 0 OBVIOUS
    <3> QED BY <1>5, <2>1, <3>1
  <2>2. CASE i # 1
    <3>1. i - 1 \in 1..Len(ds) /\ es[i] = ds[i - 1] BY <1>5, <1>6, <2>2
    <3> QED BY <1>5, <1>6, <3>1 DEF Tidy
  <2> QED BY <2>1, <2>2
<1>7. Tidy(a, es) BY <1>5, <1>6 DEF Tidy
<1> QED BY <1>4, <1>7

\* A dialog that is no product.
LEMMA OverIsTidy ==
    ASSUME NEW a, NEW d, NEW ds, Tidy(a, ds), d.what # "product", d.what \in Questions => ds = <<>>
    PROVE  Tidy(a, Over(d, ds))
BY PushIsTidy DEF Over

\* A dialog less.
LEMMA RestIsTidy ==
    ASSUME NEW a, NEW ds, Tidy(a, ds), ds # <<>>
    PROVE  Tidy(a, Tail(ds))
<1>1. PICK S : ds \in Seq(S) BY DEF Tidy
<1>2. PICK es : es = Tail(ds) OBVIOUS
<1>3. /\ es \in Seq(S) /\ Len(es) = Len(ds) - 1 /\ Len(ds) \in Nat /\ Len(ds) > 0
      /\ \A i \in 1..Len(es) : es[i] = ds[i + 1]
      BY <1>1, <1>2
<1>4. \A i \in 1..Len(es) : i + 1 \in 1..Len(ds) BY <1>3
<1>5. Tidy(a, es) BY <1>3, <1>4 DEF Tidy
<1> QED BY <1>2, <1>5

\* A question has nothing below it.
LEMMA QuestionIsLast ==
    ASSUME NEW a, NEW ds, Tidy(a, ds), ds # <<>>, Head(ds).what \in Questions
    PROVE  Tail(ds) = <<>>
<1>1. PICK S : ds \in Seq(S) BY DEF Tidy
<1>2. Len(ds) \in Nat /\ Len(ds) > 0 /\ Head(ds) = ds[1] BY <1>1
<1>3. 1 \in 1..Len(ds) /\ ds[1].what \in Questions BY <1>2
<1>4. Len(ds) = 1 BY <1>3 DEF Tidy
<1>5. Tail(ds) \in Seq(S) /\ Len(Tail(ds)) = 0 BY <1>1, <1>4
<1> QED BY <1>5, EmptySeq

\* No dialog at all.
LEMMA NoDialogIsTidy == ASSUME NEW a PROVE Tidy(a, <<>>)
<1>1. <<>> \in Seq({}) /\ Len(<<>>) = 0 OBVIOUS
<1> QED BY <1>1 DEF Tidy

\* An action that is over, or not the window's own, asks for nothing.
LEMMA NothingAsked ==
    ASSUME NEW a, NEW b \in {NoAction, Followed}
    PROVE  /\ \A s : Answers(a, s) => Answers(b, s)
           /\ \A ds : Tidy(a, ds) => Tidy(b, ds)
<1>1. b.asked = 0 BY DEF NoAction, Followed
<1>2. ASSUME NEW s, Answers(a, s) PROVE Answers(b, s) BY <1>1, <1>2 DEF Answers
<1>3. ASSUME NEW ds, Tidy(a, ds) PROVE Tidy(b, ds) BY <1>2, <1>3 DEF Tidy
<1> QED BY <1>2, <1>3

\* A page is turned, or stays.
LEMMA TurnIsQuiet ==
    ASSUME NEW open, Stay(open) \/ \E to : Turn(to, open)
    PROVE  dialogs' = open /\ ui' \in {"idle", "product"} /\ (ui' = "product" => ~held'.resumes)
<1>1. ~Refreshing(NoHeld).resumes /\ ~NoHeld.resumes BY DEF Refreshing, NoHeld
<1> QED BY <1>1 DEF Stay, Turn

\* What a status that answers the action makes of it.
LEMMA FinishAnswers ==
    ASSUME NEW h, NEW open, Answers(pending, h.status), Tidy(pending, open), Finish(h, open),
           pending = NoAction \/ pending.kind \in Kinds \ {"none"}
    PROVE  /\ pending' \in {pending, NoAction, Followed}
           /\ Tidy(pending', dialogs')
           /\ ui' \in {"idle", "product"} /\ (ui' = "product" => ~held'.resumes)
           /\ answer' = answer \/ ActionIsAnswered'
<1>1. PICK s : s = h.status OBVIOUS
<1>2. PICK action : action = IF Optimizing(s) /\ pending = NoAction THEN Followed ELSE pending
      OBVIOUS
<1>3. PICK over \in BOOLEAN : over = (action # NoAction /\ ~Busy(s)) OBVIOUS
<1>4. /\ pending' = IF over THEN NoAction ELSE action
      /\ answer' = IF over THEN [asked |-> action.asked, n |-> s.last.n,
                                  restarted |-> s.crashes # action.crashes]
                   ELSE answer
      BY <1>1, <1>2, <1>3 DEF Finish
<1>5. \/ over /\ Conclude(action, s, open)
      \/ \E to : Turn(to, open)
      \/ Stay(open)
      BY <1>1, <1>2, <1>3 DEF Finish
<1>6. over => action = pending /\ s.kind = "none" BY <1>2, <1>3 DEF Optimizing, Busy
<1>7. Tidy(pending, Over(Message, open)) BY OverIsTidy DEF Message, Dialog, Questions
<1>8. /\ Tidy(pending, dialogs')
      /\ ui' \in {"idle", "product"} /\ (ui' = "product" => ~held'.resumes)
  <2>1. CASE over /\ Conclude(action, s, open)
    <3>1. action.kind \in {"import", "correction", "optimize", "export"}
          BY <1>3, <1>6, <2>1 DEF Kinds
    <3>2. CASE s.last.error
      <4>1. Stay(Over(Message, open)) BY <2>1, <3>2 DEF Conclude
      <4> QED BY <4>1, <1>7, TurnIsQuiet
    <3>3. CASE ~s.last.error /\ action.kind = "import"
      <4>1. PICK skipped \in BOOLEAN :
                Turn("optimize", IF skipped THEN Over(Message, open) ELSE open)
            BY <2>1, <3>3 DEF Conclude
      <4> QED BY <4>1, <1>7, TurnIsQuiet
    <3>4. CASE ~s.last.error /\ action.kind \in {"optimize", "correction"}
      <4>1. Turn("results", open) BY <2>1, <3>4 DEF Conclude
      <4> QED BY <4>1, TurnIsQuiet
    <3>5. CASE ~s.last.error /\ action.kind = "export"
      <4>1. Stay(open) BY <2>1, <3>5 DEF Conclude
      <4> QED BY <4>1, TurnIsQuiet
    <3> QED BY <3>1, <3>2, <3>3, <3>4, <3>5
  <2>2. CASE (\E to : Turn(to, open)) \/ Stay(open) BY <2>2, TurnIsQuiet
  <2> QED BY <1>5, <2>1, <2>2
<1>9. pending' \in {pending, NoAction, Followed} BY <1>2, <1>4
<1>10. answer' = answer \/ ActionIsAnswered'
  <2>1. CASE over
    <3>1. /\ answer'.asked = pending.asked /\ answer'.n = s.last.n
          /\ answer'.restarted = (s.crashes # pending.crashes)
          BY <1>4, <1>6, <2>1
    <3>2. s.crashes = pending.crashes => s.last.n >= pending.asked
          BY <1>1, <1>6, <2>1 DEF Answers
    <3> QED BY <3>1, <3>2 DEF ActionIsAnswered
  <2>2. CASE ~over BY <1>4, <2>2
  <2> QED BY <2>1, <2>2
<1> QED BY <1>8, <1>9, <1>10, NothingAsked

-----------------------------------------------------------------------------
\* An answer that is on its way and may be applied is the one from before.
PollIsOld == poll' = poll \/ ~(poll'.at = "answered" /\ poll'.fresh)

\* A step that leaves the daemon and the action alone.
LEMMA AskedStays ==
    ASSUME Asked, UNCHANGED <<jobs, crashes, last, pending, job, closed, ui, held>>,
           PollIsOld, Tidy(pending, dialogs')
    PROVE  Asked'
BY DEF Asked, PollIsOld, Answers

\* The second half of a status keeps all others answering.
LEMMA FinishIsAsked ==
    ASSUME Asked, ~closed, ui # "poll" \/ ~(poll'.at = "answered" /\ poll'.fresh),
           NEW h, NEW open, Answers(pending, h.status), Tidy(pending, open), Finish(h, open),
           UNCHANGED <<jobs, crashes, last, job, closed>>, PollIsOld
    PROVE  Asked' /\ (answer' = answer \/ ActionIsAnswered')
<1>1. /\ pending' \in {pending, NoAction, Followed}
      /\ Tidy(pending', dialogs')
      /\ ui' \in {"idle", "product"} /\ (ui' = "product" => ~held'.resumes)
      /\ answer' = answer \/ ActionIsAnswered'
      BY FinishAnswers DEF Asked
<1>2. /\ pending'.asked \in Nat /\ pending'.asked <= jobs
      /\ pending'.crashes \in Nat /\ pending'.crashes <= crashes
      /\ pending' = NoAction \/ pending'.kind \in Kinds \ {"none"}
      BY <1>1 DEF Asked, NoAction, Followed, Kinds
<1>3. job = NoJob /\ crashes = pending'.crashes => last.n >= pending'.asked
      BY <1>1 DEF Asked, NoAction, Followed
<1>4. poll'.at = "answered" /\ poll'.fresh => Answers(pending', poll'.status)
      BY <1>1, NothingAsked DEF Asked, PollIsOld
<1> QED BY <1>1, <1>2, <1>3, <1>4 DEF Asked, Answers

\* So does the first half, which may have to read the products.
LEMMA ReceiveIsAsked ==
    ASSUME Asked, ~closed, ~(poll'.at = "answered" /\ poll'.fresh),
           NEW s, Answers(pending, s), Receive(s), UNCHANGED <<jobs, crashes, last, job, closed>>
    PROVE  Asked' /\ (answer' = answer \/ ActionIsAnswered')
<1>1. PICK h : h = [NoHeld EXCEPT !.resumes = TRUE, !.status = s, !.first = (status = NoStatus)]
      OBVIOUS
<1>2. h.status = s /\ Refreshing(h).status = s BY <1>1 DEF NoHeld, Refreshing
<1>3. CASE ui' = "product" /\ held' = Refreshing(h) /\ UNCHANGED <<dialogs, pending, page, answer>>
      BY <1>2, <1>3 DEF Asked, Answers
<1>4. CASE Finish(h, dialogs)
      BY <1>2, <1>4, FinishIsAsked DEF Asked, PollIsOld
<1> QED BY <1>1, <1>3, <1>4 DEF Receive

\* A request starts a job, and nothing from before it can answer it.
LEMMA RequestIsAsked ==
    ASSUME Asked, NEW kind \in Kinds \ {"none"}, NEW retry, Request(kind, retry, <<>>),
           Free, UNCHANGED <<crashes, held, closed, poll>>
    PROVE  Asked'
<1>1. CASE Refused(<<>>)
  <2>1. Tidy(pending, dialogs')
        BY <1>1, NoDialogIsTidy, OverIsTidy DEF Refused, Message, Dialog, Questions
  <2> QED BY <1>1, <2>1, AskedStays DEF Refused, daemonVars, PollIsOld
<1>2. CASE /\ Begin(kind, retry)
           /\ pending' = [kind |-> kind, asked |-> jobs', crashes |-> crashes]
           /\ ui' = "poll"
           /\ dialogs' = <<>>
  <2>1. /\ jobs' = jobs + 1 /\ job' = [n |-> jobs + 1, kind |-> kind] /\ last' = NoResult
        BY <1>2 DEF Begin
  <2>2. job' # NoJob /\ job'.kind # "none" /\ job'.n = jobs' BY <2>1 DEF NoJob
  <2>3. last'.n \in Nat BY <2>1 DEF NoResult
  <2>4. Tidy(pending', dialogs') BY <1>2, NoDialogIsTidy
  <2> QED BY <1>2, <2>1, <2>2, <2>3, <2>4 DEF Asked, Free
<1> QED BY <1>1, <1>2 DEF Request

\* A dialog that the user opens, or a message.
LEMMA OpensIsAsked ==
    ASSUME Asked, NEW d, Opens(d), d.what # "product", d.what \in Questions => dialogs = <<>>,
           UNCHANGED <<jobs, crashes, last, pending, job, closed, ui, held, poll>>
    PROVE  Asked'
<1>1. Tidy(pending, dialogs') BY OverIsTidy DEF Opens, Asked
<1> QED BY <1>1, AskedStays DEF PollIsOld

-----------------------------------------------------------------------------
\* The steps of the user that start something, or ask before.
LEMMA StartIsAsked ==
    ASSUME Asked, StartImport \/ RetryErrors \/ StartOptimization
    PROVE  Asked' /\ answer' = answer
<1>0. /\ Free /\ dialogs = <<>> /\ UNCHANGED <<crashes, held, closed, poll, answer>>
      BY DEF StartImport, RetryErrors, StartOptimization, Gesture, gestureFrame, pollVars
<1>1. \A d : Opens(d) /\ UNCHANGED quiet /\ d.what # "product" => Asked'
      BY <1>0, OpensIsAsked DEF quiet, daemonVars
<1>2. Refused(dialogs) => Asked'
      BY <1>0, OpensIsAsked DEF Refused, Opens, daemonVars, Message, Dialog
<1>3. \A kind \in {"import", "optimize"} : \A retry : Request(kind, retry, dialogs) => Asked'
      BY <1>0, RequestIsAsked DEF Kinds
<1>4. CASE StartImport
  <2>1. \/ Opens(Dialog("replace", None)) /\ UNCHANGED quiet
        \/ Request("import", FALSE, dialogs)
        BY <1>4 DEF StartImport
  <2> QED BY <1>0, <1>1, <1>3, <2>1 DEF Dialog
<1>5. CASE RetryErrors BY <1>0, <1>3, <1>5 DEF RetryErrors
<1>6. CASE StartOptimization
  <2>1. \/ Opens(Dialog("settings", None)) /\ UNCHANGED quiet
        \/ Request("optimize", FALSE, dialogs)
        \/ Refused(dialogs)
        BY <1>6 DEF StartOptimization
  <2> QED BY <1>0, <1>1, <1>2, <1>3, <2>1 DEF Dialog
<1> QED BY <1>0, <1>4, <1>5, <1>6

\* The other steps of the user on a page.
LEMMA PageIsAsked ==
    ASSUME Asked,
           \/ Browse \/ ImportCorrections \/ TogglePause \/ OpenExport \/ StartExport \/ OpenSettings
           \/ Navigate \/ LeaveSettings
    PROVE  Asked' /\ answer' = answer
<1>1. CASE Browse \/ ImportCorrections \/ StartExport
  <2>1. /\ dialogs = <<>> /\ UNCHANGED <<jobs, crashes, last, pending, job, closed, ui, held, poll, answer>>
        BY <1>1 DEF Browse, ImportCorrections, StartExport, Gesture, quiet, daemonVars, gestureFrame,
           pollVars
  <2>2. PICK what, value : Opens(Dialog(what, value)) /\ what \in {"source", "correction", "export"}
        BY <1>1 DEF Browse, ImportCorrections, StartExport
  <2> QED BY <2>1, <2>2, OpensIsAsked DEF Dialog
<1>2. CASE TogglePause
  <2>1. UNCHANGED <<crashes, held, closed, poll, answer>> /\ Free /\ dialogs = <<>>
        BY <1>2 DEF TogglePause, Gesture, gestureFrame, pollVars
  <2>2. CASE Refused(dialogs)
        BY <2>1, <2>2, OpensIsAsked DEF Refused, Opens, daemonVars, Message, Dialog
  <2>3. CASE SetPaused(~status.paused) /\ ui' = "poll" /\ UNCHANGED <<dialogs, pending>>
        BY <2>1, <2>3 DEF SetPaused, Asked, Free, Answers
  <2> QED BY <1>2, <2>1, <2>2, <2>3 DEF TogglePause
<1>3. CASE OpenExport \/ OpenSettings
  <2>1. UNCHANGED <<jobs, crashes, last, pending, job, closed, ui, held, poll, answer, dialogs>>
        BY <1>3 DEF OpenExport, OpenSettings, quiet, daemonVars, gestureFrame, pollVars
  <2> QED BY <2>1, AskedStays DEF PollIsOld, Asked
<1>4. CASE Navigate \/ LeaveSettings
  <2>1. UNCHANGED <<jobs, crashes, last, pending, job, closed, poll, answer>> /\ Free
        BY <1>4 DEF Navigate, LeaveSettings, Gesture, turnFrame, serviceVars, daemonVars, pollVars
  <2>2. \E to : Turn(to, dialogs) BY <1>4 DEF Navigate, LeaveSettings
  <2>3. dialogs' = dialogs /\ ui' \in {"idle", "product"} /\ (ui' = "product" => ~held'.resumes)
        BY <2>2, TurnIsQuiet
  <2> QED BY <2>1, <2>3 DEF Asked, Free, Answers
<1> QED BY <1>1, <1>2, <1>3, <1>4

\* The steps that close a dialog.
LEMMA CloseIsAsked ==
    ASSUME Asked, CloseMessage \/ CloseProduct \/ CloseIncomplete \/ CloseSource \/ CloseQuestion
    PROVE  Asked' /\ (answer' = answer \/ ActionIsAnswered')
<1>0. Free /\ dialogs # <<>> /\ Tidy(pending, Rest)
      BY RestIsTidy DEF CloseMessage, CloseProduct, CloseIncomplete, CloseSource, CloseQuestion,
         Closes, Asked, Rest
<1>1. CASE CloseMessage \/ CloseIncomplete
  <2>1. /\ UNCHANGED <<jobs, crashes, last, pending, job, closed, ui, held, poll, answer>>
        /\ dialogs' = Rest
        BY <1>1 DEF CloseMessage, CloseIncomplete, quiet, daemonVars, dialogFrame, gestureFrame,
           pollVars
  <2> QED BY <1>0, <2>1, AskedStays DEF PollIsOld
<1>2. CASE CloseProduct
  <2>1. UNCHANGED <<jobs, crashes, last, job, closed, poll>>
        BY <1>2 DEF CloseProduct, productFrame, serviceVars, daemonVars, pollVars
  <2>2. PICK h : h = Head(dialogs).value OBVIOUS
  <2>3. h.resumes => Answers(pending, h.status)
    <3>1. PICK S : dialogs \in Seq(S) BY DEF Asked, Tidy
    <3>2. 1 \in 1..Len(dialogs) /\ Head(dialogs) = dialogs[1] BY <1>0, <3>1
    <3> QED BY <1>2, <2>2, <3>2 DEF Asked, Tidy, CloseProduct, Closes
  <2>4. CASE h.resumes /\ Finish(h, Rest)
        BY <1>0, <2>1, <2>3, <2>4, FinishIsAsked DEF PollIsOld, Free
  <2>5. CASE ~h.resumes /\ Stay(Rest) /\ UNCHANGED <<pending, answer>>
        BY <1>0, <2>1, <2>5 DEF Stay, Asked, Free, Answers
  <2> QED BY <1>2, <2>2, <2>4, <2>5 DEF CloseProduct, Resume
<1>3. CASE CloseSource
  <2>1. UNCHANGED <<jobs, crashes, last, pending, job, closed, poll, answer>>
        BY <1>3 DEF CloseSource, serviceVars, daemonVars, pollVars
  <2>2. Stay(Rest) \/ \E to : Turn(to, Rest) BY <1>3 DEF CloseSource
  <2>3. dialogs' = Rest /\ ui' \in {"idle", "product"} /\ (ui' = "product" => ~held'.resumes)
        BY <2>2, TurnIsQuiet
  <2> QED BY <1>0, <2>1, <2>3 DEF Asked, Free, Answers
<1>4. CASE CloseQuestion
  <2>1. UNCHANGED <<crashes, held, closed, poll, answer>>
        BY <1>4 DEF CloseQuestion, dialogFrame, gestureFrame, pollVars
  <2>2. CASE dialogs' = Rest /\ UNCHANGED quiet
        BY <1>0, <2>1, <2>2, AskedStays DEF quiet, daemonVars, PollIsOld
  <2>3. CASE \E kind \in {"import", "correction", "export"} : Request(kind, FALSE, Rest)
    <3>1. Rest = <<>> BY <1>0, <1>4, QuestionIsLast DEF CloseQuestion, Questions, Asked, Rest
    <3> QED BY <1>0, <2>1, <2>3, <3>1, RequestIsAsked DEF Kinds
  <2> QED BY <1>4, <2>1, <2>2, <2>3 DEF CloseQuestion
<1> QED BY <1>1, <1>2, <1>3, <1>4

\* The tray and the end.
LEMMA TrayIsAsked ==
    ASSUME Asked, CloseWindow \/ ShowFromTray \/ Quit \/ TrayChanges
    PROVE  Asked' /\ answer' = answer
<1>1. CASE CloseWindow
  <2>1. UNCHANGED <<jobs, crashes, last, pending, job, ui, held, poll, answer, dialogs>> /\ ui = "idle"
        BY <1>1 DEF CloseWindow, Gesture, Free, trayFrame, daemonVars, pollVars
  <2> QED BY <1>1, <2>1 DEF Asked, CloseWindow, Answers
<1>2. CASE ShowFromTray \/ TrayChanges
  <2>1. UNCHANGED <<jobs, crashes, last, pending, job, closed, ui, held, poll, answer, dialogs>>
        BY <1>2 DEF ShowFromTray, TrayChanges, trayFrame, daemonVars, pollVars
  <2> QED BY <2>1, AskedStays DEF PollIsOld, Asked
<1>3. CASE Quit
  <2>1. UNCHANGED <<crashes, pending, held, poll, answer, jobs>> /\ ui = "idle"
        BY <1>3 DEF Quit, Free, trayFrame, pollVars, daemonVars
  <2>2. CASE closed' = TRUE /\ job' = NoJob /\ last' = NoResult /\ UNCHANGED <<ui, dialogs>>
        BY <2>1, <2>2 DEF Asked, Answers, NoResult
  <2>3. CASE Opens(Message) /\ UNCHANGED <<daemonVars, ui, closed>>
        BY <2>1, <2>3, OpensIsAsked DEF daemonVars, Message, Dialog, Questions
  <2> QED BY <1>3, <2>1, <2>2, <2>3 DEF Quit
<1> QED BY <1>1, <1>2, <1>3

\* The window's own steps, and those of the pool.
LEMMA HandlerIsAsked ==
    ASSUME Asked, Current, HandlerStep \/ PollStep \/ TimerFires
    PROVE  Asked' /\ (answer' = answer \/ ActionIsAnswered')
<1>0. ~closed => Answers(pending, Snapshot)
      BY DEF Answers, Snapshot, Asked, NoJob
<1>1. CASE SyncPoll
  <2>1. UNCHANGED <<jobs, crashes, last, job, closed>> /\ ~closed /\ ui = "poll"
        BY <1>1 DEF SyncPoll, serviceVars, daemonVars, Asked
  <2>2. ~(poll'.at = "answered" /\ poll'.fresh)
    <3>1. poll' = [at |-> poll.at, fresh |-> poll.at # "answered", status |-> poll.status]
          BY <1>1 DEF Current, SyncPoll
    <3> QED BY <3>1
  <2>3. CASE Receive(Snapshot) BY <1>0, <2>1, <2>2, <2>3, ReceiveIsAsked
  <2>4. CASE ui' = "idle" /\ UNCHANGED <<held, dialogs, pending, answer>>
        BY <2>1, <2>2, <2>4 DEF Asked, Answers
  <2> QED BY <1>1, <2>3, <2>4 DEF SyncPoll
<1>2. CASE ProductRead
  <2>1. UNCHANGED <<jobs, crashes, last, job, closed, poll>> /\ ~closed /\ ui = "product"
        BY <1>2 DEF ProductRead, productFrame, serviceVars, daemonVars, pollVars, Asked
  <2>2. held.resumes => Answers(pending, held.status) BY <2>1 DEF Asked
  <2>3. CASE /\ dialogs' = <<Dialog("product", held)>> \o dialogs
             /\ ui' = "idle"
             /\ UNCHANGED <<pending, answer>>
    <3>1. Tidy(pending, dialogs') BY <2>2, <2>3, PushIsTidy DEF Dialog, Questions, Asked
    <3> QED BY <2>1, <2>3, <3>1 DEF Asked, Answers
  <2>4. CASE held.resumes /\ Finish(held, dialogs)
        BY <2>1, <2>2, <2>4, FinishIsAsked DEF PollIsOld, Asked
  <2>5. CASE Stay(dialogs) /\ UNCHANGED <<pending, answer>>
        BY <2>1, <2>5 DEF Stay, Asked, Answers
  <2> QED BY <1>2, <2>3, <2>4, <2>5 DEF ProductRead, Resume
<1>3. CASE PollFailed
  <2>1. /\ UNCHANGED <<jobs, crashes, last, pending, job, closed, ui, held, answer, dialogs>>
        /\ poll' = NoPoll
        BY <1>3 DEF PollFailed, receiveVars, pollFrame, serviceVars, daemonVars
  <2> QED BY <2>1, AskedStays DEF PollIsOld, NoPoll, Asked
<1>4. CASE PollDelivered
  <2>1. /\ UNCHANGED <<jobs, crashes, last, job, closed>> /\ Free /\ poll' = NoPoll
        /\ poll.at = "answered"
        BY <1>4 DEF PollDelivered, pollFrame, serviceVars, daemonVars
  <2>2. CASE poll.fresh /\ Receive(poll.status)
        BY <2>1, <2>2, ReceiveIsAsked DEF Asked, Free, NoPoll
  <2>3. CASE UNCHANGED receiveVars
        BY <2>1, <2>3, AskedStays DEF receiveVars, PollIsOld, NoPoll, Asked
  <2> QED BY <1>4, <2>2, <2>3 DEF PollDelivered, IsFresh
<1>5. CASE TimerFires
  <2>1. /\ UNCHANGED <<jobs, crashes, last, pending, job, closed, ui, held, answer, dialogs>>
        /\ ~closed
        BY <1>5 DEF TimerFires, receiveVars, pollFrame, serviceVars, daemonVars, Free
  <2>2. \/ poll'.at = "answered" /\ poll'.status = Snapshot
        \/ poll'.at = "failed"
        BY <1>5 DEF TimerFires, NoPoll
  <2> QED BY <1>0, <2>1, <2>2 DEF Asked, Answers
<1> QED BY <1>1, <1>2, <1>3, <1>4, <1>5 DEF HandlerStep, PollStep

\* The steps of the daemon and of its other clients.
LEMMA DaemonIsAsked ==
    ASSUME Asked, JobStep \/ OtherStep
    PROVE  Asked' /\ answer' = answer
<1>0. /\ UNCHANGED <<pending, closed, ui, held, poll, answer, dialogs>> /\ ~closed
      BY DEF JobStep, OtherStep, windowVars, pollVars
<1>1. CASE JobEnds
  <2>1. /\ job # NoJob /\ job' = NoJob /\ UNCHANGED <<jobs, crashes>>
        /\ \E error : last' = [n |-> job.n, error |-> error]
        BY <1>1 DEF JobEnds, JobSucceeds, JobFails, Ends
  <2>2. last'.n = jobs BY <2>1 DEF Asked
  <2> QED BY <1>0, <2>1, <2>2 DEF Asked, Answers
<1>2. CASE Crash
  <2>1. crashes' = crashes + 1 /\ job' = NoJob /\ last'.n = 0 /\ UNCHANGED jobs
        BY <1>2 DEF Crash, NoResult
  <2> QED BY <1>0, <2>1 DEF Asked, Answers
<1>3. CASE Restart
      BY <1>0, <1>3, AskedStays DEF Restart, PollIsOld, Asked
<1>4. CASE OtherJob
  <2>1. PICK kind \in {"import", "export", "optimize"} : Begin(kind, FALSE)
        BY <1>4 DEF OtherJob
  <2>2. /\ jobs' = jobs + 1 /\ job' = [n |-> jobs + 1, kind |-> kind] /\ last' = NoResult
        /\ UNCHANGED crashes
        BY <1>4, <2>1 DEF Begin, OtherJob
  <2>3. job' # NoJob /\ job'.kind # "none" /\ job'.n = jobs' BY <2>2 DEF NoJob
  <2>4. last'.n \in Nat BY <2>2 DEF NoResult
  <2> QED BY <1>0, <2>2, <2>3, <2>4 DEF Asked, Answers
<1> QED BY <1>1, <1>2, <1>3, <1>4 DEF JobStep, OtherStep

\* Every step of the window and of the daemon.
LEMMA NextIsAsked ==
    ASSUME Asked, Current, ActionIsAnswered, [Next]_vars
    PROVE  Asked' /\ ActionIsAnswered'
<1>0. answer' = answer => ActionIsAnswered' BY DEF ActionIsAnswered
<1>1. CASE UserStep
      BY <1>0, <1>1, StartIsAsked, PageIsAsked, CloseIsAsked, TrayIsAsked DEF UserStep
<1>2. CASE HandlerStep \/ PollStep \/ TimerFires BY <1>0, <1>2, HandlerIsAsked
<1>3. CASE JobStep \/ OtherStep BY <1>0, <1>3, DaemonIsAsked
<1>4. CASE TrayChanges BY <1>0, <1>4, TrayIsAsked
<1>5. CASE UNCHANGED vars
  <2>1. UNCHANGED <<jobs, crashes, last, pending, job, closed, ui, held, poll, answer, dialogs>>
        BY <1>5 DEF vars, serviceVars, daemonVars, pollVars
  <2> QED BY <1>0, <2>1, AskedStays DEF PollIsOld, Asked
<1> QED BY <1>1, <1>2, <1>3, <1>4, <1>5 DEF Next

\* For every order of dialogs, requests, answers and crashes: an action is
\* ended by the result it asked for or a later one, unless the daemon was
\* restarted (app.py:1006-1012, 1349-1352 and 1408-1464).
THEOREM AnswersAreOwn == Spec => []ActionIsAnswered
<1>1. Init => Asked /\ ActionIsAnswered
  <2>1. SUFFICES ASSUME Init PROVE Asked /\ ActionIsAnswered OBVIOUS
  <2>2. Tidy(pending, dialogs) BY <2>1, NoDialogIsTidy DEF Init
  <2> QED BY <2>1, <2>2
          DEF Init, ServiceInit, Asked, ActionIsAnswered, NoAction, NoJob, NoResult, NoPoll, NoHeld
<1>2. Init => Current
      BY DEF Init, ServiceInit, Current, NoPoll, NoStatus
<1>3. Current /\ [Next]_vars => Current' BY NextIsCurrent
<1>4. Asked /\ Current /\ ActionIsAnswered /\ [Next]_vars => Asked' /\ ActionIsAnswered'
      BY NextIsAsked
<1> QED BY <1>1, <1>2, <1>3, <1>4, PTL DEF Spec

-----------------------------------------------------------------------------
(***************************************************************************)
(* Types                                                                   *)
(***************************************************************************)

Places == {"import", "optimize", "results", "export", "settings"}
Tables == {"empty", "pending", "done", "errors"}

\* The daemon.
ServiceTyped ==
    /\ up \in BOOLEAN /\ paused \in BOOLEAN /\ table \in Tables
    /\ jobs \in Nat /\ crashes \in Nat /\ seq \in Nat
    /\ last \in Results /\ job.n \in Nat /\ job.kind \in Kinds
    /\ job # NoJob => job.kind # "none"

\* Dialogs, the statuses that wait under them and the pages they lead to.
DialogsTyped(ds) ==
    /\ \E S : ds \in Seq(S)
    /\ Len(ds) <= MaxDialogs
    /\ \A i \in 1..Len(ds) :
           /\ ds[i].what \in Dialogs
           /\ ds[i].what = "product" => ds[i].value.status \in Statuses
           /\ ds[i].what = "source" => ds[i].value \in Places

\* What the handlers of the window change.
UiTyped ==
    /\ ui \in {"idle", "poll", "product"} /\ page \in Places
    /\ held.status \in Statuses
    /\ pending = NoAction \/ pending.kind \in Kinds \ {"none"}
    /\ DialogsTyped(dialogs)

\* The request in the pool.
PollTyped ==
    /\ poll = [at |-> poll.at, fresh |-> poll.fresh, status |-> poll.status]
    /\ poll.at \in {"none", "answered", "failed"} /\ poll.status \in Statuses
    /\ polling = (poll.at # "none")

FlagsTyped == closed \in BOOLEAN /\ preview \in BOOLEAN /\ tray \in BOOLEAN /\ hidden \in BOOLEAN

WindowTyped == ServiceTyped /\ UiTyped /\ PollTyped /\ FlagsTyped /\ status \in Statuses

\* The statuses the daemon gives, and the one before the first.
LEMMA SnapshotIsTyped ==
    /\ ServiceTyped => Snapshot \in Statuses
    /\ NoStatus \in Statuses
BY DEF ServiceTyped, Snapshot, NoStatus, NoResult, Statuses, Results, Kinds, Tables

\* Nothing happens to the daemon.
LEMMA ServiceStays ==
    ASSUME ServiceTyped, UNCHANGED daemonVars, crashes' \in Nat
    PROVE  ServiceTyped'
BY DEF ServiceTyped, daemonVars

\* A job starts.
LEMMA BeginIsTyped ==
    ASSUME ServiceTyped, NEW kind \in Kinds \ {"none"}, NEW retry, Begin(kind, retry),
           UNCHANGED crashes
    PROVE  ServiceTyped'
<1>1. /\ jobs' = jobs + 1 /\ job' = [n |-> jobs + 1, kind |-> kind] /\ last' = NoResult
      /\ paused' = (paused /\ kind # "optimize") /\ table' \in {"pending", table}
      /\ seq' = seq + 1 /\ up' = up
      BY DEF Begin
<1>2. job'.n = jobs + 1 /\ job'.kind = kind BY <1>1
<1>3. NoResult \in Results BY DEF NoResult, Results
<1> QED BY <1>1, <1>2, <1>3 DEF ServiceTyped, Tables

\* The steps of the daemon and of its other clients.
LEMMA DaemonIsTyped ==
    ASSUME ServiceTyped, JobStep \/ OtherStep
    PROVE  ServiceTyped'
<1>1. NoResult \in Results /\ NoJob.n = 0 /\ NoJob.kind = "none" /\ "none" \in Kinds
      BY DEF NoResult, Results, NoJob, Kinds
<1>2. CASE JobEnds
  <2>1. PICK error \in BOOLEAN : last' = [n |-> job.n, error |-> error]
        BY <1>2 DEF JobEnds, JobSucceeds, JobFails, Ends
  <2>2. last' \in Results BY <2>1 DEF Results, ServiceTyped
  <2>3. job # NoJob /\ job.kind \in {"import", "correction", "optimize", "export"}
        BY <1>2 DEF JobEnds, ServiceTyped, Kinds
  <2>4. table' \in Tables
    <3>1. CASE JobFails BY <3>1 DEF JobFails, ServiceTyped
    <3>2. CASE JobSucceeds BY <2>3, <3>2 DEF JobSucceeds, ServiceTyped, Tables
    <3> QED BY <1>2, <3>1, <3>2 DEF JobEnds
  <2> QED BY <1>1, <1>2, <2>2, <2>4 DEF JobEnds, ServiceTyped
<1>3. CASE Crash
  <2>1. /\ crashes' \in Nat /\ seq' \in Nat /\ last' \in Results /\ job' = NoJob
        /\ UNCHANGED <<jobs, table>>
        BY <1>1, <1>3 DEF Crash, ServiceTyped
  <2>2. up' \in BOOLEAN /\ paused' \in BOOLEAN BY <1>3, Zenon DEF Crash
  <2> QED BY <1>1, <2>1, <2>2 DEF ServiceTyped
<1>4. CASE Restart BY <1>4 DEF Restart, ServiceTyped
<1>5. CASE OtherJob
  <2>1. PICK kind \in {"import", "export", "optimize"} : Begin(kind, FALSE)
        BY <1>5 DEF OtherJob
  <2> QED BY <1>5, <2>1, BeginIsTyped DEF OtherJob, Kinds
<1> QED BY <1>2, <1>3, <1>4, <1>5 DEF JobStep, OtherStep

\* What a request does to the daemon.
LEMMA RequestServed ==
    ASSUME ServiceTyped, NEW kind \in Kinds \ {"none"}, NEW retry, NEW open,
           Request(kind, retry, open), UNCHANGED crashes
    PROVE  ServiceTyped'
BY BeginIsTyped, ServiceStays DEF Request, Refused, ServiceTyped

\* The user's steps.
LEMMA UserIsServed ==
    ASSUME ServiceTyped, UserStep \/ TrayChanges
    PROVE  ServiceTyped'
<1>0. crashes \in Nat BY DEF ServiceTyped
<1>1. UNCHANGED serviceVars => ServiceTyped' BY <1>0, ServiceStays DEF serviceVars
<1>2. UNCHANGED quiet /\ UNCHANGED crashes => ServiceTyped' BY <1>0, ServiceStays DEF quiet
<1>3. CASE StartImport \/ RetryErrors \/ StartOptimization
      BY <1>0, <1>2, <1>3, RequestServed, ServiceStays
         DEF StartImport, RetryErrors, StartOptimization, Refused, gestureFrame, Kinds
<1>4. CASE TogglePause
  <2>1. UNCHANGED crashes BY <1>4 DEF TogglePause, gestureFrame
  <2>2. CASE SetPaused(~status.paused) BY <2>1, <2>2 DEF SetPaused, ServiceTyped
  <2>3. CASE Refused(dialogs) BY <1>0, <2>1, <2>3, ServiceStays DEF Refused
  <2> QED BY <1>4, <2>2, <2>3 DEF TogglePause
<1>5. CASE CloseQuestion
  <2>1. UNCHANGED crashes BY <1>5 DEF CloseQuestion, dialogFrame, gestureFrame
  <2>2. \/ UNCHANGED quiet
        \/ \E kind \in {"import", "correction", "export"} : Request(kind, FALSE, Rest)
        BY <1>5 DEF CloseQuestion
  <2> QED BY <1>2, <2>1, <2>2, RequestServed DEF Kinds
<1>6. CASE Quit
  <2>1. UNCHANGED crashes BY <1>6 DEF Quit, trayFrame
  <2>2. NoResult \in Results /\ NoJob.n = 0 /\ NoJob.kind = "none" /\ "none" \in Kinds
        BY DEF NoResult, Results, NoJob, Kinds
  <2>3. CASE /\ up' = FALSE /\ job' = NoJob /\ last' = NoResult /\ paused' = FALSE
             /\ UNCHANGED <<jobs, table, source, seq>>
    <3>1. up' \in BOOLEAN /\ paused' \in BOOLEAN BY <2>3, Zenon
    <3> QED BY <2>1, <2>2, <2>3, <3>1 DEF ServiceTyped
  <2>4. CASE UNCHANGED daemonVars BY <1>0, <2>1, <2>4, ServiceStays
  <2> QED BY <1>6, <2>3, <2>4 DEF Quit
<1>7. CASE Browse \/ ImportCorrections \/ OpenExport \/ StartExport \/ OpenSettings
      BY <1>2, <1>7 DEF Browse, ImportCorrections, OpenExport, StartExport, OpenSettings, gestureFrame
<1>8. CASE Navigate \/ LeaveSettings BY <1>1, <1>8 DEF Navigate, LeaveSettings, turnFrame
<1>9. CASE CloseMessage \/ CloseIncomplete
      BY <1>2, <1>9 DEF CloseMessage, CloseIncomplete, dialogFrame, gestureFrame
<1>10. CASE CloseProduct BY <1>1, <1>10 DEF CloseProduct, productFrame
<1>11. CASE CloseSource BY <1>1, <1>11 DEF CloseSource
<1>12. CASE CloseWindow \/ ShowFromTray \/ TrayChanges
       BY <1>0, <1>12, ServiceStays DEF CloseWindow, ShowFromTray, TrayChanges, trayFrame
<1> QED BY <1>3, <1>4, <1>5, <1>6, <1>7, <1>8, <1>9, <1>10, <1>11, <1>12 DEF UserStep

-----------------------------------------------------------------------------
\* One dialog more.
LEMMA PushIsTyped ==
    ASSUME NEW d, NEW ds, DialogsTyped(ds), Len(ds) < MaxDialogs, d.what \in Dialogs,
           d.what = "product" => d.value.status \in Statuses,
           d.what = "source" => d.value \in Places
    PROVE  DialogsTyped(<<d>> \o ds)
<1>1. PICK S : ds \in Seq(S) BY DEF DialogsTyped
<1>2. PICK T : T = S \cup {d} OBVIOUS
<1>3. ds \in Seq(T) /\ <<d>> \in Seq(T)
  <2>1. \A i \in 1..Len(ds) : ds[i] \in T BY <1>1, <1>2
  <2> QED BY <1>1, <1>2, <2>1
<1>4. PICK es : es = <<d>> \o ds OBVIOUS
<1>5. /\ es \in Seq(T) /\ Len(es) = Len(ds) + 1 /\ Len(ds) \in Nat
      /\ es[1] = d /\ \A i \in 2..Len(es) : es[i] = ds[i - 1]
      BY <1>3, <1>4
<1>6. ASSUME NEW i \in 1..Len(es)
      PROVE  es[i] = d \/ \E j \in 1..Len(ds) : es[i] = ds[j]
  <2>1. CASE i = 1 BY <1>5, <2>1
  <2>2. CASE i # 1
    <3>1. i - 1 \in 1..Len(ds) /\ es[i] = ds[i - 1] BY <1>5, <1>6, <2>2
    <3> QED BY <3>1
  <2> QED BY <2>1, <2>2
<1>7. Len(es) <= MaxDialogs BY <1>5, WindowAssumption
<1>8. DialogsTyped(es) BY <1>5, <1>6, <1>7 DEF DialogsTyped
<1> QED BY <1>4, <1>8

\* Unless there are too many.
LEMMA OverIsTyped ==
    ASSUME NEW d, NEW ds, DialogsTyped(ds), d.what \in Dialogs \ {"product"},
           d.what = "source" => d.value \in Places
    PROVE  DialogsTyped(Over(d, ds))
BY PushIsTyped DEF Over

\* One less.
LEMMA RestIsTyped ==
    ASSUME NEW ds, DialogsTyped(ds), ds # <<>>
    PROVE  /\ DialogsTyped(Tail(ds))
           /\ Head(ds).what = "product" => Head(ds).value.status \in Statuses
           /\ Head(ds).what = "source" => Head(ds).value \in Places
<1>1. PICK S : ds \in Seq(S) BY DEF DialogsTyped
<1>2. PICK es : es = Tail(ds) OBVIOUS
<1>3. /\ es \in Seq(S) /\ Len(es) = Len(ds) - 1 /\ Len(ds) \in Nat /\ Len(ds) > 0
      /\ \A i \in 1..Len(es) : es[i] = ds[i + 1]
      /\ Head(ds) = ds[1]
      BY <1>1, <1>2
<1>4. \A i \in 1..Len(es) : i + 1 \in 1..Len(ds) BY <1>3
<1>5. 1 \in 1..Len(ds) BY <1>3
<1>6. Len(es) <= MaxDialogs BY <1>3, WindowAssumption DEF DialogsTyped
<1>7. DialogsTyped(es) BY <1>3, <1>4, <1>6 DEF DialogsTyped
<1> QED BY <1>2, <1>3, <1>5, <1>7 DEF DialogsTyped

\* A message, or a question.
LEMMA OpensIsTyped ==
    ASSUME UiTyped, NEW d, Opens(d), d.what \in Dialogs \ {"product"},
           d.what = "source" => d.value \in Places, ui' = ui, held' = held, pending' = pending,
           page' \in Places
    PROVE  UiTyped'
BY OverIsTyped DEF Opens, UiTyped

\* A page is turned, or stays.
LEMMA TurnIsTyped ==
    ASSUME UiTyped, NEW open, DialogsTyped(open), Stay(open) \/ \E to \in Places : Turn(to, open)
    PROVE  /\ ui' \in {"idle", "poll", "product"} /\ page' \in Places /\ held'.status \in Statuses
           /\ DialogsTyped(dialogs')
<1>1. NoHeld.status \in Statuses /\ Refreshing(NoHeld).status \in Statuses
      BY SnapshotIsTyped DEF NoHeld, Refreshing
<1> QED BY <1>1 DEF Stay, Turn, UiTyped

\* The second half of a status.
LEMMA FinishIsTyped ==
    ASSUME UiTyped, NEW h, NEW open, h.status \in Statuses, DialogsTyped(open), Finish(h, open)
    PROVE  UiTyped'
<1>1. PICK s : s = h.status OBVIOUS
<1>2. PICK action : action = IF Optimizing(s) /\ pending = NoAction THEN Followed ELSE pending
      OBVIOUS
<1>3. PICK over \in BOOLEAN : over = (action # NoAction /\ ~Busy(s)) OBVIOUS
<1>4. pending' = IF over THEN NoAction ELSE action BY <1>1, <1>2, <1>3 DEF Finish
<1>5. \/ over /\ Conclude(action, s, open)
      \/ \E to \in Places : Turn(to, open)
      \/ Stay(open)
      BY <1>1, <1>2, <1>3 DEF Finish, Places
<1>6. DialogsTyped(Over(Message, open))
      BY OverIsTyped DEF Message, Dialog, Dialogs
<1>7. action = NoAction \/ action.kind \in Kinds \ {"none"}
  <2>1. Followed.kind = "optimize" BY DEF Followed, NoAction
  <2> QED BY <1>2, <2>1 DEF UiTyped, Kinds
<1>8. /\ ui' \in {"idle", "poll", "product"} /\ page' \in Places /\ held'.status \in Statuses
      /\ DialogsTyped(dialogs')
  <2>1. CASE over /\ Conclude(action, s, open)
    <3>1. action.kind \in {"import", "correction", "optimize", "export"}
          BY <1>3, <1>7, <2>1 DEF Kinds
    <3>2. CASE s.last.error
      <4>1. Stay(Over(Message, open)) BY <2>1, <3>2 DEF Conclude
      <4> QED BY <4>1, <1>6, TurnIsTyped
    <3>3. CASE ~s.last.error /\ action.kind = "import"
      <4>1. PICK skipped \in BOOLEAN :
                Turn("optimize", IF skipped THEN Over(Message, open) ELSE open)
            BY <2>1, <3>3 DEF Conclude
      <4> QED BY <4>1, <1>6, TurnIsTyped DEF Places
    <3>4. CASE ~s.last.error /\ action.kind \in {"optimize", "correction"}
      <4>1. Turn("results", open) BY <2>1, <3>4 DEF Conclude
      <4> QED BY <4>1, TurnIsTyped DEF Places
    <3>5. CASE ~s.last.error /\ action.kind = "export"
      <4>1. Stay(open) BY <2>1, <3>5 DEF Conclude
      <4> QED BY <4>1, TurnIsTyped
    <3> QED BY <3>1, <3>2, <3>3, <3>4, <3>5
  <2>2. CASE (\E to \in Places : Turn(to, open)) \/ Stay(open) BY <2>2, TurnIsTyped
  <2> QED BY <1>5, <2>1, <2>2
<1> QED BY <1>4, <1>7, <1>8 DEF UiTyped

\* The first half.
LEMMA ReceiveIsTyped ==
    ASSUME UiTyped, NEW s \in Statuses, Receive(s)
    PROVE  UiTyped' /\ status' \in Statuses /\ hidden' = (hidden /\ tray)
<1>1. PICK h : h = [NoHeld EXCEPT !.resumes = TRUE, !.status = s, !.first = (status = NoStatus)]
      OBVIOUS
<1>2. h.status = s /\ Refreshing(h).status = s BY <1>1 DEF NoHeld, Refreshing
<1>3. ASSUME ui' = "product", held' = Refreshing(h), UNCHANGED <<dialogs, pending, page, answer>>
      PROVE  UiTyped'
      BY <1>2, <1>3 DEF UiTyped
<1>4. ASSUME Finish(h, dialogs) PROVE UiTyped' BY <1>2, <1>4, FinishIsTyped DEF UiTyped
<1> QED BY <1>1, <1>3, <1>4 DEF Receive, Applies

\* A request.
LEMMA RequestIsTyped ==
    ASSUME UiTyped, NEW kind \in Kinds \ {"none"}, NEW retry, NEW open, DialogsTyped(open),
           Request(kind, retry, open), UNCHANGED <<held, page>>
    PROVE  UiTyped'
<1>1. CASE Refused(open)
  <2>1. DialogsTyped(Over(Message, open)) BY OverIsTyped DEF Message, Dialog, Dialogs
  <2> QED BY <1>1, <2>1 DEF Refused, UiTyped
<1>2. CASE /\ pending' = [kind |-> kind, asked |-> jobs', crashes |-> crashes]
           /\ ui' = "poll" /\ dialogs' = open
  <2>1. pending'.kind = kind BY <1>2
  <2> QED BY <1>2, <2>1 DEF UiTyped
<1> QED BY <1>1, <1>2 DEF Request

\* The user's steps on a page.
LEMMA GestureIsTyped ==
    ASSUME UiTyped,
           \/ Browse \/ StartImport \/ ImportCorrections \/ RetryErrors \/ StartOptimization
           \/ TogglePause \/ OpenExport \/ StartExport \/ Navigate \/ OpenSettings \/ LeaveSettings
    PROVE  UiTyped'
<1>0. page \in Places /\ DialogsTyped(dialogs) BY DEF UiTyped
<1>1. \A d : /\ Opens(d) /\ d.what \in Dialogs \ {"product", "source"}
             /\ UNCHANGED <<ui, held, pending, page>>
             => UiTyped'
      BY <1>0, OpensIsTyped
<1>2. Refused(dialogs) /\ UNCHANGED <<held, page>> => UiTyped'
      BY <1>1 DEF Refused, Opens, Message, Dialog, Dialogs
<1>3. CASE Browse
  <2>1. Opens(Dialog("source", page)) /\ page' = "import" /\ UNCHANGED <<ui, held, pending>>
        BY <1>3 DEF Browse, quiet, gestureFrame
  <2> QED BY <1>0, <2>1, OpensIsTyped DEF Dialog, Dialogs, Places
<1>4. CASE StartImport
  <2>1. UNCHANGED <<held, page>> BY <1>4 DEF StartImport, gestureFrame, pageVars
  <2>2. CASE Opens(Dialog("replace", None)) /\ UNCHANGED quiet
        BY <1>1, <2>1, <2>2 DEF quiet, Dialog, Dialogs
  <2>3. CASE Request("import", FALSE, dialogs) BY <1>0, <2>1, <2>3, RequestIsTyped DEF Kinds
  <2> QED BY <1>4, <2>2, <2>3 DEF StartImport
<1>5. CASE ImportCorrections \/ StartExport
  <2>1. UNCHANGED <<ui, held, pending, page>>
        BY <1>5 DEF ImportCorrections, StartExport, quiet, gestureFrame, pageVars
  <2>2. Opens(Dialog("correction", None)) \/ Opens(Dialog("export", None))
        BY <1>5 DEF ImportCorrections, StartExport
  <2> QED BY <1>1, <2>1, <2>2 DEF Dialog, Dialogs
<1>6. CASE RetryErrors
      BY <1>0, <1>6, RequestIsTyped DEF RetryErrors, gestureFrame, pageVars, Kinds
<1>7. CASE StartOptimization
  <2>1. UNCHANGED <<held, page>> BY <1>7 DEF StartOptimization, gestureFrame, pageVars
  <2>2. CASE Opens(Dialog("settings", None)) /\ UNCHANGED quiet
        BY <1>1, <2>1, <2>2 DEF quiet, Dialog, Dialogs
  <2>3. CASE Request("optimize", FALSE, dialogs) BY <1>0, <2>1, <2>3, RequestIsTyped DEF Kinds
  <2>4. CASE Refused(dialogs) BY <1>2, <2>1, <2>4
  <2> QED BY <1>7, <2>2, <2>3, <2>4 DEF StartOptimization
<1>8. CASE TogglePause
  <2>1. UNCHANGED <<held, page>> BY <1>8 DEF TogglePause, gestureFrame, pageVars
  <2>2. CASE ui' = "poll" /\ UNCHANGED <<dialogs, pending>> BY <2>1, <2>2 DEF UiTyped
  <2> QED BY <1>2, <1>8, <2>1, <2>2 DEF TogglePause
<1>9. CASE OpenExport \/ OpenSettings
      BY <1>9 DEF OpenExport, OpenSettings, quiet, gestureFrame, UiTyped, Places
<1>10. CASE Navigate \/ LeaveSettings
  <2>1. \E to \in Places : Turn(to, dialogs) BY <1>10 DEF Navigate, LeaveSettings, Places
  <2>2. UNCHANGED pending BY <1>10 DEF Navigate, LeaveSettings, turnFrame
  <2> QED BY <1>0, <2>1, <2>2, TurnIsTyped DEF UiTyped
<1> QED BY <1>3, <1>4, <1>5, <1>6, <1>7, <1>8, <1>9, <1>10

\* The steps that close a dialog.
LEMMA CloseIsTyped ==
    ASSUME UiTyped, CloseMessage \/ CloseProduct \/ CloseIncomplete \/ CloseSource \/ CloseQuestion
    PROVE  UiTyped'
<1>0. /\ dialogs # <<>> /\ DialogsTyped(Rest)
      /\ Head(dialogs).what = "product" => Head(dialogs).value.status \in Statuses
      /\ Head(dialogs).what = "source" => Head(dialogs).value \in Places
      BY RestIsTyped DEF CloseMessage, CloseProduct, CloseIncomplete, CloseSource, CloseQuestion,
         Closes, UiTyped, Rest
<1>1. CASE CloseMessage \/ CloseIncomplete
      BY <1>0, <1>1 DEF CloseMessage, CloseIncomplete, quiet, pageVars, dialogFrame, gestureFrame,
         UiTyped, Places
<1>2. CASE CloseProduct
  <2>1. PICK h : h = Head(dialogs).value OBVIOUS
  <2>2. h.status \in Statuses BY <1>0, <1>2, <2>1 DEF CloseProduct, Closes
  <2>3. CASE Finish(h, Rest) BY <1>0, <2>2, <2>3, FinishIsTyped
  <2>4. CASE Stay(Rest) /\ UNCHANGED pending BY <1>0, <2>4, TurnIsTyped DEF UiTyped
  <2> QED BY <1>2, <2>1, <2>3, <2>4 DEF CloseProduct, Resume
<1>3. CASE CloseSource
  <2>1. Stay(Rest) \/ \E to \in Places : Turn(to, Rest)
        BY <1>0, <1>3 DEF CloseSource, Closes
  <2>2. UNCHANGED pending BY <1>3 DEF CloseSource
  <2> QED BY <1>0, <2>1, <2>2, TurnIsTyped DEF UiTyped
<1>4. CASE CloseQuestion
  <2>1. UNCHANGED <<held, page>> BY <1>4 DEF CloseQuestion, pageVars, dialogFrame, gestureFrame
  <2>2. CASE dialogs' = Rest /\ UNCHANGED quiet BY <1>0, <2>1, <2>2 DEF quiet, UiTyped
  <2>3. CASE \E kind \in {"import", "correction", "export"} : Request(kind, FALSE, Rest)
        BY <1>0, <2>1, <2>3, RequestIsTyped DEF Kinds
  <2> QED BY <1>4, <2>2, <2>3 DEF CloseQuestion
<1> QED BY <1>1, <1>2, <1>3, <1>4

\* The tray and the end.
LEMMA TrayIsTyped ==
    ASSUME UiTyped, CloseWindow \/ ShowFromTray \/ Quit \/ TrayChanges
    PROVE  UiTyped'
<1>1. UNCHANGED <<held, pending, page>>
      BY DEF CloseWindow, ShowFromTray, Quit, TrayChanges, trayFrame, pageVars
<1>2. CASE UNCHANGED <<ui, dialogs>> BY <1>1, <1>2 DEF UiTyped
<1>3. CASE Opens(Message) /\ ui' = ui
      BY <1>1, <1>3, OpensIsTyped DEF Message, Dialog, Dialogs, UiTyped
<1> QED BY <1>2, <1>3 DEF CloseWindow, ShowFromTray, Quit, TrayChanges

\* What the user, the tray and the other processes do to the flags.
LEMMA FlagsStay ==
    ASSUME FlagsTyped, UserStep \/ TrayChanges \/ JobStep \/ OtherStep
    PROVE  FlagsTyped'
<1>1. CASE Browse \/ StartImport \/ ImportCorrections \/ RetryErrors \/ StartOptimization
      BY <1>1 DEF Browse, StartImport, ImportCorrections, RetryErrors, StartOptimization, pageVars,
         gestureFrame, FlagsTyped
<1>2. CASE TogglePause \/ OpenExport \/ StartExport \/ OpenSettings
      BY <1>2 DEF TogglePause, OpenExport, StartExport, OpenSettings, pageVars, gestureFrame,
         FlagsTyped
<1>3. CASE Navigate \/ LeaveSettings BY <1>3 DEF Navigate, LeaveSettings, turnFrame, FlagsTyped
<1>4. CASE CloseMessage \/ CloseIncomplete \/ CloseQuestion
      BY <1>4 DEF CloseMessage, CloseIncomplete, CloseQuestion, pageVars, dialogFrame, gestureFrame,
         FlagsTyped
<1>5. CASE CloseProduct BY <1>5 DEF CloseProduct, productFrame, FlagsTyped
<1>6. CASE CloseSource BY <1>6 DEF CloseSource, FlagsTyped
<1>7. CASE CloseWindow \/ ShowFromTray \/ Quit \/ TrayChanges
      BY <1>7 DEF CloseWindow, ShowFromTray, Quit, TrayChanges, trayFrame, pageVars, FlagsTyped
<1>8. CASE JobStep \/ OtherStep
      BY <1>8 DEF JobStep, OtherStep, windowVars, pageVars, FlagsTyped
<1> QED BY <1>1, <1>2, <1>3, <1>4, <1>5, <1>6, <1>7, <1>8 DEF UserStep

\* The window's own steps, and those of the pool.
LEMMA HandlerIsTyped ==
    ASSUME WindowTyped, HandlerStep \/ PollStep \/ TimerFires
    PROVE  WindowTyped'
<1>0. /\ ServiceTyped /\ UiTyped /\ PollTyped /\ FlagsTyped /\ status \in Statuses
      /\ Snapshot \in Statuses /\ NoStatus \in Statuses /\ DialogsTyped(dialogs)
      BY SnapshotIsTyped DEF WindowTyped, UiTyped
<1>1. UNCHANGED serviceVars
      BY DEF HandlerStep, PollStep, SyncPoll, ProductRead, PollFailed, PollDelivered, TimerFires,
         productFrame, pollFrame
<1>2. ServiceTyped' BY <1>0, <1>1, ServiceStays DEF serviceVars, ServiceTyped
<1>3. ASSUME UNCHANGED <<ui, held, dialogs, pending, page>> PROVE UiTyped' BY <1>0, <1>3 DEF UiTyped
<1>4. CASE SyncPoll
  <2>1. UNCHANGED <<closed, preview, tray, polling>> BY <1>4 DEF SyncPoll
  <2>2. poll' = [at |-> poll.at, fresh |-> poll.at # "answered", status |-> poll.status]
        BY <1>0, <1>4 DEF SyncPoll, PollTyped
  <2>3. PollTyped' BY <1>0, <2>1, <2>2 DEF PollTyped
  <2>4. UiTyped' /\ status' \in Statuses /\ hidden' \in BOOLEAN
    <3>1. CASE Receive(Snapshot) BY <1>0, <3>1, ReceiveIsTyped DEF FlagsTyped
    <3>2. CASE ui' = "idle" /\ UNCHANGED <<held, dialogs, status, pending, page, hidden>>
          BY <1>0, <3>2 DEF UiTyped, FlagsTyped
    <3> QED BY <1>4, <3>1, <3>2 DEF SyncPoll
  <2> QED BY <1>0, <1>2, <2>1, <2>3, <2>4 DEF WindowTyped, FlagsTyped
<1>5. CASE ProductRead
  <2>1. UNCHANGED <<closed, preview, tray, hidden, polling, poll, status>>
        BY <1>5 DEF ProductRead, productFrame, pollVars
  <2>2. UiTyped'
    <3>1. CASE /\ Len(dialogs) < MaxDialogs
               /\ dialogs' = <<Dialog("product", held)>> \o dialogs
               /\ ui' = "idle" /\ held' = NoHeld /\ UNCHANGED <<pending, page>>
      <4>1. DialogsTyped(dialogs')
            BY <1>0, <3>1, PushIsTyped DEF Dialog, Dialogs, UiTyped
      <4> QED BY <1>0, <3>1, <4>1 DEF UiTyped, NoHeld
    <3>2. CASE Finish(held, dialogs) BY <1>0, <3>2, FinishIsTyped DEF UiTyped
    <3>3. CASE Stay(dialogs) /\ UNCHANGED pending BY <1>0, <3>3, TurnIsTyped DEF UiTyped
    <3> QED BY <1>5, <3>1, <3>2, <3>3 DEF ProductRead, ProductFails, Resume
  <2> QED BY <1>0, <1>2, <2>1, <2>2 DEF WindowTyped, FlagsTyped, PollTyped
<1>6. CASE PollFailed
  <2>1. /\ UNCHANGED <<ui, held, dialogs, pending, page, status, hidden, closed, preview, tray>>
        /\ polling' = FALSE /\ poll' = NoPoll
        BY <1>6 DEF PollFailed, receiveVars, pollFrame
  <2>2. PollTyped' BY <1>0, <2>1 DEF PollTyped, NoPoll
  <2> QED BY <1>0, <1>2, <1>3, <2>1, <2>2 DEF WindowTyped, FlagsTyped
<1>7. CASE PollDelivered
  <2>1. UNCHANGED <<closed, preview, tray>> /\ polling' = FALSE /\ poll' = NoPoll
        BY <1>7 DEF PollDelivered, pollFrame
  <2>2. PollTyped' BY <1>0, <2>1 DEF PollTyped, NoPoll
  <2>3. UiTyped' /\ status' \in Statuses /\ hidden' \in BOOLEAN
    <3>1. CASE Receive(poll.status) BY <1>0, <3>1, ReceiveIsTyped DEF PollTyped, FlagsTyped
    <3>2. CASE UNCHANGED receiveVars BY <1>0, <1>3, <3>2 DEF receiveVars, FlagsTyped
    <3> QED BY <1>7, <3>1, <3>2 DEF PollDelivered
  <2> QED BY <1>0, <1>2, <2>1, <2>2, <2>3 DEF WindowTyped, FlagsTyped
<1>8. CASE TimerFires
  <2>1. /\ UNCHANGED <<ui, held, dialogs, pending, page, status, hidden, closed, preview, tray>>
        /\ polling' = TRUE
        BY <1>8 DEF TimerFires, receiveVars, pollFrame
  <2>2. \/ poll' = [at |-> "answered", fresh |-> TRUE, status |-> Snapshot]
        \/ poll' = [at |-> "failed", fresh |-> TRUE, status |-> NoStatus]
        BY <1>8 DEF TimerFires, NoPoll
  <2>3. /\ poll' = [at |-> poll'.at, fresh |-> poll'.fresh, status |-> poll'.status]
        /\ poll'.at \in {"answered", "failed"} /\ poll'.status \in Statuses
        BY <1>0, <2>2
  <2>4. polling' = (poll'.at # "none")
    <3>1. poll'.at # "none" BY <2>3
    <3> QED BY <2>1, <3>1
  <2>5. PollTyped' BY <2>3, <2>4 DEF PollTyped
  <2> QED BY <1>0, <1>2, <1>3, <2>1, <2>5 DEF WindowTyped, FlagsTyped
<1> QED BY <1>4, <1>5, <1>6, <1>7, <1>8 DEF HandlerStep, PollStep

\* Every step.
LEMMA NextIsTyped ==
    ASSUME WindowTyped, [Next]_vars
    PROVE  WindowTyped'
<1>0. /\ ServiceTyped /\ UiTyped /\ PollTyped /\ FlagsTyped /\ status \in Statuses
      BY DEF WindowTyped
<1>1. CASE UserStep
  <2>1. UNCHANGED <<status, poll, polling>> BY <1>1, UserLeavesStatus
  <2>2. UiTyped' BY <1>0, <1>1, GestureIsTyped, CloseIsTyped, TrayIsTyped DEF UserStep
  <2> QED BY <1>0, <1>1, <2>1, <2>2, UserIsServed, FlagsStay DEF WindowTyped, PollTyped
<1>2. CASE HandlerStep \/ PollStep \/ TimerFires BY <1>2, HandlerIsTyped
<1>3. CASE JobStep \/ OtherStep
  <2>1. UNCHANGED <<ui, held, dialogs, pending, page, status, poll, polling>>
        BY <1>3 DEF JobStep, OtherStep, windowVars, pollVars, pageVars
  <2> QED BY <1>0, <1>3, <2>1, DaemonIsTyped, FlagsStay DEF WindowTyped, PollTyped, UiTyped
<1>4. CASE TrayChanges
  <2>1. UNCHANGED <<status, poll, polling>> BY <1>4 DEF TrayChanges, trayFrame, pollVars
  <2> QED BY <1>0, <1>4, <2>1, UserIsServed, TrayIsTyped, FlagsStay DEF WindowTyped, PollTyped
<1>5. CASE UNCHANGED vars
  <2>1. UNCHANGED <<ui, held, dialogs, pending, page, status, poll, polling, closed, preview, tray, hidden>>
        BY <1>5 DEF vars, pollVars, pageVars
  <2>2. ServiceTyped' BY <1>0, <1>5, ServiceStays DEF vars, serviceVars, ServiceTyped
  <2> QED BY <1>0, <2>1, <2>2 DEF WindowTyped, PollTyped, UiTyped, FlagsTyped
<1> QED BY <1>1, <1>2, <1>3, <1>4, <1>5 DEF Next

\* For every number of jobs, crashes, gestures and dialogs: the window has a
\* page, statuses and dialogs, and its request flag is set exactly while a
\* request is in the pool.
THEOREM WindowTypes == Spec => []TypeOK
<1>1. Init => WindowTyped
  <2>1. SUFFICES ASSUME Init PROVE WindowTyped OBVIOUS
  <2>2. ServiceTyped
        BY <2>1 DEF Init, ServiceInit, ServiceTyped, NoJob, NoResult, Results, Kinds, Tables
  <2>3. <<>> \in Seq({}) /\ Len(<<>>) = 0 OBVIOUS
  <2>4. DialogsTyped(dialogs) BY <2>1, <2>3, WindowAssumption DEF Init, DialogsTyped
  <2>5. UiTyped /\ PollTyped /\ FlagsTyped /\ status \in Statuses
        BY <2>1, <2>4, SnapshotIsTyped DEF Init, UiTyped, PollTyped, FlagsTyped, NoHeld, NoPoll, Places
  <2> QED BY <2>2, <2>5 DEF WindowTyped
<1>2. WindowTyped => TypeOK
  <2>1. SUFFICES ASSUME WindowTyped PROVE TypeOK OBVIOUS
  <2>2. pending.kind \in Kinds BY <2>1 DEF WindowTyped, UiTyped, NoAction, Kinds
  <2>3. PICK S : dialogs \in Seq(S) BY <2>1 DEF WindowTyped, UiTyped, DialogsTyped
  <2>4. DOMAIN dialogs = 1..Len(dialogs) BY <2>3
  <2> QED BY <2>1, <2>2, <2>4, SnapshotIsTyped
          DEF WindowTyped, UiTyped, PollTyped, FlagsTyped, DialogsTyped, ServiceTyped, Places, TypeOK
<1> QED BY <1>1, <1>2, NextIsTyped, PTL DEF Spec
=============================================================================
