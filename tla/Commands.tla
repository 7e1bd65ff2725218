------------------------------ MODULE Commands ------------------------------
(***************************************************************************)
(* What clients do about the daemon: ensure that one runs (pdo daemon      *)
(* start, a desktop application that starts), stop it (pdo daemon stop,    *)
(* the desktop's Quit) and repair (pdo daemon repair, stop --force):       *)
(* daemon/launcher.py, daemon/lifecycle.py, cli/daemon_cmd.py.             *)
(***************************************************************************)
EXTENDS Processes

VARIABLES
    client   \* what each client is doing

Operations == {"ensure", "stop", "repair"}
Waits      == {"ping_wait", "verify_wait", "stop_wait", "old_wait"}
Exits      == {"stop_exit", "old_exit", "term_exit", "kill_exit"}

\* Within stop_process, behind the read of the PID.
ProcessSteps == {"term", "term_send", "term_failed", "kill", "kill_send"}

ClientSteps == Waits \cup Exits \cup ProcessSteps \cup
    {"idle", "lock", "ping", "probe", "probe_both", "probe_pid", "old_read", "old_stop",
     "launch", "startup", "terminate", "reap", "verify", "stop_read", "stop",
     "process",
     "clean", "clean_pid", "clean_endpoint", "clean_done"}

MaybeProc == Procs \cup {None}

ClientTypes == [pc      : ClientSteps,
                op      : Operations \cup {None},
                to      : MaybeProc,   \* the daemon it sent its last request
                pid     : MaybeProc,   \* the PID whose end it waits for
                target  : MaybeProc,   \* the PID it is about to signal
                outcome : {"none", "ok", "error"}]

NoCommand == [pc |-> "idle", op |-> None, to |-> None, pid |-> None, target |-> None,
              outcome |-> "none"]

\* Each step has what it works on.
CommandsTypeOK ==
    /\ client \in [Clients -> ClientTypes]
    /\ \A c \in Clients :
          /\ client[c].pc \in Waits => client[c].to \in Procs
          /\ client[c].pc \in Exits \cup {"old_stop", "old_wait"} \cup ProcessSteps => client[c].pid \in Procs
          /\ client[c].pc \in {"term_send", "kill_send"} => client[c].target \in Procs
          /\ client[c].pc \in {"startup", "terminate", "reap"} => startup[c].child \in Procs

CommandsInit == client = [c \in Clients |-> NoCommand]

others == <<launchLock, owner, files, proc, startup>>

\* A process nobody remembers: nothing takes it for another.
Fresh(p) ==
    /\ proc[p].pc = "dead"
    /\ p \notin {pidFile, endpoint}
    /\ \A c \in Clients : p \notin {client[c].to, client[c].pid, client[c].target}

\* A command's process ends with it.  A desktop application goes on when it
\* found a daemon at its start, and when Quit could not stop the daemon.
AfterCommand(c, outcome) ==
    IF c \in Resident /\ (client[c].op = "ensure" <=> outcome = "ok")
    THEN proc ELSE Orphaned(c, proc)

Outcome(c, outcome) ==
    client' = [client EXCEPT ![c] = [NoCommand EXCEPT !.op = client[c].op, !.outcome = outcome]]

\* Defect: an error leaves the lifecycle lock locked.
ReturnsLocked(c, outcome) ==
    /\ Outcome(c, outcome)
    /\ launchLock' = IF outcome = "ok" THEN None ELSE launchLock
    /\ startup' = [startup EXCEPT ![c] = NotListening]
    /\ proc' = AfterCommand(c, outcome)
    /\ UNCHANGED <<owner, files>>

\* The command ends and releases the lifecycle lock.
Returns(c, outcome) ==
    /\ Outcome(c, outcome)
    /\ launchLock' = None
    /\ startup' = [startup EXCEPT ![c] = NotListening]
    /\ proc' = AfterCommand(c, outcome)
    /\ UNCHANGED <<owner, files>>

\* A step of the command that touches nothing else.
Goes(c, from, to) ==
    /\ client[c].pc = from
    /\ client' = [client EXCEPT ![c].pc = to]
    /\ UNCHANGED others

Remembers(c, from, to, p) ==
    /\ client[c].pc = from
    /\ client' = [client EXCEPT ![c].pc = to, ![c].pid = p]
    /\ UNCHANGED others
-----------------------------------------------------------------------------
\* A command is given; a desktop application's process starts a daemon once.
Begin(c, op) ==
    /\ client[c].pc = "idle"
    /\ op = "ensure" => \A p \in Procs : proc[p].parent # c
    /\ client' = [client EXCEPT ![c] = [NoCommand EXCEPT !.pc = "lock", !.op = op]]
    /\ UNCHANGED others

FirstOf(op) == CASE op = "ensure" -> "ping" [] op = "stop" -> "stop_read" [] OTHER -> "process"

\* Defect: the commands do not wait for each other.
LockIgnored(c) == Goes(c, "lock", FirstOf(client[c].op))

\* lifecycle_lock
Lock(c) ==
    /\ client[c].pc = "lock"
    /\ launchLock = None
    /\ launchLock' = c
    /\ client' = [client EXCEPT ![c].pc = FirstOf(client[c].op)]
    /\ UNCHANGED <<owner, files, proc, startup>>

\* A queued stop takes effect although its client is gone.
WithLateStop(c, procs) ==
    IF client[c].pc \in {"stop_wait", "old_wait"} /\ Listening(client[c].to)
    THEN [procs EXCEPT ![client[c].to].late = TRUE] ELSE procs

\* Ctrl-C at a command, the end of a desktop application: the process ends
\* wherever it is; no except clause sees that.
Interrupted(c) ==
    /\ client[c].pc # "idle" \/ \E p \in Procs : proc[p].parent = c
    /\ client' = [client EXCEPT ![c] = NoCommand]
    /\ launchLock' = IF launchLock = c THEN None ELSE launchLock
    /\ owner' = IF owner = c THEN None ELSE owner
    /\ startup' = [startup EXCEPT ![c] = NotListening]
    /\ proc' = WithLateStop(c, Orphaned(c, proc))
    /\ UNCHANGED files
-----------------------------------------------------------------------------
(***************************************************************************)
(* One request: send_command                                               *)
(***************************************************************************)

Requests == {"ping", "verify", "stop", "old_stop"}
WaitOf(step) == CASE step = "ping" -> "ping_wait" [] step = "verify" -> "verify_wait"
                  [] step = "stop" -> "stop_wait" [] OTHER -> "old_wait"

Reachable == endpoint # None /\ Listening(endpoint)

Send(c) ==
    /\ client[c].pc \in Requests
    /\ Reachable
    /\ client' = [client EXCEPT ![c].pc = WaitOf(@), ![c].to = endpoint]
    /\ UNCHANGED others

\* DaemonNotRunningError: ensure looks for the reason, also when it was
\* stopping an outdated daemon; stop turns to the process it saw before; the
\* check of a new daemon fails.
NotRunning(c) ==
    IF client[c].pc \in {"verify", "verify_wait"} THEN Returns(c, "error")
    ELSE /\ client' = [client EXCEPT ![c].to = None, ![c].pid = None,
                ![c].pc = IF client[c].op = "ensure" THEN "probe"
                          ELSE IF client[c].pid = None THEN "clean" ELSE "process"]
         /\ proc' = WithLateStop(c, proc)
         /\ UNCHANGED <<launchLock, owner, files, startup>>

Unreachable(c) == client[c].pc \in Requests /\ ~Reachable /\ NotRunning(c)

\* The daemon's socket is closed before it took the request.
Reset(c) == client[c].pc \in Waits /\ ~Listening(client[c].to) /\ NotRunning(c)

\* Ten seconds without an answer.
TimesOut(c) == client[c].pc \in Waits /\ Listening(client[c].to) /\ NotRunning(c)

\* An answer that reports an error, or half an answer.
BadAnswer(c) ==
    /\ client[c].pc \in Waits
    /\ Answering(client[c].to) \/ Exited(client[c].to)
    /\ Returns(c, "error")

Pong(c) ==
    LET p == client[c].to
    IN  /\ client[c].pc \in {"ping_wait", "verify_wait"}
        /\ Answering(p)
        /\ IF ~proc[p].old THEN Returns(c, "ok")
           ELSE IF client[c].pc = "ping_wait"
           THEN /\ client' = [client EXCEPT ![c].pc = "old_read", ![c].to = None]
                /\ UNCHANGED others
           ELSE Returns(c, "error")

\* Defect: nobody waits for the daemon that was told to stop.
StopsUnawaited(c) ==
    LET p == client[c].to
    IN  /\ client[c].pc \in {"stop_wait", "old_wait"}
        /\ Answering(p)
        /\ Outcome(c, "ok")
        /\ launchLock' = None
        /\ proc' = [AfterCommand(c, "ok") EXCEPT ![p].flag = "stop"]
        /\ UNCHANGED <<owner, files, startup>>

\* _handle_stop; then wait for the process seen before.
Stops(c) ==
    LET p == client[c].to
        unseen == client[c].pc = "stop_wait" /\ client[c].pid = None
    IN  /\ client[c].pc \in {"stop_wait", "old_wait"}
        /\ Answering(p)
        /\ IF unseen
           THEN /\ Outcome(c, "ok")
                /\ launchLock' = None
                /\ proc' = [AfterCommand(c, "ok") EXCEPT ![p].flag = "stop"]
           ELSE /\ client' = [client EXCEPT ![c].pc = IF @ = "old_wait" THEN "old_exit" ELSE "stop_exit"]
                /\ proc' = [proc EXCEPT ![p].flag = "stop"]
                /\ UNCHANGED launchLock
        /\ UNCHANGED <<owner, files, startup>>
-----------------------------------------------------------------------------
(***************************************************************************)
(* Waiting for a process to end: wait_for_exit                             *)
(***************************************************************************)

Cleans(c) ==
    /\ client' = [client EXCEPT ![c].pc = "clean", ![c].to = None, ![c].pid = None]
    /\ UNCHANGED others

SeesExit(c) ==
    /\ client[c].pc \in Exits
    /\ Exited(client[c].pid)
    /\ IF client[c].pc = "stop_exit" THEN Returns(c, "ok")
       ELSE Cleans(c)

GivesUp(c) ==
    /\ client[c].pc \in Exits
    /\ Alive(client[c].pid)
    /\ IF client[c].pc = "term_exit" /\ client[c].op = "repair"
       THEN client' = [client EXCEPT ![c].pc = "kill"] /\ UNCHANGED others
       ELSE Returns(c, "error")
-----------------------------------------------------------------------------
(***************************************************************************)
(* Ensure, behind a ping without an answer                                 *)
(***************************************************************************)

\* endpoint_file(config).exists()
Probe(c) == \/ endpoint # None /\ Goes(c, "probe", "probe_both")
            \/ endpoint = None /\ Goes(c, "probe", "probe_pid")

\* Defect: a file means a daemon.
UnresponsiveAlways(c) ==
    /\ client[c].pc = "probe_both"
    /\ Returns(c, "error")

\* ... and read_pid(...): a daemon that does not answer.
Unresponsive(c) ==
    /\ client[c].pc = "probe_both"
    /\ ReadPid # None
    /\ Returns(c, "error")

NoRecord(c) == ReadPid = None /\ Goes(c, "probe_both", "probe_pid")

\* A process without an endpoint: stop it.
ProbePid(c) == \/ ReadPid # None /\ Goes(c, "probe_pid", "process")
               \/ ReadPid = None /\ Goes(c, "probe_pid", "clean")

ReadOutdated(c) ==
    \/ ReadPid # None /\ Remembers(c, "old_read", "old_stop", ReadPid)
    \/ ReadPid = None /\ client[c].pc = "old_read" /\ Returns(c, "error")

ReadBeforeStop(c) == Remembers(c, "stop_read", "stop", ReadPid)
-----------------------------------------------------------------------------
(***************************************************************************)
(* stop_process                                                            *)
(***************************************************************************)

ReadProcess(c) == Remembers(c, "process", IF ReadPid = None THEN "clean" ELSE "term", ReadPid)

\* send_signal reads and validates the record once more ...
Validate(c) ==
    \E step \in {"term", "kill"} :
        /\ client[c].pc = step
        /\ IF ReadPid # None
           THEN /\ client' = [client EXCEPT ![c].target = ReadPid,
                                            ![c].pc = IF step = "term" THEN "term_send" ELSE "kill_send"]
                /\ UNCHANGED others
           ELSE IF step = "term" THEN Goes(c, "term", "term_failed")
           ELSE Returns(c, "error")

\* ... and signals; a zombie takes every signal.
SendTerm(c) ==
    LET p == client[c].target
    IN  /\ client[c].pc = "term_send"
        /\ client' = [client EXCEPT ![c].target = None,
                                    ![c].pc = IF proc[p].pc = "dead" THEN "term_failed" ELSE "term_exit"]
        /\ IF Alive(p) THEN Terminated(p) ELSE UNCHANGED <<proc, owner>>
        /\ UNCHANGED <<launchLock, files, startup>>

TermFailed(c) ==
    /\ client[c].pc = "term_failed"
    /\ IF Exited(client[c].pid) THEN Cleans(c) ELSE Returns(c, "error")

SendKill(c) ==
    LET p == client[c].target
    IN  /\ client[c].pc = "kill_send"
        /\ IF proc[p].pc = "dead" THEN Returns(c, "error")
           ELSE /\ client' = [client EXCEPT ![c].target = None, ![c].pc = "kill_exit"]
                /\ IF Alive(p) THEN Dies(p) ELSE UNCHANGED <<proc, owner>>
                /\ UNCHANGED <<launchLock, files, startup>>
-----------------------------------------------------------------------------
(***************************************************************************)
(* clean_stale_runtime                                                     *)
(***************************************************************************)

\* Defect: the files are removed without the directory's lock.
CleanUnlocked(c) ==
    /\ client[c].pc = "clean"
    /\ pidFile' = None
    /\ client' = [client EXCEPT ![c].pc = "clean_endpoint"]
    /\ UNCHANGED <<launchLock, owner, endpoint, proc, startup>>

Clean(c) ==
    /\ client[c].pc = "clean"
    /\ owner = None
    /\ owner' = c
    /\ client' = [client EXCEPT ![c].pc = "clean_pid"]
    /\ UNCHANGED <<launchLock, files, proc, startup>>

\* InstanceAlreadyRunningError
Occupied(c) == client[c].pc = "clean" /\ owner # None /\ Returns(c, "error")

CleanPid(c) ==
    /\ client[c].pc = "clean_pid"
    /\ pidFile' = None
    /\ client' = [client EXCEPT ![c].pc = "clean_endpoint"]
    /\ UNCHANGED <<launchLock, owner, endpoint, proc, startup>>

CleanEndpoint(c) ==
    /\ client[c].pc = "clean_endpoint"
    /\ endpoint' = None
    /\ client' = [client EXCEPT ![c].pc = "clean_done"]
    /\ UNCHANGED <<launchLock, owner, pidFile, proc, startup>>

CleanDone(c) ==
    /\ client[c].pc = "clean_done"
    /\ owner' = None
    /\ UNCHANGED files
    /\ IF client[c].op = "ensure"
       THEN client' = [client EXCEPT ![c].pc = "launch"] /\ UNCHANGED <<launchLock, proc, startup>>
       ELSE Outcome(c, "ok") /\ launchLock' = None /\ proc' = AfterCommand(c, "ok") /\ UNCHANGED startup
-----------------------------------------------------------------------------
(***************************************************************************)
(* _start_detached_daemon                                                  *)
(***************************************************************************)

Launch(c, p) ==
    /\ client[c].pc = "launch"
    /\ Fresh(p)
    /\ proc' = [proc EXCEPT ![p] = [NoProc EXCEPT !.pc = "spawned", !.launched = TRUE, !.parent = c]]
    /\ startup' = [startup EXCEPT ![c] = [child |-> p, word |-> "none"]]
    /\ client' = [client EXCEPT ![c].pc = "startup"]
    /\ UNCHANGED <<launchLock, owner, files>>

\* The socket, the log file or the process cannot be had.
CannotLaunch(c) == client[c].pc = "launch" /\ Returns(c, "error")

\* The child reports that it serves; nobody reports to the listener any more.
ChildReady(c) ==
    /\ client[c].pc = "startup"
    /\ startup[c].word = "ready"
    /\ client' = [client EXCEPT ![c].pc = "verify"]
    /\ startup' = [startup EXCEPT ![c] = NotListening]
    /\ UNCHANGED <<launchLock, owner, files, proc>>

ChildFailed(c) == startup[c].word = "error" /\ Goes(c, "startup", "terminate")

NoReport(c) == startup[c].word = "none" /\ Goes(c, "startup", "terminate")

\* poll() finds that the child ended; otherwise end it ...
TerminateChild(c) ==
    LET p == startup[c].child
    IN  /\ client[c].pc = "terminate"
        /\ Alive(p)
        /\ Terminated(p)
        /\ client' = [client EXCEPT ![c].pc = "reap"]
        /\ UNCHANGED <<launchLock, files, startup>>

\* ... and wait for it.
ReapChild(c) ==
    /\ client[c].pc \in {"terminate", "reap"}
    /\ Exited(startup[c].child)
    /\ Outcome(c, "error")
    /\ startup' = [startup EXCEPT ![c] = NotListening]
    /\ launchLock' = None
    /\ proc' = [proc EXCEPT ![startup[c].child] = NoProc]
    /\ UNCHANGED <<owner, files>>

KillChild(c) ==
    /\ client[c].pc = "reap"
    /\ Alive(startup[c].child)
    /\ Dies(startup[c].child)
    /\ UNCHANGED <<launchLock, files, startup, client>>
=============================================================================
