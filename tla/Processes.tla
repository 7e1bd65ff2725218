----------------------------- MODULE Processes ------------------------------
(***************************************************************************)
(* The daemon as a process among processes: the two lock files, the PID    *)
(* file and the endpoint file of a data directory, and what a daemon does  *)
(* to them from its start to its end (daemon/entry.py, daemon/server.py,   *)
(* daemon/pid.py, daemon/endpoint.py, core/instance_lock.py).  What it     *)
(* does with its database in between is the module Daemon.                 *)
(***************************************************************************)
EXTENDS Naturals, FiniteSets

CONSTANTS
    Procs,    \* daemon processes (a PID together with its start marker)
    Clients,  \* client processes: commands and desktop applications
    Resident, \* the clients that live on behind a command: desktop applications
    None

ASSUME ProcessesAssumption ==
    /\ Procs \cap Clients = {}
    /\ None \notin Procs \cup Clients
    /\ Resident \subseteq Clients

VARIABLES
    launchLock,  \* the client that holds launch.lock
    owner,       \* the process that holds pdo.lock
    pidFile,     \* the process daemon.pid records
    endpoint,    \* the process daemon.endpoint leads to
    proc,        \* the daemon processes
    startup      \* per client: the child it listens for, and what that reported

files == <<pidFile, endpoint>>

\* dead: no process (yet, or any more); zombie: ended, but not reaped by its parent.
ProcSteps == {"dead", "zombie", "spawned", "setup", "bind", "armed", "recorded", "published",
              "serving", "closing", "closed", "unpublished", "unrecorded", "leaving", "reported"}

ProcTypes == [pc       : ProcSteps,
              launched : BOOLEAN,                   \* given a port to report to
              parent   : Clients \cup {None},
              old      : BOOLEAN,                   \* of another version than the clients
              flag     : {"unset", "run", "stop"},  \* _running; unset: no signal handler yet
              wrote    : SUBSET {"pid", "endpoint"},\* _pid_written, _port_published
              failed   : BOOLEAN,                   \* start() raises
              late     : BOOLEAN]                   \* a stop nobody waits for is queued

NoProc == [pc |-> "dead", launched |-> FALSE, parent |-> None, old |-> FALSE, flag |-> "unset",
           wrote |-> {}, failed |-> FALSE, late |-> FALSE]

ProcessesTypeOK ==
    /\ launchLock \in Clients \cup {None}
    /\ owner \in Procs \cup Clients \cup {None}
    /\ pidFile \in Procs \cup {None}
    /\ endpoint \in Procs \cup {None}
    /\ proc \in [Procs -> ProcTypes]
    /\ startup \in [Clients -> [child : Procs \cup {None}, word : {"none", "ready", "error"}]]

NotListening == [child |-> None, word |-> "none"]

ProcessesInit ==
    /\ launchLock = None
    /\ owner = None
    /\ pidFile = None
    /\ endpoint = None
    /\ proc = [p \in Procs |-> NoProc]
    /\ startup = [c \in Clients |-> NotListening]

Alive(p)      == proc[p].pc \notin {"dead", "zombie"}
\* Its socket is bound and not closed.
Listening(p)  == proc[p].pc \in {"armed", "recorded", "published", "serving", "closing"}
Answering(p)  == proc[p].pc = "serving" /\ proc[p].flag = "run"
\* The kernel's descriptor of the process reports its end.
Exited(p)     == ~Alive(p)

\* read_pid: the start marker of a zombie still matches.
ReadPid == IF pidFile # None /\ proc[pidFile].pc # "dead" THEN pidFile ELSE None

\* A process stays in the process table until its parent reaps it; init does so at once.
Ended(r) == IF r.parent = None THEN NoProc
            ELSE [NoProc EXCEPT !.pc = "zombie", !.parent = r.parent]

\* The process ends: the kernel drops its locks and its sockets.
Dies(p) ==
    /\ proc' = [proc EXCEPT ![p] = Ended(@)]
    /\ owner' = IF owner = p THEN None ELSE owner

\* SIGTERM: the handler, or without one the default.
Terminated(p) ==
    IF proc[p].flag = "unset" THEN Dies(p)
    ELSE proc' = [proc EXCEPT ![p].flag = "stop"] /\ UNCHANGED owner

\* A process that ends leaves its children to init, which reaps them.
Orphaned(c, procs) ==
    [p \in Procs |-> CASE procs[p].parent # c       -> procs[p]
                       [] procs[p].pc = "zombie"    -> NoProc
                       [] OTHER                     -> [procs[p] EXCEPT !.parent = None]]

Moves(p, from, to) == proc[p].pc = from /\ proc' = [proc EXCEPT ![p].pc = to]
-----------------------------------------------------------------------------
(***************************************************************************)
(* The daemon's start                                                      *)
(***************************************************************************)

\* pdo daemon start --foreground, of any version and without the launch lock.
StartForeground(p) ==
    /\ proc[p].pc = "dead"
    /\ \E old \in BOOLEAN : proc' = [proc EXCEPT ![p] = [NoProc EXCEPT !.pc = "spawned", !.old = old]]
    /\ UNCHANGED <<launchLock, owner, files, startup>>

AcquireInstance(p) ==
    /\ Moves(p, "spawned", "setup")
    /\ owner = None
    /\ owner' = p
    /\ UNCHANGED <<launchLock, files, startup>>

\* acquire() raises outside the try block: there is nothing to shut down.
Refused(p) ==
    /\ proc[p].pc = "spawned"
    /\ owner # None
    /\ proc' = [proc EXCEPT ![p].pc = "leaving", ![p].failed = TRUE]
    /\ UNCHANGED <<launchLock, owner, files, startup>>

RemoveStaleEndpoint(p) ==
    /\ Moves(p, "setup", "bind")
    /\ endpoint' = None
    /\ UNCHANGED <<launchLock, owner, pidFile, startup>>

\* bind and listen; from here on a signal only clears _running.
Listen(p) ==
    /\ proc[p].pc = "bind"
    /\ proc' = [proc EXCEPT ![p].pc = "armed", ![p].flag = "run"]
    /\ UNCHANGED <<launchLock, owner, files, startup>>

WritePid(p) ==
    /\ proc[p].pc = "armed"
    /\ proc' = [proc EXCEPT ![p].pc = "recorded", ![p].wrote = {"pid"}]
    /\ pidFile' = p
    /\ UNCHANGED <<launchLock, owner, endpoint, startup>>

WriteEndpoint(p) ==
    /\ proc[p].pc = "recorded"
    /\ proc' = [proc EXCEPT ![p].pc = "published", ![p].wrote = {"pid", "endpoint"}]
    /\ endpoint' = p
    /\ UNCHANGED <<launchLock, owner, pidFile, startup>>

\* A statement of _setup raises: the database, the socket or a file.
SetupFails(p) ==
    /\ proc[p].pc \in {"setup", "bind", "armed", "recorded"}
    /\ proc' = [proc EXCEPT ![p].pc = "closing", ![p].failed = TRUE]
    /\ UNCHANGED <<launchLock, owner, files, startup>>

\* A signal came during the set-up: start() ends without a report.
StartCancelled(p) ==
    /\ Moves(p, "published", "closing")
    /\ proc[p].flag = "stop"
    /\ UNCHANGED <<launchLock, owner, files, startup>>

\* Defect: the loop sets _running once more.
StartsAnyway(p) ==
    /\ proc[p].pc = "published"
    /\ proc' = [proc EXCEPT ![p].pc = "serving", ![p].flag = "run"]
    /\ IF proc[p].launched
       THEN \E c \in Clients : startup[c].child = p /\ startup' = [startup EXCEPT ![c].word = "ready"]
       ELSE UNCHANGED startup
    /\ UNCHANGED <<launchLock, owner, files>>

StartsServing(p) ==
    /\ Moves(p, "published", "serving")
    /\ proc[p].flag = "run"
    /\ IF proc[p].launched
       THEN \E c \in Clients : startup[c].child = p /\ startup' = [startup EXCEPT ![c].word = "ready"]
       ELSE UNCHANGED startup
    /\ UNCHANGED <<launchLock, owner, files>>

\* on_ready raises when nobody listens any more.
LauncherIsGone(p) ==
    /\ proc[p].pc = "published"
    /\ proc[p].flag = "run"
    /\ proc[p].launched
    /\ \A c \in Clients : startup[c].child # p
    /\ proc' = [proc EXCEPT ![p].pc = "closing", ![p].failed = TRUE]
    /\ UNCHANGED <<launchLock, owner, files, startup>>
-----------------------------------------------------------------------------
(***************************************************************************)
(* Its end                                                                 *)
(***************************************************************************)

\* A stop whose client gave up is read from its connection all the same.
LateStop(p) ==
    /\ Answering(p)
    /\ proc[p].late
    /\ proc' = [proc EXCEPT ![p].flag = "stop", ![p].late = FALSE]
    /\ UNCHANGED <<launchLock, owner, files, startup>>

LeaveLoop(p) ==
    /\ Moves(p, "serving", "closing")
    /\ proc[p].flag = "stop"
    /\ UNCHANGED <<launchLock, owner, files, startup>>

\* Defect: the lock goes first, the files afterwards.
ReleasesEarly(p) ==
    /\ proc[p].pc = "closing"
    /\ proc' = [proc EXCEPT ![p].pc = "closed", ![p].late = FALSE]
    /\ owner' = None
    /\ UNCHANGED <<launchLock, files, startup>>

CloseSocket(p) ==
    /\ proc[p].pc = "closing"
    /\ proc' = [proc EXCEPT ![p].pc = "closed", ![p].late = FALSE]
    /\ UNCHANGED <<launchLock, owner, files, startup>>

Unpublish(p) ==
    /\ Moves(p, "closed", "unpublished")
    /\ endpoint' = IF "endpoint" \in proc[p].wrote THEN None ELSE endpoint
    /\ UNCHANGED <<launchLock, owner, pidFile, startup>>

Unrecord(p) ==
    /\ Moves(p, "unpublished", "unrecorded")
    /\ pidFile' = IF "pid" \in proc[p].wrote THEN None ELSE pidFile
    /\ UNCHANGED <<launchLock, owner, endpoint, startup>>

ReleaseInstance(p) ==
    /\ Moves(p, "unrecorded", "leaving")
    /\ owner' = None
    /\ UNCHANGED <<launchLock, files, startup>>

\* entry.main reports the exception; without a listener that raises another.
Report(p) ==
    /\ Moves(p, "leaving", "reported")
    /\ proc[p].failed
    /\ startup' = [c \in Clients |-> IF startup[c] = [child |-> p, word |-> "none"]
                                     THEN [child |-> p, word |-> "error"] ELSE startup[c]]
    /\ UNCHANGED <<launchLock, owner, files>>

Exit(p) ==
    /\ \/ proc[p].pc = "leaving" /\ ~proc[p].failed
       \/ proc[p].pc = "reported"
    /\ Dies(p)
    /\ UNCHANGED <<launchLock, files, startup>>

\* The process is killed, or the machine fails.
Killed(p) ==
    /\ Alive(p)
    /\ Dies(p)
    /\ UNCHANGED <<launchLock, files, startup>>
=============================================================================
