----------------------------- MODULE Lifecycle ------------------------------
(***************************************************************************)
(* Daemons and clients on one data directory, with what disturbs them:     *)
(* daemons started by hand, slow answers, failing set-ups, kills.          *)
(***************************************************************************)
EXTENDS Commands

CONSTANTS
    Ops,           \* the commands clients give
    MaxCommands,   \* how many they give
    MaxForeground, \* how many daemons are started by hand
    MaxFaults      \* how often a process is killed, interrupted or fails to start

ASSUME LifecycleAssumption ==
    /\ Ops \subseteq Operations
    /\ {MaxCommands, MaxForeground, MaxFaults} \subseteq Nat

VARIABLES
    used,   \* the bounds, used up so far
    calm    \* history: the clients whose command nothing disturbed since its lock

vars == <<launchLock, owner, pidFile, endpoint, proc, startup, client, used, calm>>

TypeOK ==
    /\ ProcessesTypeOK
    /\ CommandsTypeOK
    /\ used \in [commands : 0..MaxCommands, foreground : 0..MaxForeground, faults : 0..MaxFaults]
    /\ calm \in SUBSET Clients

Init ==
    /\ ProcessesInit
    /\ CommandsInit
    /\ used = [commands |-> 0, foreground |-> 0, faults |-> 0]
    /\ calm = {}

\* No daemon runs, or one that answers.
Settled == \A p \in Procs : Alive(p) => Answering(p) /\ ~proc[p].late

Ordinary   == UNCHANGED <<used, calm>>
Disturbing == calm' = {} /\ UNCHANGED used
Fault      == used.faults < MaxFaults /\ used' = [used EXCEPT !.faults = @ + 1] /\ calm' = {}
-----------------------------------------------------------------------------
\* What a daemon does once it is started.
DaemonStep(p) ==
    /\ \/ AcquireInstance(p) \/ Refused(p) \/ RemoveStaleEndpoint(p) \/ Listen(p)
       \/ WritePid(p) \/ WriteEndpoint(p)
       \/ StartCancelled(p) \/ StartsServing(p) \/ LauncherIsGone(p)
       \/ LateStop(p) \/ LeaveLoop(p) \/ CloseSocket(p) \/ Unpublish(p) \/ Unrecord(p)
       \/ ReleaseInstance(p) \/ Report(p) \/ Exit(p)
    /\ UNCHANGED client
    /\ Ordinary

\* What a client does in time, the answers it gets included.
ClientStep(c) ==
    \/ Lock(c) /\ calm' = (IF Settled THEN calm \cup {c} ELSE calm \ {c}) /\ UNCHANGED used
    \/ /\ \/ Send(c) \/ Unreachable(c) \/ Reset(c) \/ Pong(c) \/ Stops(c) \/ SeesExit(c)
          \/ Probe(c) \/ Unresponsive(c) \/ NoRecord(c) \/ ProbePid(c)
          \/ ReadOutdated(c) \/ ReadBeforeStop(c)
          \/ ReadProcess(c) \/ Validate(c) \/ SendTerm(c) \/ TermFailed(c) \/ SendKill(c)
          \/ Clean(c) \/ Occupied(c) \/ CleanPid(c) \/ CleanEndpoint(c) \/ CleanDone(c)
          \/ \E p \in Procs : Launch(c, p)
          \/ ChildReady(c) \/ ChildFailed(c) \/ TerminateChild(c) \/ ReapChild(c)
       /\ Ordinary

\* A wait that comes to its end.
Patience(c) == (TimesOut(c) \/ GivesUp(c) \/ NoReport(c) \/ KillChild(c)) /\ Disturbing

\* An answer that is none, a process that cannot be had.
Trouble(c) == (BadAnswer(c) \/ CannotLaunch(c)) /\ Disturbing

Command(c) ==
    /\ used.commands < MaxCommands
    /\ \E op \in Ops : (c \in Resident => op # "repair") /\ Begin(c, op)
    /\ used' = [used EXCEPT !.commands = @ + 1]
    /\ calm' = calm \ {c}

\* A desktop application is closed.
Closed(c) == client[c].pc = "idle" /\ Interrupted(c) /\ Ordinary

ByHand(p) ==
    /\ used.foreground < MaxForeground
    /\ Fresh(p)
    /\ StartForeground(p)
    /\ used' = [used EXCEPT !.foreground = @ + 1]
    /\ calm' = {}
    /\ UNCHANGED client

ProcessFault(p) == (SetupFails(p) \/ Killed(p)) /\ Fault /\ UNCHANGED client
ClientFault(c)  == client[c].pc # "idle" /\ Interrupted(c) /\ Fault

Next ==
    \/ \E p \in Procs : DaemonStep(p) \/ ByHand(p) \/ ProcessFault(p)
    \/ \E c \in Clients : \/ ClientStep(c) \/ Patience(c) \/ Trouble(c)
                          \/ Command(c) \/ Closed(c) \/ ClientFault(c)

Spec == Init /\ [][Next]_vars

\* Processes are scheduled, and every wait of a client has a deadline.  Nobody
\* has to give a command, and nothing has to fail.
FairSpec ==
    /\ Spec
    /\ \A p \in Procs : WF_vars(DaemonStep(p))
    /\ \A c \in Clients : WF_vars(ClientStep(c) \/ Patience(c))
-----------------------------------------------------------------------------
(***************************************************************************)
(* Invariants                                                              *)
(***************************************************************************)

\* What the two files name is the process that holds the data directory, or
\* one that has ended: a client that finds a living process there talks to, or
\* signals, the daemon and never a process that only used to be it
\* (server.py:94-105 and 142-167, pid.py:45-52, lifecycle.py:104-115).
RecordsAreCurrent ==
    \A p \in {pidFile, endpoint} \ {None} : owner = p \/ Exited(p)

\* A daemon that serves can be found: whoever cleans up, starts or stops at the
\* same time, the files that name it stay (lifecycle.py:104-115, server.py:94-99).
ServingIsFound ==
    \A p \in Procs : proc[p].pc = "serving" => pidFile = p /\ endpoint = p
-----------------------------------------------------------------------------
(***************************************************************************)
(* Action properties                                                       *)
(***************************************************************************)

Completes(c, op) ==
    client[c].pc # "idle" /\ client[c].op = op /\ client'[c].outcome \in {"ok", "error"}

\* A daemon that a waiting launcher started is refused the directory only
\* because another daemon has it, and never because of somebody who cleans up
\* (instance_lock.py:48-54, lifecycle.py:18-33).
RefusedByDaemon ==
    [][\A p \in Procs :
          /\ proc[p].pc = "spawned" /\ proc'[p].pc = "leaving"
          /\ \E c \in Clients : startup[c].child = p
          => owner \in Procs]_vars

\* From whatever files and processes earlier commands, kills and failures left
\* behind, a start finds or starts a daemon of its version - unless a daemon is
\* still starting or stopping, or a kill, a start by hand or a deadline comes in
\* between, or the PID file names a zombie (launcher.py:41-77, lifecycle.py:104-115).
EnsureWorks ==
    [][\A c \in calm' : Completes(c, "ensure") =>
          \/ /\ client'[c].outcome = "ok"
             /\ \E p \in Procs : Answering(p)' /\ ~proc'[p].old /\ endpoint' = p
          \/ \E p \in Procs : pidFile = p /\ proc[p].pc = "zombie"]_vars

\* Under the same conditions a stop and a repair leave no daemon
\* (lifecycle.py:36-101, daemon_cmd.py:63-74 and 103-111).
StopWorks ==
    [][\A c \in calm' : Completes(c, "stop") \/ Completes(c, "repair") =>
          /\ client'[c].outcome = "ok"
          /\ \A p \in Procs : Exited(p)']_vars

\* launcher.py:25: start a daemon if none is available - for clients of a
\* machine on which nothing happens meanwhile.
EnsureStarts ==
    [][\A c \in calm' : Completes(c, "ensure") => client'[c].outcome = "ok"]_vars
-----------------------------------------------------------------------------
(***************************************************************************)
(* Liveness                                                                *)
(***************************************************************************)

\* Every command comes back, whatever dies: none waits for ever for another
\* one's lock, for a child or for a daemon (lifecycle.py:18-33,
\* launcher.py:80-128, startup.py:27-51).
CommandsReturn == \A c \in Clients : client[c].pc # "idle" ~> client[c].pc = "idle"

\* A daemon that is told to stop, at any moment behind its signal handlers, ends
\* (server.py:60-107 and 422-425).
StoppedEnds == \A p \in Procs : proc[p].flag = "stop" ~> Exited(p)
=============================================================================
